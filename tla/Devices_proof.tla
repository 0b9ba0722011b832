----------------------------- MODULE Devices_proof -----------------------------
(***************************************************************************)
(* What the client keeps besides its packets, its session and the world,   *)
(* for every value of the constants.                                       *)
(*                                                                         *)
(* Input tracking loses nothing, whatever the size of the buffer and the   *)
(* events, as long as an update cannot fill it.  What it rests on          *)
(* (AsideInv): while a buffer is put aside, the other one holds what the   *)
(* same update tracked and no more, so it is not full before the one put   *)
(* aside is sent.                                                          *)
(*                                                                         *)
(* The right sound is heard: what plays was asked for last, as long as     *)
(* there is a disc and the player wants it (SilentInv, SongInv); and the   *)
(* effects are a ring, whose newest are at their places (RingInv).         *)
(*                                                                         *)
(* No key sticks: the property is inductive with the types (PadInv), and   *)
(* the step that matters is the look at the controller (LookAtKeeps).      *)
(*                                                                         *)
(* One computer answers, and the codes it lists are current: an Xbox that  *)
(* asks heard its last answer's computer only (AskInv), what is on its way *)
(* was asked since it was started (RequestInv), and so no entry of a list  *)
(* has another code than the Xbox that heard of it (CodeInv).              *)
(*                                                                         *)
(* A private message reads as it was written: after every character that   *)
(* is packed, the bytes so far and the half carried over read as the text  *)
(* so far (Reads, ReadsMore), and a half left over reads as a blank        *)
(* (LastHalf).  It is shown once: the numbers remembered are those of the  *)
(* last messages shown, at their places in the ring (RememberedInv).       *)
(*                                                                         *)
(* The rings threaded through the icons are lists: a ring of the code goes *)
(* through the nodes of one, forth and back (Rings), which taking a node   *)
(* off and putting one at the end keep (UnlinkTakesOff, PushPutsAtEnd).    *)
(* The table has some of the nodes of the history, at most one of a key    *)
(* (CacheOf), so every step is one of the list of icons in the order of    *)
(* their use (CacheInv, RingsAreACache).                                   *)
(***************************************************************************)
EXTENDS Devices, Induction

-------------------------------------------------------------------------------
\* The buffer was begun in this update, if there is one put aside.
AsideInv == enabled /\ old # <<>> => pos <= bytes

\* A tracking that is finished is off.
DoneInv == done => ~enabled

IInv == TypeOK /\ AsideInv /\ DoneInv /\ NoneIsLost

LEMMA InitIInv == Init => IInv
  <1> SUFFICES ASSUME Init PROVE IInv
    OBVIOUS
  <1>1. <<>> \in Seq(Nat) /\ 0 \in 0..(Limit - 1) /\ 0 \in 0..PerUpdate
          /\ 0 \in 0..MaxTracked
    BY InputTrackingAssumption
  <1>2. TypeOK
    BY <1>1, InputTrackingAssumption DEF Init, TypeOK
  <1> QED
    BY <1>2 DEF Init, IInv, AsideInv, DoneInv, NoneIsLost

-------------------------------------------------------------------------------

LEMMA UptoType ==
  ASSUME NEW n \in Nat
  PROVE  Upto(n) \in Seq(Nat) /\ Len(Upto(n)) = n
  BY DEF Upto

LEMMA UptoAppend ==
  ASSUME NEW n \in Nat
  PROVE  Upto(n) \o <<n + 1>> = Upto(n + 1)
  <1>1. Upto(n) \in Seq(Nat) /\ Len(Upto(n)) = n
    BY UptoType
  <1>2. Upto(n + 1) \in Seq(Nat) /\ Len(Upto(n + 1)) = n + 1
    BY UptoType
  <1>3. <<n + 1>> \in Seq(Nat)
    OBVIOUS
  <1> DEFINE both == Upto(n) \o <<n + 1>>
  <1>4. both \in Seq(Nat) /\ Len(both) = n + 1
    BY <1>1, <1>3, ConcatProperties
  <1>5. \A i \in 1..(n + 1) : both[i] = IF i <= n THEN Upto(n)[i] ELSE <<n + 1>>[i - n]
    BY <1>1, <1>3, ConcatProperties
  <1> HIDE DEF both
  <1>6. \A i \in 1..(n + 1) : both[i] = Upto(n + 1)[i]
    BY <1>5 DEF Upto
  <1>7. both = Upto(n + 1)
    BY <1>2, <1>4, <1>6, SeqEqual
  <1> QED
    BY <1>7 DEF both

LEMMA Regrouped ==
  ASSUME NEW a \in Seq(Nat), NEW b \in Seq(Nat), NEW c \in Seq(Nat)
  PROVE  (a \o b) \o c = a \o (b \o c)
  BY ConcatAssociative

\* A full buffer finds none put aside: the update would have tracked more than
\* it can.
LEMMA FullIsAlone ==
  ASSUME IInv, enabled, NEW n \in Sizes, bytes + n <= PerUpdate, Full(n)
  PROVE  old = <<>>
  <1>1. pos \in Nat /\ bytes \in Nat /\ n \in Nat
    BY InputTrackingAssumption DEF IInv, TypeOK
  <1> QED
    BY <1>1, InputTrackingAssumption DEF IInv, AsideInv, Full

-------------------------------------------------------------------------------

\* Each of the steps keeps the invariant.

LEMMA TrackKeeps ==
  ASSUME IInv, NEW n \in Sizes, Track(n)
  PROVE  IInv'
  <1>1. n \in 1..(Limit - 1) /\ n \in Nat /\ bytes + n <= PerUpdate /\ enabled
    BY InputTrackingAssumption DEF Track
  <1>2. /\ out \in Seq(Nat) /\ old \in Seq(Nat) /\ server \in Seq(Nat)
        /\ pos \in 0..(Limit - 1) /\ bytes \in 0..PerUpdate /\ tracked \in 0..MaxTracked
    BY DEF IInv, TypeOK
  <1>3. tracked' \in 0..MaxTracked /\ bytes' \in 0..PerUpdate /\ tracked' = tracked + 1
    BY <1>1, <1>2, InputTrackingAssumption DEF Track
  <1>4. tracked \in Nat /\ tracked + 1 \in Nat /\ <<tracked + 1>> \in Seq(Nat)
    BY <1>2, InputTrackingAssumption
  <1>5. server \o old \o out = Upto(tracked)
    BY <1>1 DEF IInv, NoneIsLost
  <1>6. Upto(tracked) \o <<tracked + 1>> = Upto(tracked + 1)
    BY <1>4, UptoAppend
  <1>7. UNCHANGED <<enabled, reading, server, done>> /\ ~done
    BY <1>1 DEF Track, IInv, DoneInv
  <1>8. CASE Full(n)
    <2>1. old' = out /\ out' = <<tracked + 1>> /\ pos' = n
      BY <1>8 DEF Track, PutAside
    <2>2. old = <<>>
      BY <1>1, <1>8, FullIsAlone
    <2>3. server \o old = server
      BY <1>2, <2>2, ConcatEmptySeq
    <2>4. server' \o old' \o out' = Upto(tracked')
      BY <1>3, <1>5, <1>6, <1>7, <2>1, <2>3
    <2>5. TypeOK'
      BY <1>1, <1>2, <1>3, <1>4, <1>7, <2>1 DEF IInv, TypeOK
    <2>6. pos' <= bytes'
      BY <1>1, <1>2, <2>1 DEF Track
    <2> QED
      BY <1>7, <2>4, <2>5, <2>6 DEF IInv, AsideInv, DoneInv, NoneIsLost
  <1>9. CASE ~Full(n)
    <2>1. old' = old /\ out' = Append(out, tracked + 1) /\ pos' = pos + n
      BY <1>9 DEF Track
    <2>2. out' = out \o <<tracked + 1>> /\ out' \in Seq(Nat)
      BY <1>2, <1>4, <2>1, AppendIsConcat, AppendProperties
    <2>3. server \o old \in Seq(Nat)
      BY <1>2, ConcatProperties
    <2>4. (server \o old) \o (out \o <<tracked + 1>>)
            = ((server \o old) \o out) \o <<tracked + 1>>
      <3>1. PICK p \in Seq(Nat) : p = server \o old
        BY <2>3
      <3>2. PICK e \in Seq(Nat) : e = <<tracked + 1>>
        BY <1>4
      <3>3. (p \o out) \o e = p \o (out \o e)
        BY <1>2, Regrouped
      <3> QED
        BY <3>1, <3>2, <3>3, Zenon
    <2>5. server' \o old' \o out' = Upto(tracked')
      BY <1>3, <1>5, <1>6, <1>7, <2>1, <2>2, <2>4
    <2>6. pos + n < Limit
      BY <1>1, <1>2, <1>9, InputTrackingAssumption DEF Full
    <2>7. TypeOK'
      BY <1>1, <1>2, <1>3, <1>7, <2>1, <2>2, <2>6, InputTrackingAssumption
      DEF IInv, TypeOK
    <2>8. old' # <<>> => pos' <= bytes'
      BY <1>1, <1>2, <2>1 DEF Track, IInv, AsideInv
    <2> QED
      BY <1>7, <2>5, <2>7, <2>8 DEF IInv, AsideInv, DoneInv, NoneIsLost
  <1> QED
    BY <1>8, <1>9

LEMMA ReadKeeps ==
  ASSUME IInv, Read
  PROVE  IInv'
  BY DEF IInv, Read, TypeOK, AsideInv, DoneInv, NoneIsLost

LEMMA EnableKeeps ==
  ASSUME IInv, Enable
  PROVE  IInv'
  <1>1. <<>> \in Seq(Nat) /\ 0 \in 0..(Limit - 1) /\ 0 \in 0..MaxTracked
    BY InputTrackingAssumption
  <1>2. TypeOK'
    BY <1>1, InputTrackingAssumption DEF IInv, TypeOK, Enable
  <1>3. server' \o old' \o out' = Upto(tracked')
    <2>1. <<>> \o <<>> = <<>>
      BY <1>1, ConcatEmptySeq
    <2>2. Upto(0) = <<>>
      BY UptoType, EmptySeq
    <2> QED
      BY <2>1, <2>2 DEF Enable
  <1> QED
    BY <1>2, <1>3 DEF IInv, AsideInv, DoneInv, NoneIsLost, Enable

LEMMA FinishKeeps ==
  ASSUME IInv, Finish
  PROVE  IInv'
  <1>1. out \in Seq(Nat) /\ old \in Seq(Nat) /\ server \in Seq(Nat)
    BY DEF IInv, TypeOK
  <1>2. server \o out \in Seq(Nat) /\ <<>> \in Seq(Nat)
    BY <1>1, ConcatProperties
  <1>3. TypeOK'
    <2>1. 0 \in 0..(Limit - 1)
      BY InputTrackingAssumption
    <2> QED
      BY <1>2, <2>1 DEF IInv, TypeOK, Finish
  <1>4. done' => server' = Upto(tracked')
    <2>1. old = <<>> => server \o old = server
      BY <1>1, ConcatEmptySeq
    <2> QED
      BY <2>1 DEF Finish, IInv, NoneIsLost
  <1> QED
    BY <1>3, <1>4 DEF IInv, AsideInv, DoneInv, NoneIsLost, Finish

LEMMA DisableKeeps ==
  ASSUME IInv, Disable
  PROVE  IInv'
  <1>1. <<>> \in Seq(Nat) /\ 0 \in 0..(Limit - 1)
    BY InputTrackingAssumption
  <1>2. TypeOK'
    BY <1>1 DEF IInv, TypeOK, Disable
  <1> QED
    BY <1>2 DEF IInv, AsideInv, DoneInv, NoneIsLost, Disable

LEMMA FlushKeeps ==
  ASSUME IInv, Flush
  PROVE  IInv'
  <1>1. out \in Seq(Nat) /\ old \in Seq(Nat) /\ server \in Seq(Nat)
    BY DEF IInv, TypeOK
  <1>2. server \o old \in Seq(Nat) /\ <<>> \in Seq(Nat)
    BY <1>1, ConcatProperties
  <1>3. TypeOK'
    <2>1. server' \in Seq(Nat)
      BY <1>1, <1>2 DEF Flush
    <2>2. 0 \in 0..PerUpdate
      BY InputTrackingAssumption
    <2> QED
      BY <1>2, <2>1, <2>2 DEF IInv, TypeOK, Flush
  <1>4. enabled' => server' \o old' \o out' = Upto(tracked')
    <2>1. (server \o old) \o <<>> = server \o old
      BY <1>2, ConcatEmptySeq
    <2> QED
      BY <2>1 DEF Flush, IInv, NoneIsLost
  <1>5. done' => server' = Upto(tracked')
    BY DEF Flush, IInv, DoneInv, NoneIsLost
  <1> QED
    BY <1>3, <1>4, <1>5 DEF IInv, AsideInv, DoneInv, NoneIsLost, Flush

LEMMA NextIInv == IInv /\ [Next]_vars => IInv'
  <1> SUFFICES ASSUME IInv, [Next]_vars PROVE IInv'
    OBVIOUS
  <1>1. CASE \E n \in Sizes : Track(n)
    BY <1>1, TrackKeeps
  <1>2. CASE Read \/ Enable \/ Finish \/ Disable \/ Flush
    BY <1>2, ReadKeeps, EnableKeeps, FinishKeeps, DisableKeeps, FlushKeeps
  <1>3. CASE UNCHANGED vars
    BY <1>3 DEF vars, IInv, TypeOK, AsideInv, DoneInv, NoneIsLost
  <1> QED
    BY <1>1, <1>2, <1>3 DEF Next

LEMMA Inductive == Spec => []IInv
  BY InitIInv, NextIInv, PTL DEF Spec

-------------------------------------------------------------------------------

\* The types of what inputtracking.c keeps: the buffer never reaches its limit
\* (inputtracking_ensure_capacity).
THEOREM TypeCorrect == Spec => []TypeOK
  <1>1. IInv => TypeOK
    BY DEF IInv
  <1> QED
    BY <1>1, Inductive, PTL

\* The server gets every event of a tracking, once and in order, whatever the
\* limit of the buffer and the sizes of the events (inputtracking.c, and the
\* order in which client_update_game reads packets and flushes).
THEOREM NothingIsLost == Spec => []NoneIsLost
  <1>1. IInv => NoneIsLost
    BY DEF IInv
  <1> QED
    BY <1>1, Inductive, PTL

-------------------------------------------------------------------------------
(***************************************************************************)
(* Music.                                                                  *)
(***************************************************************************)

\* A player who wants no music hears none, in the game and out of it: the
\* setting outlives the session, and a login starts nothing.
SilentInv == ~midiActive => song = M!NoTrack

\* The newest effects that have not ended are where the ring put them.
RingInv ==
  /\ \A i \in 0..(Effects - 1) : effects[i] <= waves
  /\ \A n \in 1..waves :
       n > waves - Effects /\ n \notin ended => effects[(n - 1) % Effects] = n

SongInv ==
  /\ ~font => song = M!NoTrack
  /\ midiActive /\ font /\ nextMusicDelay = 0 /\ currentMidi \in OnDisc
       => song = currentMidi

MusicInv == M!TypeOK /\ SilentInv /\ SongInv /\ RingInv

\* What begins a track, if it is there, and what ends the one that plays.
LEMMA SetMidi ==
  ASSUME MusicInv, NEW track \in Tracks \cup {M!NoTrack}, M!set_midi(track)
  PROVE  /\ font' \in BOOLEAN /\ song' \in Tracks \cup {Title, M!Jingle, M!NoTrack}
         /\ ~font' => song' = M!NoTrack
         /\ font' /\ track \in OnDisc => song' = track
  <1>1. font \in BOOLEAN /\ song \in Tracks \cup {Title, M!Jingle, M!NoTrack}
          /\ (~font => song = M!NoTrack)
    BY DEF MusicInv, M!TypeOK, SongInv
  <1> QED
    BY <1>1 DEF M!set_midi, M!music

LEMMA MusicInit == M!Init => MusicInv
  <1> SUFFICES ASSUME M!Init PROVE MusicInv
    OBVIOUS
  <1>1. 0 \in 0..Delay /\ 0 \in 0..MaxWaves
    BY MusicAssumption DEF M!MusicAssumption
  <1>2. effects \in [0..(Effects - 1) -> 0..MaxWaves]
    BY <1>1 DEF M!Init
  <1>3. M!TypeOK
    BY <1>1, <1>2 DEF M!Init, M!TypeOK
  <1>4. currentMidi \notin OnDisc
    BY MusicAssumption DEF M!Init, M!MusicAssumption, M!NamesAssumption
  <1>5. SilentInv /\ SongInv
    BY <1>4 DEF M!Init, SilentInv, SongInv
  <1>6. RingInv
    BY DEF M!Init, RingInv
  <1> QED
    BY <1>3, <1>5, <1>6 DEF MusicInv

\* Neither the ring nor what was told of it changes.
LEMMA SongChanges ==
  ASSUME MusicInv, UNCHANGED <<effects, waves, ended>>,
         playing' \in BOOLEAN, midiActive' \in BOOLEAN,
         currentMidi' \in Tracks \cup {M!NoTrack}, nextMusicDelay' \in 0..Delay,
         font' \in BOOLEAN, song' \in Tracks \cup {Title, M!Jingle, M!NoTrack},
         SilentInv', SongInv'
  PROVE  MusicInv'
  BY DEF MusicInv, M!TypeOK, RingInv

LEMMA MusicSteps ==
  ASSUME MusicInv,
         \/ M!Login \/ M!Logout \/ M!MidiJingle \/ M!Waits
         \/ \E track \in Tracks : M!MidiSong(track)
         \/ \E active \in BOOLEAN : M!MidiActive(active)
  PROVE  MusicInv'
  <1>1. /\ playing \in BOOLEAN /\ midiActive \in BOOLEAN /\ font \in BOOLEAN
        /\ currentMidi \in Tracks \cup {M!NoTrack} /\ nextMusicDelay \in 0..Delay
        /\ song \in Tracks \cup {Title, M!Jingle, M!NoTrack}
    BY DEF MusicInv, M!TypeOK
  <1>2. /\ 0 \in 0..Delay /\ Delay \in 0..Delay /\ Delay # 0
        /\ M!NoTrack \notin OnDisc
    BY MusicAssumption DEF M!MusicAssumption, M!NamesAssumption
  <1>3. SilentInv /\ SongInv
    BY DEF MusicInv
  <1>4. CASE M!Login
    BY <1>1, <1>3, <1>4, SongChanges DEF M!Login, M!sounds, SilentInv, SongInv
  <1>5. CASE M!Logout
    BY <1>1, <1>2, <1>3, <1>5, SongChanges DEF M!Logout, M!stop_music, SilentInv, SongInv
  <1>6. CASE M!MidiJingle
    <2>1. UNCHANGED <<playing, midiActive, currentMidi, effects, waves, ended>> /\ midiActive
      BY <1>6 DEF M!MidiJingle
    <2>2. /\ nextMusicDelay' \in 0..Delay /\ font' \in BOOLEAN
          /\ song' \in Tracks \cup {Title, M!Jingle, M!NoTrack}
      BY <1>1, <1>2, <1>6 DEF M!MidiJingle, M!music
    <2>3. SongInv'
      BY <1>1, <1>2, <1>3, <1>6 DEF M!MidiJingle, M!music, SongInv
    <2>4. SilentInv'
      BY <2>1 DEF SilentInv
    <2> QED
      BY <1>1, <2>1, <2>2, <2>3, <2>4, SongChanges
  <1>7. CASE M!Waits
    <2>1. nextMusicDelay' \in 0..Delay
      BY <1>1, <1>7, MusicAssumption DEF M!Waits, M!MusicAssumption
    <2>2. CASE nextMusicDelay' = 0 /\ midiActive
      <3>1. M!set_midi(currentMidi)
        BY <1>7, <2>2 DEF M!Waits
      <3> QED
        BY <1>1, <1>3, <1>7, <2>1, <2>2, <3>1, SetMidi, SongChanges
        DEF M!Waits, SilentInv, SongInv
    <2>3. CASE ~(nextMusicDelay' = 0 /\ midiActive)
      BY <1>1, <1>3, <1>7, <2>1, <2>3, SongChanges DEF M!Waits, SilentInv, SongInv
    <2> QED
      BY <2>2, <2>3
  <1>8. ASSUME NEW track \in Tracks, M!MidiSong(track) PROVE MusicInv'
    <2>1. CASE track # currentMidi /\ midiActive
      <3>1. M!set_midi(track)
        BY <1>8, <2>1 DEF M!MidiSong
      <3> QED
        BY <1>1, <1>2, <1>3, <1>8, <2>1, <3>1, SetMidi, SongChanges
        DEF M!MidiSong, SilentInv, SongInv
    <2>2. CASE ~(track # currentMidi /\ midiActive)
      BY <1>1, <1>2, <1>3, <1>8, <2>2, SongChanges DEF M!MidiSong, SilentInv, SongInv
    <2> QED
      BY <2>1, <2>2
  <1>9. ASSUME NEW active \in BOOLEAN, M!MidiActive(active) PROVE MusicInv'
    <2>1. CASE active
      <3>1. M!set_midi(currentMidi)
        BY <1>9, <2>1 DEF M!MidiActive, M!Restart
      <3> QED
        BY <1>1, <1>2, <1>3, <1>9, <2>1, <3>1, SetMidi, SongChanges
        DEF M!MidiActive, SilentInv, SongInv
    <2>2. CASE ~active
      BY <1>1, <1>2, <1>3, <1>9, <2>2, SongChanges
      DEF M!MidiActive, M!Restart, M!stop_music, SilentInv, SongInv
    <2> QED
      BY <2>1, <2>2
  <1> QED
    BY <1>4, <1>5, <1>6, <1>7, <1>8, <1>9

\* A number is so many times the divisor and what is left of it.
LEMMA DivMod ==
  ASSUME NEW e \in Int, e > 0, NEW a \in Int, NEW q, NEW r, q = a \div e, r = a % e
  PROVE  a = e * q + r /\ q \in Int /\ r \in 0..(e - 1)
  OBVIOUS

\* Two effects at the same place of the ring are at least one ring apart.
LEMMA ApartInTheRing ==
  ASSUME NEW e \in Nat \ {0}, NEW a \in Nat, NEW b \in Nat, a < b, b < a + e
  PROVE  a % e # b % e
  <1>0. e \in Int /\ e > 0 /\ a \in Int /\ b \in Int
    OBVIOUS
  <1>1. PICK p, r : p = a \div e /\ r = a % e
    OBVIOUS
  <1>2. PICK q, s : q = b \div e /\ s = b % e
    OBVIOUS
  <1>3. a = e * p + r /\ p \in Int /\ r \in 0..(e - 1)
    BY <1>0, <1>1, DivMod
  <1>4. b = e * q + s /\ q \in Int /\ s \in 0..(e - 1)
    BY <1>0, <1>2, DivMod
  <1>5. ASSUME r = s PROVE FALSE
    <2> DEFINE k == q - p
    <2>1. k \in Int /\ e * k = e * q - e * p
      BY <1>0, <1>3, <1>4
    <2>2. 0 < e * k /\ e * k < e
      BY <1>0, <1>3, <1>4, <1>5, <2>1
    <2> HIDE DEF k
    <2>3. CASE k <= 0
      <3>1. e * k <= 0
        BY <1>0, <2>1, <2>3
      <3> QED
        BY <2>1, <2>2, <3>1
    <2>4. CASE k >= 1
      <3>1. e * k >= e
        BY <1>0, <2>1, <2>4
      <3> QED
        BY <2>1, <2>2, <3>1
    <2> QED
      BY <2>1, <2>3, <2>4
  <1> QED
    BY <1>1, <1>2, <1>5

LEMMA WaveKeeps ==
  ASSUME MusicInv, M!Wave
  PROVE  MusicInv'
  <1>0. Effects \in Nat \ {0} /\ MaxWaves \in Nat
    BY MusicAssumption DEF M!MusicAssumption
  <1>1. /\ waves \in 0..MaxWaves /\ waves \in Nat /\ waves < MaxWaves /\ waves' = waves + 1
        /\ effects \in [0..(Effects - 1) -> 0..MaxWaves] /\ ended \subseteq 1..waves
        /\ effects' = [effects EXCEPT ![waves % Effects] = waves + 1]
        /\ UNCHANGED <<playing, midiActive, currentMidi, nextMusicDelay, font, song, ended>>
    BY <1>0 DEF MusicInv, M!TypeOK, M!Wave, M!asked
  <1>2. waves % Effects \in 0..(Effects - 1)
    BY <1>0, <1>1
  <1>3. waves + 1 \in 0..MaxWaves /\ waves' \in 0..MaxWaves /\ ended' \subseteq 1..waves'
    BY <1>0, <1>1
  <1>4. effects' \in [0..(Effects - 1) -> 0..MaxWaves]
    BY <1>1, <1>2, <1>3
  <1>5. M!TypeOK'
    BY <1>1, <1>3, <1>4 DEF MusicInv, M!TypeOK
  <1>6. SilentInv' /\ SongInv'
    BY <1>1 DEF MusicInv, SilentInv, SongInv
  <1>7. ASSUME NEW i \in 0..(Effects - 1) PROVE effects'[i] <= waves'
    <2>1. effects[i] <= waves /\ effects[i] \in Nat
      BY <1>0, <1>1 DEF MusicInv, RingInv
    <2> QED
      BY <1>1, <1>2, <2>1
  <1>8. ASSUME NEW n \in 1..waves', n > waves' - Effects, n \notin ended'
        PROVE  effects'[(n - 1) % Effects] = n
    <2>1. CASE n = waves + 1
      <3>1. n - 1 = waves
        BY <1>1, <2>1
      <3> QED
        BY <1>1, <1>2, <2>1, <3>1
    <2>2. CASE n # waves + 1
      <3>1. /\ n \in 1..waves /\ n > waves - Effects
            /\ n - 1 \in Nat /\ n - 1 < waves /\ waves < (n - 1) + Effects
        BY <1>0, <1>1, <1>8, <2>2
      <3>2. effects[(n - 1) % Effects] = n
        BY <1>1, <1>8, <3>1 DEF MusicInv, RingInv
      <3>3. (n - 1) % Effects # waves % Effects
        BY <1>0, <1>1, <3>1, ApartInTheRing
      <3>4. (n - 1) % Effects \in 0..(Effects - 1)
        BY <1>0, <3>1
      <3> QED
        BY <1>1, <3>2, <3>3, <3>4
    <2> QED
      BY <2>1, <2>2
  <1>9. RingInv'
    BY <1>7, <1>8 DEF RingInv
  <1> QED
    BY <1>5, <1>6, <1>9 DEF MusicInv

LEMMA EffectEndsKeeps ==
  ASSUME MusicInv, M!EffectEnds
  PROVE  MusicInv'
  <1>0. Effects \in Nat \ {0} /\ MaxWaves \in Nat
    BY MusicAssumption DEF M!MusicAssumption
  <1>1. /\ waves \in 0..MaxWaves /\ waves \in Nat
        /\ effects \in [0..(Effects - 1) -> 0..MaxWaves] /\ ended \subseteq 1..waves
        /\ UNCHANGED <<playing, midiActive, currentMidi, nextMusicDelay, font, song, waves>>
    BY <1>0 DEF MusicInv, M!TypeOK, M!EffectEnds, M!asked
  <1>2. PICK i \in 0..(Effects - 1) :
          /\ effects[i] > 0 /\ effects' = [effects EXCEPT ![i] = 0]
          /\ ended' = ended \cup {effects[i]}
    BY <1>1 DEF M!EffectEnds
  <1>3. effects[i] \in 1..waves
    BY <1>1, <1>2 DEF MusicInv, RingInv
  <1>4. effects' \in [0..(Effects - 1) -> 0..MaxWaves] /\ ended' \subseteq 1..waves
    <2>1. 0 \in 0..MaxWaves
      BY <1>0
    <2>2. effects' \in [0..(Effects - 1) -> 0..MaxWaves]
      BY <1>1, <1>2, <2>1
    <2>3. ended' \subseteq 1..waves
      BY <1>1, <1>2, <1>3
    <2> QED
      BY <2>2, <2>3
  <1>5. M!TypeOK'
    BY <1>1, <1>4 DEF MusicInv, M!TypeOK
  <1>6. SilentInv' /\ SongInv'
    BY <1>1 DEF MusicInv, SilentInv, SongInv
  <1>7. ASSUME NEW j \in 0..(Effects - 1) PROVE effects'[j] <= waves'
    BY <1>1, <1>2 DEF MusicInv, RingInv
  <1>8. ASSUME NEW n \in 1..waves', n > waves' - Effects, n \notin ended'
        PROVE  effects'[(n - 1) % Effects] = n
    <2>1. n \in 1..waves /\ n > waves - Effects /\ n \notin ended /\ n # effects[i]
      BY <1>1, <1>2, <1>8
    <2>2. effects[(n - 1) % Effects] = n
      BY <2>1 DEF MusicInv, RingInv
    <2>3. (n - 1) % Effects \in 0..(Effects - 1)
      BY <1>0, <2>1
    <2> QED
      BY <1>1, <1>2, <2>1, <2>2, <2>3
  <1>9. RingInv'
    BY <1>7, <1>8 DEF RingInv
  <1> QED
    BY <1>5, <1>6, <1>9 DEF MusicInv

\* A player hears what was asked for last (client.c, xboxaudio.c), through
\* jingles, settings, sessions and whatever becomes of the instruments; and of
\* any number of effects the newest play to their end.
THEOREM SoundIsRight == M!Spec => []RightSound
  <1>1. MusicInv /\ [M!Next]_(M!vars) => MusicInv'
    <2> SUFFICES ASSUME MusicInv, [M!Next]_(M!vars) PROVE MusicInv'
      OBVIOUS
    <2>1. CASE UNCHANGED M!vars
      BY <2>1 DEF M!vars, MusicInv, M!TypeOK, SilentInv, SongInv, RingInv
    <2> QED
      BY <2>1, MusicSteps, WaveKeeps, EffectEndsKeeps DEF M!Next
  <1>2. MusicInv => RightSound
    <2> SUFFICES ASSUME MusicInv PROVE RightSound
      OBVIOUS
    <2>1. ASSUME NEW n \in 1..waves, n > waves - Effects, n \notin ended
          PROVE  \E i \in DOMAIN effects : effects[i] = n
      <3>1. effects[(n - 1) % Effects] = n
        BY <2>1 DEF MusicInv, RingInv
      <3>2. (n - 1) % Effects \in DOMAIN effects
        BY MusicAssumption DEF M!MusicAssumption, MusicInv, M!TypeOK
      <3> QED
        BY <3>1, <3>2
    <2> QED
      BY <2>1 DEF MusicInv, SilentInv, SongInv, RightSound, M!RightSound
  <1> QED
    BY MusicInit, <1>1, <1>2, PTL DEF M!Spec

-------------------------------------------------------------------------------
(***************************************************************************)
(* Controllers.                                                            *)
(***************************************************************************)

PadInv == C!TypeOK /\ C!NothingSticks

LEMMA PadInit == C!Init => PadInv
  <1> SUFFICES ASSUME C!Init PROVE PadInv
    OBVIOUS
  <1>1. <<>> \in Seq(C!Event)
    OBVIOUS
  <1>2. C!TypeOK
    BY <1>1 DEF C!Init, C!TypeOK
  <1>3. C!NothingSticks
    BY DEF C!Init, C!NothingSticks
  <1> QED
    BY <1>2, <1>3 DEF PadInv

\* What happens outside of a poll, and the events it takes.
LEMMA HappensKeeps ==
  ASSUME PadInv, NEW p \in Pads, C!PlugIn(p) \/ C!Unplug(p) \/ C!PressStart(p)
  PROVE  PadInv'
  <1>1. /\ attached' \subseteq Pads
        /\ UNCHANGED <<open, pad, polling, pad_changed, prev_buttons, camera_held,
                       action_key, mouse_button, told, ingame, tracking>>
    BY DEF C!PlugIn, C!Unplug, C!PressStart, C!Happens, C!held, C!game, PadInv, C!TypeOK
  <1>2. events' \in Seq(C!Event)
    <2>1. PICK type \in {"added", "removed", "start"} :
            events' = Append(events, [type |-> type, which |-> p])
      BY DEF C!PlugIn, C!Unplug, C!PressStart, C!Happens
    <2>2. [type |-> type, which |-> p] \in C!Event
      BY DEF C!Event
    <2> QED
      BY <2>1, <2>2, AppendProperties DEF PadInv, C!TypeOK
  <1> QED
    BY <1>1, <1>2 DEF PadInv, C!TypeOK, C!NothingSticks

LEMMA BetweenPollsKeeps ==
  ASSUME PadInv, C!SessionEnds \/ C!TrackingChanges
  PROVE  PadInv'
  BY DEF PadInv, C!SessionEnds, C!TrackingChanges, C!TypeOK, C!NothingSticks

LEMMA TakeEventKeeps ==
  ASSUME PadInv, C!TakeEvent
  PROVE  PadInv'
  <1> DEFINE e == Head(events)
  <1>1. /\ e \in C!Event /\ events' \in Seq(C!Event)
        /\ polling' = TRUE
        /\ UNCHANGED <<attached, prev_buttons, camera_held, action_key, mouse_button,
                       told, ingame, tracking>>
    BY DEF PadInv, C!TypeOK, C!TakeEvent, C!held, C!game
  <1>2. PICK p \in Pads : C!Added(p) \/ C!Removed(p) \/ C!Selected(p)
    BY <1>1 DEF C!TakeEvent, C!Event
  <1>3. /\ open \subseteq Pads /\ attached \subseteq Pads /\ pad \in Pads \cup {NoPad}
        /\ pad_changed \in BOOLEAN /\ (pad # NoPad => pad \in open) /\ NoPad \notin Pads
    BY ControllerAssumption DEF PadInv, C!TypeOK, C!NothingSticks, C!ControllerAssumption
  <1>4. /\ open' \subseteq Pads /\ pad' \in Pads \cup {NoPad} /\ pad_changed' \in BOOLEAN
        /\ pad' # NoPad => pad' \in open'
    <2>1. CASE C!Added(p)
      BY <1>3, <2>1 DEF C!Added
    <2>2. CASE C!Removed(p)
      BY <1>3, <2>2 DEF C!Removed
    <2>3. CASE C!Selected(p)
      BY <1>3, <2>3 DEF C!Selected
    <2> QED
      BY <1>2, <2>1, <2>2, <2>3
  <1> QED
    BY <1>1, <1>4 DEF PadInv, C!TypeOK, C!NothingSticks

\* The heart of it: after the releases and the presses what is held is what the
\* controller holds, whether it was changed or not.
LEMMA LookAtKeeps ==
  ASSUME PadInv, NEW current \in SUBSET C!Buttons, NEW stick \in SUBSET Cameras,
         C!LookAt(current, stick)
  PROVE  /\ prev_buttons' = current /\ camera_held' \subseteq Cameras
         /\ action_key' \subseteq C!Keys /\ mouse_button' \in C!Mouse \cup {"none"}
         /\ ingame' \in BOOLEAN /\ tracking' \in BOOLEAN
         /\ told' \subseteq C!Keys \cup C!Mouse
         /\ "control" \in action_key' <=> "X" \in current
         /\ action_key' \cap Cameras = camera_held'
         /\ mouse_button' # "none" => mouse_button' \in current
         /\ told' \subseteq action_key' \cup (current \cap C!Mouse)
  <1>1. PICK cameras \in SUBSET Cameras :
          /\ prev_buttons' = current /\ camera_held' = cameras
          /\ action_key' = C!After(action_key, current, cameras) \cap C!Keys
          /\ mouse_button' =
                C!MouseAfter(IF C!Freed \cap C!Mouse # {} THEN "none" ELSE mouse_button,
                             current, C!Was)
          /\ told' = IF tracking' THEN C!After(told, current, cameras) ELSE {}
    BY DEF C!LookAt
  <1>2. ingame' \in BOOLEAN /\ tracking' \in BOOLEAN
    BY DEF C!LookAt, PadInv, C!TypeOK
  <1>3. /\ prev_buttons \subseteq C!Buttons /\ camera_held \subseteq Cameras
        /\ action_key \subseteq C!Keys /\ mouse_button \in C!Mouse \cup {"none"}
        /\ told \subseteq C!Keys \cup C!Mouse
        /\ "control" \in action_key <=> "X" \in prev_buttons
        /\ action_key \cap Cameras = camera_held
        /\ mouse_button # "none" => mouse_button \in prev_buttons
        /\ told \subseteq action_key \cup (prev_buttons \cap C!Mouse)
        /\ Cameras \cap (C!Mouse \cup {"control"}) = {}
    BY ControllerAssumption DEF PadInv, C!TypeOK, C!NothingSticks, C!ControllerAssumption
  <1>4. ASSUME NEW b, NEW k
        PROVE  k \in C!Meaning(b) <=> (k \in b /\ k \in C!Mouse) \/ (k = "control" /\ "X" \in b)
    BY DEF C!Meaning
  <1>5. \A k \in Cameras : k \notin C!Mouse /\ k # "control"
    BY <1>3
  <1>6. "control" \notin C!Mouse /\ "control" \in C!Keys /\ Cameras \subseteq C!Keys
    BY DEF C!Mouse, C!Keys
  <1>7. "control" \in action_key' <=> "X" \in current
    BY <1>1, <1>3, <1>4, <1>5, <1>6 DEF C!After, C!Freed, C!Released, C!Was, C!Turning
  <1>8. ASSUME NEW k \in Cameras PROVE k \in action_key' <=> k \in cameras
    <2>1. k \in action_key <=> k \in camera_held
      BY <1>3
    <2>2. \A b : k \notin C!Meaning(b)
      BY <1>4, <1>5
    <2> QED
      BY <1>1, <1>6, <2>1, <2>2 DEF C!After, C!Freed, C!Released, C!Turning
  <1>9. mouse_button' \in C!Mouse \cup {"none"} /\ (mouse_button' # "none" => mouse_button' \in current)
    <2> DEFINE before == IF C!Freed \cap C!Mouse # {} THEN "none" ELSE mouse_button
    <2>1. before \in C!Mouse \cup {"none"} /\ (before # "none" => before \in C!Was)
      BY <1>3, <1>4 DEF C!Freed, C!Released, C!Was
    <2> HIDE DEF before
    <2> QED
      BY <1>1, <2>1 DEF C!MouseAfter, C!Mouse, before
  <1>10. ASSUME NEW k \in told'
         PROVE  k \in action_key' \cup (current \cap C!Mouse)
    <2>1. k \in C!After(told, current, cameras)
      BY <1>1, <1>10
    <2>2. CASE k \in C!Meaning(current \ C!Was)
      BY <1>4, <1>7, <2>2
    <2>3. CASE k \in cameras
      BY <1>8, <2>3
    <2>4. CASE k \in told /\ k \notin C!Freed /\ k \notin C!Meaning(C!Was \ current)
               /\ k \notin C!Turning \ cameras
      <3>1. CASE k \in action_key
        BY <1>1, <1>3, <2>4, <3>1 DEF C!After
      <3>2. CASE k \in prev_buttons \cap C!Mouse
        BY <1>4, <2>4, <3>2 DEF C!Freed, C!Released, C!Was
      <3> QED
        BY <1>3, <2>4, <3>1, <3>2
    <2> QED
      BY <2>1, <2>2, <2>3, <2>4 DEF C!After
  <1>11. action_key' \subseteq C!Keys
    BY <1>1
  <1>12. action_key' \cap Cameras = camera_held'
    BY <1>1, <1>8
  <1>13. told' \subseteq C!Keys \cup C!Mouse
    BY <1>10, <1>11
  <1> QED
    BY <1>1, <1>2, <1>7, <1>9, <1>10, <1>11, <1>12, <1>13

LEMMA PollKeeps ==
  ASSUME PadInv, C!Poll
  PROVE  PadInv'
  <1>1. PICK current \in SUBSET C!Buttons, stick \in SUBSET Cameras : C!LookAt(current, stick)
    BY DEF C!Poll
  <1>2. /\ polling' = FALSE /\ pad_changed' = FALSE
        /\ UNCHANGED <<attached, events, open, pad>>
    BY DEF C!Poll
  <1>3. pad = NoPad => current = {}
    BY <1>1, ControllerAssumption DEF PadInv, C!TypeOK, C!LookAt, C!ControllerAssumption
  <1>4. /\ prev_buttons' = current /\ camera_held' \subseteq Cameras
        /\ action_key' \subseteq C!Keys /\ mouse_button' \in C!Mouse \cup {"none"}
        /\ ingame' \in BOOLEAN /\ tracking' \in BOOLEAN
        /\ told' \subseteq C!Keys \cup C!Mouse
        /\ "control" \in action_key' <=> "X" \in current
        /\ action_key' \cap Cameras = camera_held'
        /\ mouse_button' # "none" => mouse_button' \in current
        /\ told' \subseteq action_key' \cup (current \cap C!Mouse)
    BY <1>1, LookAtKeeps
  <1>5. C!TypeOK'
    BY <1>2, <1>4 DEF PadInv, C!TypeOK
  <1>6. C!NothingSticks'
    BY <1>2, <1>3, <1>4 DEF PadInv, C!NothingSticks
  <1> QED
    BY <1>5, <1>6 DEF PadInv

\* A key or a button the game or the server takes for held is held on the
\* selected controller (platform_poll_events), for any number of controllers
\* that come and go, at any time, and any set of camera keys.
THEOREM NothingHeldSticks == C!Spec => []NothingSticks
  <1>1. PadInv /\ [C!Next]_(C!vars) => PadInv'
    <2> SUFFICES ASSUME PadInv, [C!Next]_(C!vars) PROVE PadInv'
      OBVIOUS
    <2>1. CASE UNCHANGED C!vars
      BY <2>1 DEF C!vars, C!held, C!game, PadInv, C!TypeOK, C!NothingSticks
    <2> QED
      BY <2>1, HappensKeeps, BetweenPollsKeeps, TakeEventKeeps, PollKeeps DEF C!Next
  <1>2. PadInv => NothingSticks
    BY DEF PadInv, NothingSticks
  <1> QED
    BY PadInit, <1>1, <1>2, PTL DEF C!Spec

-------------------------------------------------------------------------------
(***************************************************************************)
(* The search for the computer.                                            *)
(***************************************************************************)

\* The finite sets of Discovery are those the library's facts are about.
LEMMA FiniteSetsOfDiscovery ==
  /\ \A S : D!IsFiniteSet(S) <=> IsFiniteSet(S)
  /\ \A S : D!Cardinality(S) = Cardinality(S)
  <1>1. \A S : D!IsFiniteSet(S) <=> IsFiniteSet(S)
    BY Zenon DEF D!IsFiniteSet, IsFiniteSet
  <1>2. \A S : D!Cardinality(S) = Cardinality(S)
    BY Zenon DEF D!Cardinality, Cardinality
  <1> QED
    BY <1>1, <1>2

\* While an Xbox asks it heard the computer its last answer is of, if it had
\* one, and what it asked has no outcome.
AskInv ==
  \A x \in Xboxes :
    /\ attempt[x] > 0 => outcome[x] = D!NoAnswer
    /\ attempt[x] > 0 /\ result[x] = D!NoAnswer => heard[x] = {}
    /\ attempt[x] > 0 /\ result[x] # D!NoAnswer =>
         heard[x] = {result[x].from} /\ result[x].login = logins[x]
    /\ outcome[x] # D!NoAnswer =>
         heard[x] = {outcome[x].from} /\ outcome[x].login = logins[x]

\* The list of the computer that gave this answer has no other code of the Xbox.
Current(x, a) ==
  a # D!NoAnswer /\ a.from \in running /\ a.key = starts[a.from]
    /\ found[a.from][x] # D!NotFound
  => found[a.from][x].code = boot[x]

CodeInv == \A x \in Xboxes :
  /\ Current(x, outcome[x])
  /\ attempt[x] > 0 => Current(x, result[x])

\* What is on its way was asked since the Xbox was started.
RequestInv == \A m \in requests : m.nonce = boot[m.xbox]

RoomInv == \A p \in PCs : D!Cardinality(D!Listed(found[p])) <= MaxFound

SearchInv == D!TypeOK /\ AskInv /\ CodeInv /\ RequestInv /\ RoomInv

LEMMA SearchInit == D!Init => SearchInv
  <1> SUFFICES ASSUME D!Init PROVE SearchInv
    OBVIOUS
  <1>1. D!TypeOK
    BY DEF D!Init, D!TypeOK, D!NoAnswer, D!NotFound
  <1>2. AskInv /\ CodeInv /\ RequestInv
    BY DEF D!Init, AskInv, CodeInv, RequestInv, Current
  <1>3. ASSUME NEW p \in PCs PROVE D!Cardinality(D!Listed(found[p])) <= MaxFound
    <2>1. D!Listed(found[p]) = {}
      BY DEF D!Init, D!Listed
    <2> QED
      BY <2>1, FS_EmptySet, FiniteSetsOfDiscovery, DiscoveryAssumption DEF D!DiscoveryAssumption
  <1> QED
    BY <1>1, <1>2, <1>3 DEF SearchInv, RoomInv

\* The search begins.
LEMMA LoginKeeps ==
  ASSUME SearchInv, NEW x \in Xboxes, D!Login(x)
  PROVE  SearchInv'
  <1>1. D!TypeOK'
    BY DEF SearchInv, D!TypeOK, D!Login, D!Asks, D!pcs, D!Request
  <1>2. AskInv'
    BY DEF SearchInv, AskInv, D!TypeOK, D!Login
  <1>3. CodeInv'
    BY DEF SearchInv, CodeInv, Current, D!TypeOK, D!Login, D!pcs
  <1>4. RequestInv'
    BY DEF SearchInv, RequestInv, D!TypeOK, D!Login, D!Asks
  <1>5. RoomInv'
    BY DEF SearchInv, RoomInv, D!Login, D!pcs, D!Listed
  <1> QED
    BY <1>1, <1>2, <1>3, <1>4, <1>5 DEF SearchInv

\* It asks again, or ends.
LEMMA DeadlineKeeps ==
  ASSUME SearchInv, NEW x \in Xboxes, D!Deadline(x)
  PROVE  SearchInv'
  <1>0. UNCHANGED <<boot, logins, result, heard, starts, running, found>> /\ attempt[x] > 0
    BY DEF D!Deadline, D!pcs
  <1>1. CASE result[x] = D!NoAnswer /\ attempt[x] = 1
    <2>1. /\ attempt' = [attempt EXCEPT ![x] = 2] /\ outcome' = outcome
          /\ D!Asks(x, logins[x])
      BY <1>1 DEF D!Deadline
    <2>2. D!TypeOK'
      BY <1>0, <2>1 DEF SearchInv, D!TypeOK, D!Asks, D!Request
    <2>3. AskInv'
      BY <1>0, <2>1 DEF SearchInv, AskInv, D!TypeOK
    <2>4. CodeInv'
      BY <1>0, <2>1 DEF SearchInv, CodeInv, Current, D!TypeOK
    <2>5. RequestInv'
      BY <1>0, <2>1 DEF SearchInv, RequestInv, D!TypeOK, D!Asks
    <2>6. RoomInv'
      BY <1>0 DEF SearchInv, RoomInv, D!Listed
    <2> QED
      BY <2>2, <2>3, <2>4, <2>5, <2>6 DEF SearchInv
  <1>2. CASE ~(result[x] = D!NoAnswer /\ attempt[x] = 1)
    <2>1. /\ attempt' = [attempt EXCEPT ![x] = 0] /\ requests' = requests
          /\ outcome' = [outcome EXCEPT ![x] = result[x]]
      BY <1>2 DEF D!Deadline, D!Ends
    <2>2. D!TypeOK'
      BY <1>0, <2>1 DEF SearchInv, D!TypeOK
    <2>3. AskInv'
      BY <1>0, <2>1 DEF SearchInv, AskInv, D!TypeOK
    <2>4. CodeInv'
      BY <1>0, <2>1 DEF SearchInv, CodeInv, Current, D!TypeOK
    <2>5. RequestInv'
      BY <1>0, <2>1 DEF SearchInv, RequestInv
    <2>6. RoomInv'
      BY <1>0 DEF SearchInv, RoomInv, D!Listed
    <2> QED
      BY <2>2, <2>3, <2>4, <2>5, <2>6 DEF SearchInv
  <1> QED
    BY <1>1, <1>2

\* The code may be another one: what was asked, and heard, is forgotten.
LEMMA BootKeeps ==
  ASSUME SearchInv, NEW x \in Xboxes, D!Boot(x)
  PROVE  SearchInv'
  <1>0. boot' \in [Xboxes -> Nat] /\ \A y \in Xboxes : y # x => boot'[y] = boot[y]
    BY DEF SearchInv, D!TypeOK, D!Boot
  <1>1. D!TypeOK'
    <2>1. /\ attempt' \in [Xboxes -> 0..2] /\ heard' \in [Xboxes -> SUBSET PCs]
          /\ result' \in [Xboxes -> D!Answer \cup {D!NoAnswer}]
          /\ outcome' \in [Xboxes -> D!Answer \cup {D!NoAnswer}]
      BY DEF SearchInv, D!TypeOK, D!Boot
    <2>2. requests' \subseteq D!Request /\ UNCHANGED <<logins, starts, running, found>>
      BY DEF SearchInv, D!TypeOK, D!Boot, D!pcs
    <2> QED
      BY <1>0, <2>1, <2>2 DEF SearchInv, D!TypeOK
  <1>2. AskInv'
    BY DEF SearchInv, AskInv, D!TypeOK, D!Boot
  <1>3. CodeInv'
    BY <1>0 DEF SearchInv, CodeInv, Current, D!TypeOK, D!Boot, D!pcs
  <1>4. RequestInv'
    BY <1>0 DEF SearchInv, RequestInv, D!TypeOK, D!Boot, D!Request
  <1>5. RoomInv'
    BY DEF SearchInv, RoomInv, D!Boot, D!pcs, D!Listed
  <1> QED
    BY <1>1, <1>2, <1>3, <1>4, <1>5 DEF SearchInv

\* A computer that starts has an empty list, and a key nothing has.
LEMMA StartKeeps ==
  ASSUME SearchInv, NEW p \in PCs, D!Start(p)
  PROVE  SearchInv'
  <1>1. D!TypeOK'
    BY DEF SearchInv, D!TypeOK, D!Start, D!xbox
  <1>2. AskInv' /\ RequestInv'
    BY DEF SearchInv, AskInv, RequestInv, D!Start, D!xbox
  <1>3. CodeInv'
    <2> SUFFICES ASSUME NEW x \in Xboxes, NEW a \in D!Answer \cup {D!NoAnswer}, Current(x, a)
                 PROVE  Current(x, a)'
      BY DEF SearchInv, CodeInv, D!TypeOK, D!Start, D!xbox
    <2> QED
      BY DEF SearchInv, Current, D!TypeOK, D!Start, D!xbox, D!Answer
  <1>4. RoomInv'
    <2> SUFFICES ASSUME NEW q \in PCs PROVE D!Cardinality(D!Listed(found'[q])) <= MaxFound
      BY DEF RoomInv
    <2>1. CASE q = p
      <3>1. D!Listed(found'[q]) = {}
        BY <2>1 DEF SearchInv, D!TypeOK, D!Start, D!Listed
      <3> QED
        BY <3>1, FS_EmptySet, FiniteSetsOfDiscovery, DiscoveryAssumption DEF D!DiscoveryAssumption
    <2>2. CASE q # p
      BY <2>2 DEF SearchInv, D!TypeOK, D!Start, RoomInv
    <2> QED
      BY <2>1, <2>2
  <1> QED
    BY <1>1, <1>2, <1>3, <1>4 DEF SearchInv

LEMMA StopKeeps ==
  ASSUME SearchInv, NEW p \in PCs, D!Stop(p)
  PROVE  SearchInv'
  <1>1. D!TypeOK'
    BY DEF SearchInv, D!TypeOK, D!Stop, D!xbox
  <1>2. AskInv' /\ RequestInv' /\ RoomInv'
    BY DEF SearchInv, AskInv, RequestInv, RoomInv, D!Stop, D!xbox, D!Listed
  <1>3. CodeInv'
    BY DEF SearchInv, CodeInv, Current, D!Stop, D!xbox
  <1> QED
    BY <1>1, <1>2, <1>3 DEF SearchInv

\* An entry that ages stays what it is.
LEMMA AgesKeeps ==
  ASSUME SearchInv, NEW p \in PCs, NEW x \in Xboxes, D!Ages(p, x)
  PROVE  SearchInv'
  <1>0. UNCHANGED <<boot, logins, attempt, result, heard, outcome, starts, running, requests>>
    BY DEF D!Ages, D!xbox
  <1>1. /\ found' \in [PCs -> [Xboxes -> {D!NotFound} \cup [code : Nat, fresh : BOOLEAN]]]
        /\ \A q \in PCs, y \in Xboxes : /\ found'[q][y].code = found[q][y].code
                                        /\ found'[q][y] = D!NotFound <=> found[q][y] = D!NotFound
    <2> DEFINE e == found[p][x]
               Entries == {D!NotFound} \cup [code : Nat, fresh : BOOLEAN]
               new == [e EXCEPT !.fresh = FALSE]
    <2>1. /\ found \in [PCs -> [Xboxes -> Entries]] /\ e.fresh /\ e \in Entries
          /\ found' = [found EXCEPT ![p] = [found[p] EXCEPT ![x] = new]]
      BY DEF SearchInv, D!TypeOK, D!Ages
    <2>2. e \in [code : Nat, fresh : BOOLEAN]
      BY <2>1 DEF D!NotFound
    <2>3. new \in [code : Nat, fresh : BOOLEAN] /\ new.code = e.code
      BY <2>2
    <2>4. e # D!NotFound /\ new # D!NotFound /\ new \in Entries
      BY <2>2, <2>3 DEF D!NotFound
    <2> HIDE DEF new, Entries
    <2>5. found' \in [PCs -> [Xboxes -> Entries]]
      BY <2>1, <2>4
    <2>6. ASSUME NEW q \in PCs, NEW y \in Xboxes
          PROVE  found'[q][y] = IF q = p /\ y = x THEN new ELSE found[q][y]
      BY <2>1
    <2>7. found' \in [PCs -> [Xboxes -> {D!NotFound} \cup [code : Nat, fresh : BOOLEAN]]]
      BY <2>5 DEF Entries
    <2> QED
      BY <2>3, <2>4, <2>6, <2>7
  <1>2. D!TypeOK'
    BY <1>0, <1>1 DEF SearchInv, D!TypeOK
  <1>3. AskInv' /\ RequestInv'
    BY <1>0 DEF SearchInv, AskInv, RequestInv
  <1>4. CodeInv'
    <2> SUFFICES ASSUME NEW y \in Xboxes, NEW a \in D!Answer \cup {D!NoAnswer}, Current(y, a)
                 PROVE  Current(y, a)'
      BY <1>0 DEF SearchInv, CodeInv, D!TypeOK
    <2> QED
      BY <1>0, <1>1 DEF Current, D!Answer
  <1>5. RoomInv'
    BY <1>1 DEF SearchInv, RoomInv, D!Listed
  <1> QED
    BY <1>2, <1>3, <1>4, <1>5 DEF SearchInv

\* The entries that are left when the list was full, and the Xbox that asks has
\* one, are as many as there may be.
LEMMA RoomAfter ==
  ASSUME NEW entries \in [Xboxes -> {D!NotFound} \cup [code : Nat, fresh : BOOLEAN]],
         D!Cardinality(D!Listed(entries)) <= MaxFound,
         NEW x \in Xboxes, NEW code \in Nat
  PROVE  LET pruned == D!Pruned(entries, x)
             added  == [pruned EXCEPT ![x] = D!Entry(pruned, x, code)]
         IN  /\ pruned \in [Xboxes -> {D!NotFound} \cup [code : Nat, fresh : BOOLEAN]]
             /\ \A y \in Xboxes : pruned[y] # D!NotFound => pruned[y] = entries[y]
             /\ D!Cardinality(D!Listed(pruned)) <= MaxFound
             /\ x \in D!Listed(pruned) \/ D!Cardinality(D!Listed(pruned)) < MaxFound
                  => D!Cardinality(D!Listed(added)) <= MaxFound
  <1> DEFINE Entries == {D!NotFound} \cup [code : Nat, fresh : BOOLEAN]
             pruned == D!Pruned(entries, x)
             added  == [pruned EXCEPT ![x] = D!Entry(pruned, x, code)]
  <1>1. MaxFound \in Nat /\ D!IsFiniteSet(Xboxes)
    BY DiscoveryAssumption, FiniteSetsOfDiscovery DEF D!DiscoveryAssumption
  <1>2. pruned \in [Xboxes -> Entries] /\ \A y \in Xboxes : pruned[y] # D!NotFound => pruned[y] = entries[y]
    BY DEF D!Pruned
  <1>3. \A e : D!Listed(e) \subseteq Xboxes
    BY DEF D!Listed
  <1>4. \A e : D!IsFiniteSet(D!Listed(e)) /\ D!Cardinality(D!Listed(e)) \in Nat
    BY <1>1, <1>3, FS_Subset, FS_CardinalityType, FiniteSetsOfDiscovery
  <1>5. D!Cardinality(D!Listed(pruned)) <= MaxFound
    <2>1. D!Listed(pruned) \subseteq D!Listed(entries)
      BY <1>2 DEF D!Listed
    <2>2. D!Cardinality(D!Listed(pruned)) <= D!Cardinality(D!Listed(entries))
      BY <1>4, <2>1, FS_Subset, FiniteSetsOfDiscovery
    <2> QED
      BY <1>1, <1>4, <2>2
  <1>6. D!Listed(added) \subseteq D!Listed(pruned) \cup {x}
    BY <1>2 DEF D!Listed
  <1>7. ASSUME x \in D!Listed(pruned) \/ D!Cardinality(D!Listed(pruned)) < MaxFound
        PROVE  D!Cardinality(D!Listed(added)) <= MaxFound
    <2> DEFINE Names == D!Listed(pruned)
    <2>1. IsFiniteSet(Names \cup {x}) /\ D!Cardinality(Names \cup {x}) =
            IF x \in Names THEN D!Cardinality(Names) ELSE D!Cardinality(Names) + 1
      BY <1>4, FS_AddElement, FiniteSetsOfDiscovery
    <2>2. D!Cardinality(Names \cup {x}) <= MaxFound
      BY <1>1, <1>4, <1>5, <1>7, <2>1
    <2>3. D!Cardinality(D!Listed(added)) <= D!Cardinality(Names \cup {x})
      BY <1>6, <2>1, FS_Subset, FiniteSetsOfDiscovery
    <2>4. D!Cardinality(Names \cup {x}) \in Nat
      BY <2>1, FS_CardinalityType, FiniteSetsOfDiscovery
    <2> QED
      BY <1>1, <1>4, <2>2, <2>3, <2>4
  <1> QED
    BY <1>2, <1>5, <1>7

\* A request is received and its answer heard, late or not at all: the Xbox that
\* hears it asks, the code listed is its own, and an answer of another computer
\* than the last one ends the search.
LEMMA ReceiveKeeps ==
  ASSUME SearchInv, NEW p \in PCs, D!Receive(p)
  PROVE  SearchInv'
  <1> DEFINE Entries == {D!NotFound} \cup [code : Nat, fresh : BOOLEAN]
  <1>1. PICK m \in requests :
          LET x       == m.xbox
              entries == D!Pruned(found[p], x)
              room    == x \in D!Listed(entries)
                         \/ D!Cardinality(D!Listed(entries)) < MaxFound
          IN  /\ m.to = p
              /\ requests' = requests \ {m}
              /\ found' = [found EXCEPT ![p] =
                              IF room THEN [entries EXCEPT
                                               ![x] = D!Entry(entries, x, m.nonce)]
                              ELSE entries]
              /\ \/ room /\ \E status \in {"OK", "PAIR"} :
                     D!Hear(x, [xbox |-> x, login |-> m.login, from |-> p,
                                key |-> starts[p], status |-> status])
                 \/ UNCHANGED D!xbox
              /\ UNCHANGED <<starts, running>>
    BY DEF D!Receive
  <1> DEFINE x       == m.xbox
             entries == D!Pruned(found[p], x)
             room    == x \in D!Listed(entries)
                        \/ D!Cardinality(D!Listed(entries)) < MaxFound
             added   == [entries EXCEPT ![x] = D!Entry(entries, x, m.nonce)]
             now     == IF room THEN added ELSE entries
  <1>2. /\ x \in Xboxes /\ m.nonce \in Nat /\ m.login \in Nat /\ m.nonce = boot[x]
        /\ found \in [PCs -> [Xboxes -> Entries]] /\ starts[p] \in Nat
    BY DEF SearchInv, D!TypeOK, D!Request, RequestInv
  <1>3. /\ entries \in [Xboxes -> Entries]
        /\ \A y \in Xboxes : entries[y] # D!NotFound => entries[y] = found[p][y]
        /\ D!Cardinality(D!Listed(entries)) <= MaxFound
        /\ room => D!Cardinality(D!Listed(added)) <= MaxFound
    BY <1>2, RoomAfter DEF SearchInv, RoomInv
  <1> HIDE DEF entries
  <1>4. /\ now \in [Xboxes -> Entries] /\ D!Cardinality(D!Listed(now)) <= MaxFound
        /\ \A y \in Xboxes : now[y] # D!NotFound =>
                               \/ now[y].code = found[p][y].code /\ found[p][y] # D!NotFound
                               \/ y = x /\ now[y].code = boot[x]
        /\ room => now[x].code = boot[x]
    BY <1>2, <1>3 DEF D!Entry
  <1>5. found' = [found EXCEPT ![p] = now] /\ requests' = requests \ {m}
          /\ UNCHANGED <<starts, running>> /\ boot' = boot /\ logins' = logins
    BY <1>1 DEF D!Hear, D!xbox, entries
  <1> HIDE DEF now
  <1>6. RequestInv' /\ requests' \subseteq D!Request
    BY <1>5 DEF SearchInv, RequestInv, D!TypeOK
  <1>7. RoomInv' /\ found' \in [PCs -> [Xboxes -> Entries]]
    BY <1>2, <1>4, <1>5 DEF SearchInv, RoomInv
  <1>8. ASSUME NEW y \in Xboxes, NEW a \in D!Answer \cup {D!NoAnswer}, Current(y, a)
        PROVE  Current(y, a)'
    BY <1>2, <1>4, <1>5, <1>8 DEF Current, D!Answer
  <1>9. CASE UNCHANGED D!xbox
    <2>1. D!TypeOK' /\ AskInv'
      BY <1>5, <1>6, <1>7, <1>9 DEF SearchInv, D!TypeOK, AskInv, D!xbox
    <2>2. CodeInv'
      BY <1>8, <1>9 DEF SearchInv, D!TypeOK, CodeInv, D!xbox
    <2> QED
      BY <1>6, <1>7, <2>1, <2>2 DEF SearchInv
  <1>10. ASSUME NEW status \in {"OK", "PAIR"}, room,
                D!Hear(x, [xbox |-> x, login |-> m.login, from |-> p,
                           key |-> starts[p], status |-> status])
         PROVE  SearchInv'
    <2>1. PICK a : a = [xbox |-> x, login |-> m.login, from |-> p,
                        key |-> starts[p], status |-> status]
      OBVIOUS
    <2>2. /\ a \in D!Answer /\ a # D!NoAnswer
          /\ a.login = m.login /\ a.from = p /\ a.key = starts[p]
      BY <1>2, <2>1 DEF D!Answer, D!NoAnswer
    <2>3. Current(x, a)'
      BY <1>2, <1>4, <1>5, <1>10, <2>2 DEF Current
    <2>4. /\ D!Hear(x, a) /\ attempt[x] > 0 /\ a.login = logins[x]
          /\ heard' = [heard EXCEPT ![x] = @ \cup {p}]
      <3>1. D!Hear(x, a)
        BY <1>10, <2>1
      <3> QED
        BY <2>2, <3>1 DEF D!Hear
    <2>5. CASE D!Multiple(x, a)
      <3>1. /\ attempt' = [attempt EXCEPT ![x] = 0] /\ result' = result
            /\ outcome' = [outcome EXCEPT ![x] = D!NoAnswer]
        BY <2>4, <2>5 DEF D!Hear, D!Ends
      <3>2. D!TypeOK'
        BY <1>2, <1>5, <1>6, <1>7, <2>4, <3>1 DEF SearchInv, D!TypeOK
      <3>3. AskInv'
        BY <1>2, <1>5, <2>4, <3>1 DEF SearchInv, D!TypeOK, AskInv
      <3>4. CodeInv'
        <4> SUFFICES ASSUME NEW y \in Xboxes
                     PROVE  Current(y, outcome[y])' /\ (attempt'[y] > 0 => Current(y, result[y])')
          BY DEF CodeInv
        <4>1. PICK o, r : o = outcome'[y] /\ r = result'[y]
          OBVIOUS
        <4>2. o = D!NoAnswer \/ o = outcome[y]
          BY <1>2, <3>1, <4>1 DEF SearchInv, D!TypeOK
        <4>3. /\ o \in D!Answer \cup {D!NoAnswer} /\ r \in D!Answer \cup {D!NoAnswer}
              /\ r = result[y] /\ (attempt'[y] > 0 => attempt[y] > 0)
          BY <1>2, <3>1, <3>2, <4>1 DEF SearchInv, D!TypeOK
        <4>4. Current(y, o) /\ (attempt'[y] > 0 => Current(y, r))
          BY <4>2, <4>3 DEF SearchInv, CodeInv, Current
        <4>5. Current(y, o)' /\ (attempt'[y] > 0 => Current(y, r)')
          BY <1>8, <4>3, <4>4
        <4> QED
          BY <4>1, <4>5 DEF Current
      <3> QED
        BY <1>6, <1>7, <3>2, <3>3, <3>4 DEF SearchInv
    <2>6. CASE ~D!Multiple(x, a)
      <3>1. result' = [result EXCEPT ![x] = a] /\ attempt' = attempt /\ outcome' = outcome
        BY <2>4, <2>6 DEF D!Hear
      <3>2. D!TypeOK'
        BY <1>2, <1>5, <1>6, <1>7, <2>2, <2>4, <3>1 DEF SearchInv, D!TypeOK
      <3>3. AskInv'
        BY <1>2, <1>5, <2>2, <2>4, <2>6, <3>1 DEF SearchInv, D!TypeOK, AskInv, D!Multiple
      <3>4. CodeInv'
        <4> SUFFICES ASSUME NEW y \in Xboxes
                     PROVE  Current(y, outcome[y])' /\ (attempt'[y] > 0 => Current(y, result[y])')
          BY DEF CodeInv
        <4>1. PICK o, r : o = outcome'[y] /\ r = result'[y]
          OBVIOUS
        <4>2. /\ o \in D!Answer \cup {D!NoAnswer} /\ r \in D!Answer \cup {D!NoAnswer}
              /\ o = outcome[y] /\ (attempt'[y] > 0 => attempt[y] > 0)
              /\ r = IF y = x THEN a ELSE result[y]
          BY <1>2, <3>1, <3>2, <4>1 DEF SearchInv, D!TypeOK
        <4>3. Current(y, o)'
          BY <1>8, <4>2 DEF SearchInv, CodeInv, Current
        <4>4. ASSUME attempt'[y] > 0 PROVE Current(y, r)'
          <5>1. CASE y = x
            BY <2>3, <4>2, <5>1
          <5>2. CASE y # x
            <6>1. Current(y, r)
              BY <4>2, <4>4, <5>2 DEF SearchInv, CodeInv, Current
            <6> QED
              BY <1>8, <4>2, <6>1
          <5> QED
            BY <5>1, <5>2
        <4> QED
          BY <4>1, <4>3, <4>4 DEF Current
      <3> QED
        BY <1>6, <1>7, <3>2, <3>3, <3>4 DEF SearchInv
    <2> QED
      BY <2>5, <2>6
  <1> QED
    BY <1>1, <1>9, <1>10 DEF entries

LEMMA SearchStep == SearchInv /\ [D!Next]_(D!vars) => SearchInv'
  <1> SUFFICES ASSUME SearchInv, [D!Next]_(D!vars) PROVE SearchInv'
    OBVIOUS
  <1>1. CASE UNCHANGED D!vars
    BY <1>1 DEF D!vars, D!xbox, D!pcs, SearchInv, D!TypeOK, AskInv, CodeInv, Current,
                RequestInv, RoomInv, D!Listed
  <1> QED
    BY <1>1, LoginKeeps, DeadlineKeeps, BootKeeps, StartKeeps, StopKeeps, AgesKeeps,
       ReceiveKeeps DEF D!Next

\* An Xbox that goes on heard one computer only, whatever is late or lost
\* (xbox_connect_login), for any number of Xboxes and of computers.
THEOREM OneAnswers == D!Spec => []OneComputer
  <1>1. SearchInv => OneComputer
    BY DEF SearchInv, AskInv, OneComputer, D!OneComputer
  <1> QED
    BY SearchInit, SearchStep, <1>1, PTL DEF D!Spec

\* The code a player is told to approve is the only one the computer lists for
\* that Xbox, and its list is no longer than it may be (Receive of
\* XboxDiscovery.cs).
THEOREM CodesStayCurrent == D!Spec => []CodesAreCurrent
  <1>1. SearchInv => CodesAreCurrent
    BY DEF SearchInv, CodeInv, RoomInv, Current, CodesAreCurrent, D!CodesAreCurrent
  <1> QED
    BY SearchInit, SearchStep, <1>1, PTL DEF D!Spec

-------------------------------------------------------------------------------
(***************************************************************************)
(* Private messages.                                                       *)
(***************************************************************************)

\* Two loops that begin alike and do the same in each step end alike.
LEMMA StepByStep ==
  ASSUME NEW m \in Nat, NEW f, NEW g, f[0] = g[0],
         \A n \in 1..m : f[n - 1] = g[n - 1] => f[n] = g[n]
  PROVE  f[m] = g[m]
  <1> DEFINE S == {k \in Nat : k <= m => f[k] = g[k]}
  <1>1. 0 \in S
    OBVIOUS
  <1>2. ASSUME NEW k \in Nat, k \in S
        PROVE  k + 1 \in S
    <2> SUFFICES ASSUME k + 1 <= m PROVE f[k + 1] = g[k + 1]
      OBVIOUS
    <2>1. k + 1 \in 1..m /\ (k + 1) - 1 = k /\ f[k] = g[k]
      BY <1>2
    <2>2. f[(k + 1) - 1] = g[(k + 1) - 1] => f[k + 1] = g[k + 1]
      BY <2>1
    <2> QED
      BY <2>1, <2>2
  <1>3. Nat \subseteq S
    <2> HIDE DEF S
    <2> QED
      BY <1>1, <1>2, AllNumbers
  <1> QED
    BY <1>3

\* A loop that begins in X and does not leave it.
LEMMA StaysIn ==
  ASSUME NEW m \in Nat, NEW X, NEW f, f[0] \in X,
         \A n \in 1..m : f[n - 1] \in X => f[n] \in X
  PROVE  f[m] \in X
  <1> DEFINE S == {k \in Nat : k <= m => f[k] \in X}
  <1>1. 0 \in S
    OBVIOUS
  <1>2. ASSUME NEW k \in Nat, k \in S
        PROVE  k + 1 \in S
    <2> SUFFICES ASSUME k + 1 <= m PROVE f[k + 1] \in X
      OBVIOUS
    <2>1. k + 1 \in 1..m /\ (k + 1) - 1 = k /\ f[k] \in X
      BY <1>2
    <2>2. f[(k + 1) - 1] \in X => f[k + 1] \in X
      BY <2>1
    <2> QED
      BY <2>1, <2>2
  <1>3. Nat \subseteq S
    <2> HIDE DEF S
    <2> QED
      BY <1>1, <1>2, AllNumbers
  <1> QED
    BY <1>3

LEMMA AppendAt ==
  ASSUME NEW S, NEW q \in Seq(S), NEW a \in S
  PROVE  /\ Append(q, a) \in Seq(S) /\ Len(Append(q, a)) = Len(q) + 1 /\ Len(q) \in Nat
         /\ Append(q, a)[Len(q) + 1] = a
         /\ \A i \in 1..Len(q) : Append(q, a)[i] = q[i]
  OBVIOUS

ShownChar == (0..60) \X BOOLEAN

\* What the loop of jstring_to_sentence_case goes through.
CasedState == [chars : Seq(ShownChar), capital : BOOLEAN]

CasedLoop(text, g) ==
  /\ g[0] = [chars |-> << >>, capital |-> TRUE]
  /\ \A n \in 1..Len(text) : g[n] = H!Cased(g[n - 1], text[n])

LEMMA CasedType ==
  ASSUME NEW s \in CasedState, NEW c \in 0..60
  PROVE  H!Cased(s, c) \in CasedState
  <1>1. << c, s.capital /\ H!Letter(c) >> \in ShownChar
    BY DEF CasedState, ShownChar, H!Letter
  <1>2. Append(s.chars, << c, s.capital /\ H!Letter(c) >>) \in Seq(ShownChar)
    BY <1>1 DEF CasedState
  <1>3. (H!EndsSentence(c) \/ (s.capital /\ ~H!Letter(c))) \in BOOLEAN
    OBVIOUS
  <1> QED
    BY <1>2, <1>3 DEF H!Cased, CasedState

LEMMA SentenceCaseIs ==
  ASSUME NEW text \in Seq(0..60)
  PROVE  \E g : /\ CasedLoop(text, g) /\ g[Len(text)] \in CasedState
                /\ H!SentenceCase(text) = g[Len(text)].chars
  <1> DEFINE m == Len(text)
             x0 == [chars |-> << >>, capital |-> TRUE]
             Loop(g) == [n \in 0..Len(text) |->
                          IF n = 0 THEN [chars |-> << >>, capital |-> TRUE]
                          ELSE H!Cased(g[n - 1], text[n])]
             loop == CHOOSE g : g = Loop(g)
             step == [p \in CasedState \X (1..m) |-> H!Cased(p[1], text[p[2]])]
  <1>1. m \in Nat /\ \A n \in 1..m : text[n] \in 0..60
    BY EntryType
  <1>2. x0 \in CasedState
    <2>1. << >> \in Seq(ShownChar)
      OBVIOUS
    <2> QED
      BY <2>1 DEF CasedState
  <1>3. step \in [CasedState \X (1..m) -> CasedState]
    <2> SUFFICES ASSUME NEW s \in CasedState, NEW n \in 1..m PROVE H!Cased(s, text[n]) \in CasedState
      OBVIOUS
    <2> QED
      BY <1>1, CasedType
  <1>4. PICK g \in [0..m -> CasedState] : Runs(g, m, x0, step)
    <2> HIDE DEF m, x0, step
    <2> QED
      BY <1>1, <1>2, <1>3, Recursion
  <1>5. g = Loop(g)
    <2>1. ASSUME NEW n \in 1..m PROVE g[n] = H!Cased(g[n - 1], text[n])
      <3>1. << g[n - 1], n >> \in CasedState \X (1..m)
        <4>1. n - 1 \in 0..m
          BY <1>1
        <4>2. g[n - 1] \in CasedState
          BY <1>4, <4>1
        <4> QED
          BY <4>2
      <3>2. g[n] = step[<< g[n - 1], n >>]
        BY <1>4 DEF Runs
      <3> QED
        BY <3>1, <3>2
    <2>2. g[0] = x0
      BY <1>4 DEF Runs
    <2> HIDE DEF step
    <2>3. \A n \in 0..m : g[n] = IF n = 0 THEN x0 ELSE H!Cased(g[n - 1], text[n])
      BY <1>1, <2>1, <2>2
    <2> QED
      BY <1>4, <2>3
  <1>6. loop = Loop(loop)
    <2> HIDE DEF Loop
    <2> QED
      BY <1>5
  <1>7. H!SentenceCase(text) = loop[Len(text)].chars
    BY DEF H!SentenceCase
  <1> HIDE DEF loop
  <1>8. CasedLoop(text, loop)
    <2>1. 0 \in 0..m /\ \A n \in 1..m : n \in 0..m /\ n # 0
      BY <1>1
    <2> QED
      BY <1>6, <2>1 DEF CasedLoop
  <1>9. loop[m] \in CasedState
    <2>1. loop[0] \in CasedState
      BY <1>2, <1>8 DEF CasedLoop
    <2>2. \A n \in 1..m : loop[n - 1] \in CasedState => loop[n] \in CasedState
      BY <1>1, <1>8, CasedType DEF CasedLoop
    <2> HIDE DEF m
    <2> QED
      BY <1>1, <2>1, <2>2, StaysIn
  <1> QED
    BY <1>7, <1>8, <1>9

LEMMA SentenceCaseType ==
  ASSUME NEW text \in Seq(0..60)
  PROVE  H!SentenceCase(text) \in Seq(ShownChar)
  BY SentenceCaseIs DEF CasedState

\* A blank at the end changes nothing before it.
LEMMA BlankAtTheEnd ==
  ASSUME NEW text \in Seq(0..60)
  PROVE  H!SentenceCase(Append(text, 0)) = Append(H!SentenceCase(text), H!Blank)
  <1> DEFINE longer == Append(text, 0)
             m == Len(text)
  <1>1. /\ longer \in Seq(0..60) /\ Len(longer) = m + 1 /\ longer[m + 1] = 0 /\ m \in Nat
        /\ \A i \in 1..m : longer[i] = text[i]
    OBVIOUS
  <1> HIDE DEF longer
  <1>2. PICK f : /\ CasedLoop(text, f) /\ f[m] \in CasedState
                 /\ H!SentenceCase(text) = f[m].chars
    BY SentenceCaseIs
  <1>3. PICK g : /\ CasedLoop(longer, g)
                 /\ H!SentenceCase(longer) = g[m + 1].chars
    BY <1>1, SentenceCaseIs
  <1>4. f[m] = g[m]
    <2>1. f[0] = g[0]
      BY <1>2, <1>3 DEF CasedLoop
    <2>2. \A n \in 1..m : f[n - 1] = g[n - 1] => f[n] = g[n]
      BY <1>1, <1>2, <1>3 DEF CasedLoop
    <2> HIDE DEF m
    <2> QED
      BY <1>1, <2>1, <2>2, StepByStep
  <1>5. g[m + 1] = H!Cased(g[m], 0)
    <2>1. m + 1 \in 1..Len(longer) /\ (m + 1) - 1 = m
      BY <1>1
    <2> QED
      BY <1>1, <1>3, <2>1 DEF CasedLoop
  <1>6. ~H!Letter(0)
    BY DEF H!Letter
  <1>7. g[m + 1].chars = Append(f[m].chars, H!Blank)
    <2>1. (g[m].capital /\ H!Letter(0)) = FALSE
      BY <1>6, Zenon
    <2>2. g[m + 1].chars = Append(g[m].chars, << 0, g[m].capital /\ H!Letter(0) >>)
      BY <1>5 DEF H!Cased
    <2>3. g[m + 1].chars = Append(g[m].chars, << 0, FALSE >>)
      BY <2>1, <2>2, Zenon
    <2> QED
      BY <1>4, <2>3, Zenon DEF H!Blank
  <1> QED
    BY <1>2, <1>3, <1>7 DEF longer

\* What the loop of wordpack_pack goes through: whole bytes, and the upper half
\* of one, which is more than twelve where it is the end of a character.
PackState == [bytes : Seq(0..255), carry : -1..15]

PackLoop(text, g) ==
  /\ g[0] = [bytes |-> << >>, carry |-> H!None]
  /\ \A n \in 1..Len(text) : g[n] = H!Packed(g[n - 1], text[n])

\* The halves of a byte.
LEMMA HalvesOf ==
  ASSUME NEW h \in 0..15, NEW l \in 0..15
  PROVE  /\ h * 16 + l \in 0..255
         /\ (h * 16 + l) \div 16 = h /\ (h * 16 + l) % 16 = l
  OBVIOUS

LEMMA IndexOf ==
  ASSUME NEW c \in 0..60
  PROVE  /\ H!None = -1
         /\ H!Index(c) \in 0..255
         /\ H!Index(c) < 13 => H!Index(c) = c
         /\ ~(H!Index(c) < 13) =>
               /\ c = H!Index(c) - 195
               /\ H!Index(c) \div 16 \in 13..15 /\ H!Index(c) % 16 \in 0..15
               /\ (H!Index(c) \div 16) * 16 + (H!Index(c) % 16) = H!Index(c)
  <1>1. CASE c > 12
    <2> DEFINE i == c + 195
    <2>1. i \in 208..255 /\ H!Index(c) = i
      BY <1>1 DEF H!Index
    <2> HIDE DEF i
    <2>2. i \div 16 \in 13..15 /\ i % 16 \in 0..15 /\ (i \div 16) * 16 + (i % 16) = i
      BY <2>1
    <2> QED
      BY <1>1, <2>1, <2>2 DEF i, H!None
  <1>2. CASE ~(c > 12)
    BY <1>2 DEF H!Index, H!None
  <1> QED
    BY <1>1, <1>2

LEMMA HalfCarried ==
  ASSUME NEW h \in -1..15, h # H!None
  PROVE  h \in 0..15
  BY DEF H!None

LEMMA PackedType ==
  ASSUME NEW s \in PackState, NEW c \in 0..60
  PROVE  H!Packed(s, c) \in PackState
  <1>1. s.bytes \in Seq(0..255) /\ s.carry \in -1..15
    BY DEF PackState
  <1>2. ASSUME NEW b \in 0..255 PROVE Append(s.bytes, b) \in Seq(0..255)
    BY <1>1
  <1>3. ASSUME NEW b \in Seq(0..255), NEW h \in -1..15
        PROVE  [bytes |-> b, carry |-> h] \in PackState
    BY DEF PackState
  <1>4. H!None \in -1..15 /\ H!None = -1
    BY IndexOf
  <1>5. CASE s.carry = H!None /\ H!Index(c) < 13
    <2>1. H!Packed(s, c) = [bytes |-> s.bytes, carry |-> H!Index(c)]
      BY <1>5 DEF H!Packed
    <2>2. H!Index(c) \in -1..15
      BY <1>5, IndexOf
    <2> QED
      BY <1>1, <1>3, <2>1, <2>2
  <1>6. CASE s.carry = H!None /\ ~(H!Index(c) < 13)
    <2>1. H!Packed(s, c) = [bytes |-> Append(s.bytes, H!Index(c)), carry |-> H!None]
      BY <1>6 DEF H!Packed
    <2>2. Append(s.bytes, H!Index(c)) \in Seq(0..255)
      BY <1>2, IndexOf
    <2> QED
      BY <1>3, <1>4, <2>1, <2>2
  <1>7. CASE s.carry # H!None /\ H!Index(c) < 13
    <2>1. H!Packed(s, c) = [bytes |-> Append(s.bytes, s.carry * 16 + H!Index(c)), carry |-> H!None]
      BY <1>7 DEF H!Packed
    <2>2. s.carry \in 0..15 /\ H!Index(c) \in 0..15
      <3>1. s.carry \in 0..15
        BY <1>1, <1>7, HalfCarried
      <3>2. H!Index(c) \in 0..255
        BY IndexOf
      <3> QED
        BY <1>7, <3>1, <3>2
    <2>3. s.carry * 16 + H!Index(c) \in 0..255
      BY <2>2, HalvesOf
    <2>4. Append(s.bytes, s.carry * 16 + H!Index(c)) \in Seq(0..255)
      BY <1>2, <2>3
    <2> QED
      BY <1>3, <1>4, <2>1, <2>4
  <1>8. CASE s.carry # H!None /\ ~(H!Index(c) < 13)
    <2>1. H!Packed(s, c) = [bytes |-> Append(s.bytes, s.carry * 16 + H!Index(c) \div 16),
                            carry |-> H!Index(c) % 16]
      BY <1>8 DEF H!Packed
    <2>2. s.carry \in 0..15 /\ H!Index(c) \div 16 \in 0..15 /\ H!Index(c) % 16 \in -1..15
      <3>1. s.carry \in 0..15
        BY <1>1, <1>8, HalfCarried
      <3>2. H!Index(c) \div 16 \in 13..15 /\ H!Index(c) % 16 \in 0..15
        BY <1>8, IndexOf
      <3> DEFINE u == H!Index(c) \div 16
                 l == H!Index(c) % 16
      <3> HIDE DEF u, l
      <3>3. u \in 0..15 /\ l \in -1..15
        BY <3>2 DEF u, l
      <3> QED
        BY <3>1, <3>3 DEF u, l
    <2>3. s.carry * 16 + H!Index(c) \div 16 \in 0..255
      BY <2>2, HalvesOf
    <2>4. Append(s.bytes, s.carry * 16 + H!Index(c) \div 16) \in Seq(0..255)
      BY <1>2, <2>3
    <2> QED
      BY <1>3, <2>1, <2>2, <2>4
  <1> QED
    BY <1>5, <1>6, <1>7, <1>8

LEMMA PackIs ==
  ASSUME NEW text \in Seq(0..60)
  PROVE  \E g : /\ PackLoop(text, g) /\ \A n \in 0..Len(text) : g[n] \in PackState
                /\ H!Pack(text) = H!AllHalves(g[Len(text)])
  <1> DEFINE m == Len(text)
             x0 == [bytes |-> << >>, carry |-> H!None]
             Loop(g) == [n \in 0..Len(text) |->
                          IF n = 0 THEN [bytes |-> << >>, carry |-> H!None]
                          ELSE H!Packed(g[n - 1], text[n])]
             loop == CHOOSE g : g = Loop(g)
             step == [p \in PackState \X (1..m) |-> H!Packed(p[1], text[p[2]])]
  <1>1. m \in Nat /\ \A n \in 1..m : text[n] \in 0..60
    BY EntryType
  <1>2. x0 \in PackState
    <2>1. << >> \in Seq(0..255) /\ H!None \in -1..15
      BY DEF H!None
    <2> QED
      BY <2>1 DEF PackState
  <1>3. step \in [PackState \X (1..m) -> PackState]
    <2> SUFFICES ASSUME NEW s \in PackState, NEW n \in 1..m PROVE H!Packed(s, text[n]) \in PackState
      OBVIOUS
    <2> QED
      BY <1>1, PackedType
  <1>4. PICK g \in [0..m -> PackState] : Runs(g, m, x0, step)
    <2> HIDE DEF m, x0, step
    <2> QED
      BY <1>1, <1>2, <1>3, Recursion
  <1>5. g = Loop(g)
    <2>1. ASSUME NEW n \in 1..m PROVE g[n] = H!Packed(g[n - 1], text[n])
      <3>1. << g[n - 1], n >> \in PackState \X (1..m)
        <4>1. n - 1 \in 0..m
          BY <1>1
        <4>2. g[n - 1] \in PackState
          BY <1>4, <4>1
        <4> QED
          BY <4>2
      <3>2. g[n] = step[<< g[n - 1], n >>]
        BY <1>4 DEF Runs
      <3> QED
        BY <3>1, <3>2
    <2>2. g[0] = [bytes |-> << >>, carry |-> H!None]
      BY <1>4 DEF Runs
    <2> HIDE DEF step
    <2>3. \A n \in 0..m : g[n] = IF n = 0 THEN [bytes |-> << >>, carry |-> H!None]
                                 ELSE H!Packed(g[n - 1], text[n])
      BY <1>1, <2>1, <2>2
    <2> QED
      BY <1>4, <2>3
  <1>6. loop = Loop(loop)
    <2> HIDE DEF Loop
    <2> QED
      BY <1>5
  <1>7. H!Pack(text) = H!AllHalves(loop[Len(text)])
    BY DEF H!Pack
  <1> HIDE DEF loop
  <1>8. PackLoop(text, loop)
    <2>1. 0 \in 0..m /\ \A n \in 1..m : n \in 0..m /\ n # 0
      BY <1>1
    <2> QED
      BY <1>6, <2>1 DEF PackLoop
  <1>9. ASSUME NEW k \in 0..m PROVE loop[k] \in PackState
    <2>1. loop[0] \in PackState
      BY <1>2, <1>8 DEF PackLoop
    <2>2. \A n \in 1..k : n \in 1..m
      BY <1>1
    <2>3. \A n \in 1..k : loop[n - 1] \in PackState => loop[n] \in PackState
      BY <1>1, <1>8, <2>2, PackedType DEF PackLoop
    <2> HIDE DEF m
    <2>4. k \in Nat
      BY <1>1
    <2> QED
      BY <2>1, <2>3, <2>4, StaysIn
  <1> QED
    BY <1>7, <1>8, <1>9

\* What the loop of wordpack_unpack goes through.
UnpackState == [chars : Seq(Int), carry : Int]

LEMMA HalfType ==
  ASSUME NEW s \in UnpackState, NEW h \in Nat
  PROVE  H!Half(s, h) \in UnpackState
  <1>1. s.chars \in Seq(Int) /\ s.carry \in Int /\ H!None \in Int
    BY DEF UnpackState, H!None
  <1>2. ASSUME NEW c \in Int PROVE Append(s.chars, c) \in Seq(Int)
    BY <1>1
  <1>3. ASSUME NEW q \in Seq(Int), NEW c \in Int
        PROVE  [chars |-> q, carry |-> c] \in UnpackState
    BY DEF UnpackState
  <1>4. CASE s.carry # H!None
    <2>1. H!Half(s, h) = [chars |-> Append(s.chars, s.carry * 16 + h - 195), carry |-> H!None]
      BY <1>4 DEF H!Half
    <2>2. s.carry * 16 + h - 195 \in Int
      BY <1>1
    <2> QED
      BY <1>1, <1>2, <1>3, <2>1, <2>2
  <1>5. CASE s.carry = H!None /\ h < 13
    <2>1. H!Half(s, h) = [chars |-> Append(s.chars, h), carry |-> H!None]
      BY <1>5 DEF H!Half
    <2>2. h \in Int /\ Append(s.chars, h) \in Seq(Int)
      BY <1>2
    <2> QED
      BY <1>1, <1>3, <2>1, <2>2
  <1>6. CASE s.carry = H!None /\ ~(h < 13)
    <2>1. H!Half(s, h) = [chars |-> s.chars, carry |-> h]
      BY <1>6 DEF H!Half
    <2> QED
      BY <1>1, <1>3, <2>1
  <1> QED
    BY <1>4, <1>5, <1>6

UnpackByte(s, b) == H!Half(H!Half(s, b \div 16), b % 16)

LEMMA UnpackByteType ==
  ASSUME NEW s \in UnpackState, NEW b \in 0..255
  PROVE  UnpackByte(s, b) \in UnpackState
  <1>1. b \div 16 \in Nat /\ b % 16 \in Nat
    OBVIOUS
  <1>2. H!Half(s, b \div 16) \in UnpackState
    BY <1>1, HalfType
  <1> QED
    BY <1>1, <1>2, HalfType DEF UnpackByte

UnpackLoop(q, g) ==
  /\ g[0] = [chars |-> << >>, carry |-> H!None]
  /\ \A n \in 1..Len(q) : g[n] = UnpackByte(g[n - 1], q[n])

LEMMA UnpackedIs ==
  ASSUME NEW q \in Seq(0..255)
  PROVE  \E g : UnpackLoop(q, g) /\ H!Unpacked(q) = g[Len(q)]
  <1> DEFINE m == Len(q)
             x0 == [chars |-> << >>, carry |-> H!None]
             Loop(g) == [n \in 0..Len(q) |->
                          IF n = 0 THEN [chars |-> << >>, carry |-> H!None]
                          ELSE H!Half(H!Half(g[n - 1], q[n] \div 16), q[n] % 16)]
             loop == CHOOSE g : g = Loop(g)
             step == [p \in UnpackState \X (1..m) |-> UnpackByte(p[1], q[p[2]])]
  <1>1. m \in Nat /\ \A n \in 1..m : q[n] \in 0..255
    BY EntryType
  <1>2. x0 \in UnpackState
    <2>1. << >> \in Seq(Int) /\ H!None \in Int
      BY DEF H!None
    <2> QED
      BY <2>1 DEF UnpackState
  <1>3. step \in [UnpackState \X (1..m) -> UnpackState]
    <2> SUFFICES ASSUME NEW s \in UnpackState, NEW n \in 1..m PROVE UnpackByte(s, q[n]) \in UnpackState
      OBVIOUS
    <2> QED
      BY <1>1, UnpackByteType
  <1>4. PICK g \in [0..m -> UnpackState] : Runs(g, m, x0, step)
    <2> HIDE DEF m, x0, step
    <2> QED
      BY <1>1, <1>2, <1>3, Recursion
  <1>5. g = Loop(g)
    <2>1. ASSUME NEW n \in 1..m PROVE g[n] = UnpackByte(g[n - 1], q[n])
      <3>1. << g[n - 1], n >> \in UnpackState \X (1..m)
        <4>1. n - 1 \in 0..m
          BY <1>1
        <4>2. g[n - 1] \in UnpackState
          BY <1>4, <4>1
        <4> QED
          BY <4>2
      <3>2. g[n] = step[<< g[n - 1], n >>]
        BY <1>4 DEF Runs
      <3> QED
        BY <3>1, <3>2
    <2>2. g[0] = x0
      BY <1>4 DEF Runs
    <2> HIDE DEF step
    <2>3. \A n \in 0..m : g[n] = IF n = 0 THEN x0 ELSE UnpackByte(g[n - 1], q[n])
      BY <1>1, <2>1, <2>2
    <2> QED
      BY <1>4, <2>3 DEF UnpackByte
  <1>6. loop = Loop(loop)
    <2> HIDE DEF Loop
    <2> QED
      BY <1>5
  <1>7. H!Unpacked(q) = loop[Len(q)]
    BY DEF H!Unpacked
  <1> HIDE DEF loop
  <1>8. UnpackLoop(q, loop)
    <2>1. 0 \in 0..m /\ \A n \in 1..m : n \in 0..m /\ n # 0
      BY <1>1
    <2> QED
      BY <1>6, <2>1 DEF UnpackLoop, UnpackByte
  <1> QED
    BY <1>7, <1>8

\* One more byte is unpacked after the others.
LEMMA UnpackedMore ==
  ASSUME NEW q \in Seq(0..255), NEW b \in 0..255
  PROVE  H!Unpacked(Append(q, b)) = UnpackByte(H!Unpacked(q), b)
  <1> DEFINE longer == Append(q, b)
             m == Len(q)
  <1>1. /\ longer \in Seq(0..255) /\ Len(longer) = m + 1 /\ longer[m + 1] = b /\ m \in Nat
        /\ \A i \in 1..m : longer[i] = q[i]
    BY AppendAt
  <1> HIDE DEF longer
  <1>2. PICK f : UnpackLoop(q, f) /\ H!Unpacked(q) = f[m]
    BY UnpackedIs
  <1>3. PICK g : UnpackLoop(longer, g) /\ H!Unpacked(longer) = g[m + 1]
    BY <1>1, UnpackedIs
  <1>4. f[m] = g[m]
    <2>1. f[0] = g[0]
      BY <1>2, <1>3 DEF UnpackLoop
    <2>2. \A n \in 1..m : f[n - 1] = g[n - 1] => f[n] = g[n]
      BY <1>1, <1>2, <1>3 DEF UnpackLoop
    <2> HIDE DEF m
    <2> QED
      BY <1>1, <2>1, <2>2, StepByStep
  <1>5. g[m + 1] = UnpackByte(g[m], b)
    <2>1. m + 1 \in 1..Len(longer) /\ (m + 1) - 1 = m
      BY <1>1
    <2> QED
      BY <1>1, <1>3, <2>1 DEF UnpackLoop
  <1> QED
    BY <1>2, <1>3, <1>4, <1>5 DEF longer

LEMMA UnpackedNothing == H!Unpacked(<< >>) = [chars |-> << >>, carry |-> H!None]
  <1> DEFINE none == << >>
  <1>1. none \in Seq(0..255) /\ Len(none) = 0
    OBVIOUS
  <1> HIDE DEF none
  <1>2. PICK g : UnpackLoop(none, g) /\ H!Unpacked(none) = g[Len(none)]
    BY <1>1, UnpackedIs
  <1> QED
    BY <1>1, <1>2 DEF UnpackLoop, none

\* After the characters q the reader is between two characters.
After(q) == [chars |-> q, carry |-> H!None]

\* The halves of a character, one or two, are read as that character.
LEMMA ReadsOne ==
  ASSUME NEW q, NEW c \in 0..60
  PROVE  /\ H!Index(c) < 13 => H!Half(After(q), H!Index(c)) = After(Append(q, c))
         /\ ~(H!Index(c) < 13) =>
              H!Half(H!Half(After(q), H!Index(c) \div 16), H!Index(c) % 16) = After(Append(q, c))
  <1>1. After(q).carry = H!None /\ After(q).chars = q
    BY DEF After
  <1>2. ASSUME H!Index(c) < 13
        PROVE  H!Half(After(q), H!Index(c)) = After(Append(q, c))
    <2>1. H!Half(After(q), H!Index(c)) = [chars |-> Append(q, H!Index(c)), carry |-> H!None]
      BY <1>1, <1>2 DEF H!Half
    <2>2. H!Index(c) = c
      BY <1>2, IndexOf
    <2> QED
      BY <2>1, <2>2 DEF After
  <1>3. ASSUME ~(H!Index(c) < 13)
        PROVE  H!Half(H!Half(After(q), H!Index(c) \div 16), H!Index(c) % 16) = After(Append(q, c))
    <2> DEFINE u == H!Index(c) \div 16
               l == H!Index(c) % 16
               half == [chars |-> q, carry |-> u]
    <2>1. u \in 13..15 /\ l \in 0..15 /\ c = u * 16 + l - 195
      BY <1>3, IndexOf
    <2> HIDE DEF u, l
    <2>2. ~(u < 13) /\ u # H!None
      BY <2>1 DEF H!None
    <2>3. H!Half(After(q), u) = half
      BY <1>1, <2>2 DEF H!Half
    <2>4. half.carry = u /\ half.chars = q
      OBVIOUS
    <2> HIDE DEF half
    <2>5. H!Half(half, l) = [chars |-> Append(q, u * 16 + l - 195), carry |-> H!None]
      BY <2>2, <2>4 DEF H!Half
    <2> QED
      BY <2>1, <2>3, <2>5 DEF After, u, l
  <1> QED
    BY <1>2, <1>3

\* What has been packed, with the half carried over, reads as the characters q.
Reads(s, q) ==
  /\ s.carry = H!None => H!Unpacked(s.bytes) = After(q)
  /\ s.carry # H!None => H!Half(H!Unpacked(s.bytes), s.carry) = After(q)

\* It still does with one more character.
LEMMA ReadsMore ==
  ASSUME NEW s \in PackState, NEW q, NEW c \in 0..60, Reads(s, q)
  PROVE  Reads(H!Packed(s, c), Append(q, c))
  <1> DEFINE i == H!Index(c)
  <1>1. s.bytes \in Seq(0..255) /\ s.carry \in -1..15
    BY DEF PackState
  <1>2. /\ i \in 0..255 /\ i # H!None
        /\ i < 13 => i = c
        /\ ~(i < 13) => i \div 16 \in 13..15 /\ i % 16 \in 0..15
    <2>1. H!None = -1 /\ i \in 0..255
      BY IndexOf
    <2> QED
      BY <2>1, IndexOf
  <1>3. /\ i < 13 => H!Half(After(q), i) = After(Append(q, c))
        /\ ~(i < 13) => H!Half(H!Half(After(q), i \div 16), i % 16) = After(Append(q, c))
    BY ReadsOne
  <1>4. s.carry # H!None => s.carry \in 0..15
    BY <1>1, HalfCarried
  <1>5. CASE s.carry = H!None /\ i < 13
    <2>1. H!Packed(s, c) = [bytes |-> s.bytes, carry |-> i]
      BY <1>5 DEF H!Packed
    <2> HIDE DEF i
    <2>2. H!Packed(s, c).bytes = s.bytes /\ H!Packed(s, c).carry = i
      BY <2>1
    <2>3. H!Half(H!Unpacked(s.bytes), i) = After(Append(q, c))
      BY <1>3, <1>5 DEF Reads
    <2> QED
      BY <1>2, <2>2, <2>3 DEF Reads
  <1>6. CASE s.carry = H!None /\ ~(i < 13)
    <2>1. H!Packed(s, c) = [bytes |-> Append(s.bytes, i), carry |-> H!None]
      BY <1>6 DEF H!Packed
    <2> HIDE DEF i
    <2>2. H!Packed(s, c).bytes = Append(s.bytes, i) /\ H!Packed(s, c).carry = H!None
      BY <2>1
    <2>3. H!Unpacked(Append(s.bytes, i)) = UnpackByte(H!Unpacked(s.bytes), i)
      BY <1>1, <1>2, UnpackedMore
    <2>4. UnpackByte(H!Unpacked(s.bytes), i) = After(Append(q, c))
      BY <1>3, <1>6 DEF Reads, UnpackByte
    <2> QED
      BY <2>2, <2>3, <2>4 DEF Reads
  <1>7. CASE s.carry # H!None /\ i < 13
    <2> DEFINE h == s.carry
               b == h * 16 + i
    <2>1. H!Packed(s, c) = [bytes |-> Append(s.bytes, b), carry |-> H!None]
      BY <1>7 DEF H!Packed
    <2>2. h \in 0..15 /\ i \in 0..15
      BY <1>2, <1>4, <1>7
    <2>3. H!Half(H!Unpacked(s.bytes), h) = After(q)
      BY <1>7 DEF Reads
    <2> HIDE DEF i, h
    <2>4. b \in 0..255 /\ b \div 16 = h /\ b % 16 = i
      BY <2>2, HalvesOf
    <2> HIDE DEF b
    <2>5. H!Packed(s, c).bytes = Append(s.bytes, b) /\ H!Packed(s, c).carry = H!None
      BY <2>1
    <2>6. H!Unpacked(Append(s.bytes, b)) = UnpackByte(H!Unpacked(s.bytes), b)
      BY <1>1, <2>4, UnpackedMore
    <2>7. UnpackByte(H!Unpacked(s.bytes), b) = After(Append(q, c))
      BY <1>3, <1>7, <2>3, <2>4 DEF UnpackByte
    <2> QED
      BY <2>5, <2>6, <2>7 DEF Reads
  <1>8. CASE s.carry # H!None /\ ~(i < 13)
    <2> DEFINE h == s.carry
               u == i \div 16
               l == i % 16
               b == h * 16 + u
    <2>1. H!Packed(s, c) = [bytes |-> Append(s.bytes, b), carry |-> l]
      BY <1>8 DEF H!Packed
    <2>2. h \in 0..15 /\ u \in 13..15 /\ l \in 0..15
      BY <1>2, <1>4, <1>8
    <2>3. H!Half(H!Unpacked(s.bytes), h) = After(q)
      BY <1>8 DEF Reads
    <2>4. H!Half(H!Half(After(q), u), l) = After(Append(q, c))
      BY <1>3, <1>8
    <2> HIDE DEF i, h, u, l
    <2>5. b \in 0..255 /\ b \div 16 = h /\ b % 16 = u
      <3>1. u \in 0..15
        BY <2>2
      <3> QED
        BY <2>2, <3>1, HalvesOf
    <2>6. l # H!None
      BY <2>2 DEF H!None
    <2> HIDE DEF b
    <2>7. H!Packed(s, c).bytes = Append(s.bytes, b) /\ H!Packed(s, c).carry = l
      BY <2>1
    <2>8. H!Unpacked(Append(s.bytes, b)) = UnpackByte(H!Unpacked(s.bytes), b)
      BY <1>1, <2>5, UnpackedMore
    <2>9. UnpackByte(H!Unpacked(s.bytes), b) = H!Half(After(q), u)
      BY <2>3, <2>5 DEF UnpackByte
    <2> QED
      BY <2>4, <2>6, <2>7, <2>8, <2>9 DEF Reads
  <1> QED
    BY <1>5, <1>6, <1>7, <1>8

\* A half left over is sent with an empty one, which reads as a blank.
LEMMA LastHalf ==
  ASSUME NEW s \in PackState, NEW q, Reads(s, q)
  PROVE  /\ H!AllHalves(s) \in Seq(0..255)
         /\ \/ H!Unpacked(H!AllHalves(s)).chars = q
            \/ H!Unpacked(H!AllHalves(s)).chars = Append(q, 0)
  <1>1. s.bytes \in Seq(0..255) /\ s.carry \in -1..15
    BY DEF PackState
  <1>2. CASE s.carry = H!None
    BY <1>1, <1>2 DEF H!AllHalves, Reads, After
  <1>3. CASE s.carry # H!None
    <2> DEFINE h == s.carry
               b == h * 16
    <2>1. H!AllHalves(s) = Append(s.bytes, b)
      BY <1>3 DEF H!AllHalves
    <2>2. h \in 0..15
      BY <1>1, <1>3, HalfCarried
    <2>3. H!Half(H!Unpacked(s.bytes), h) = After(q)
      BY <1>3 DEF Reads
    <2> HIDE DEF h
    <2>4. b \in 0..255 /\ b \div 16 = h /\ b % 16 = 0
      <3>1. 0 \in 0..15 /\ h * 16 + 0 = h * 16
        BY <2>2
      <3> QED
        BY <2>2, <3>1, HalvesOf
    <2> HIDE DEF b
    <2>5. Append(s.bytes, b) \in Seq(0..255)
      BY <1>1, <2>4
    <2>6. H!Unpacked(Append(s.bytes, b)) = H!Half(After(q), 0)
      BY <1>1, <2>3, <2>4, UnpackedMore DEF UnpackByte
    <2>7. H!Half(After(q), 0) = [chars |-> Append(q, 0), carry |-> H!None]
      BY DEF H!Half, After
    <2>8. H!Unpacked(Append(s.bytes, b)).chars = Append(q, 0)
      BY <2>6, <2>7
    <2> QED
      BY <2>1, <2>5, <2>8
  <1> QED
    BY <1>2, <1>3

\* A message that is packed and unpacked reads as it was written, or with a
\* blank after it.
LEMMA UnpackOfPack ==
  ASSUME NEW text \in Seq(0..60)
  PROVE  /\ H!Pack(text) \in Seq(0..255)
         /\ H!Unpack(H!Pack(text)) \in
              {H!SentenceCase(text), Append(H!SentenceCase(text), H!Blank)}
  <1> DEFINE m == Len(text)
  <1>1. PICK g : /\ PackLoop(text, g) /\ \A n \in 0..m : g[n] \in PackState
                 /\ H!Pack(text) = H!AllHalves(g[m])
    BY PackIs
  <1>2. m \in Nat /\ \A n \in 1..m : text[n] \in 0..60
    BY EntryType
  <1> DEFINE S == {k \in Nat : k <= m => Reads(g[k], SubSeq(text, 1, k))}
  <1>3. 0 \in S
    <2>1. SubSeq(text, 1, 0) = << >>
      OBVIOUS
    <2>2. g[0] = [bytes |-> << >>, carry |-> H!None]
      BY <1>1 DEF PackLoop
    <2>3. g[0].bytes = << >> /\ g[0].carry = H!None
      BY <2>2
    <2>4. Reads(g[0], << >>)
      BY <2>3, UnpackedNothing DEF Reads, After
    <2> QED
      BY <2>1, <2>4
  <1>4. ASSUME NEW k \in Nat, k \in S
        PROVE  k + 1 \in S
    <2> SUFFICES ASSUME k + 1 <= m PROVE Reads(g[k + 1], SubSeq(text, 1, k + 1))
      OBVIOUS
    <2> DEFINE q == SubSeq(text, 1, k)
    <2>1. k + 1 \in 1..m /\ (k + 1) - 1 = k /\ k \in 0..m
      BY <1>2
    <2>2. Reads(g[k], q)
      BY <1>2, <1>4
    <2>3. g[k + 1] = H!Packed(g[k], text[k + 1])
      BY <1>1, <2>1 DEF PackLoop
    <2>4. SubSeq(text, 1, k + 1) = Append(q, text[k + 1])
      BY <2>1
    <2>5. text[k + 1] \in 0..60 /\ g[k] \in PackState
      BY <1>1, <1>2, <2>1
    <2> HIDE DEF q
    <2>6. Reads(H!Packed(g[k], text[k + 1]), Append(q, text[k + 1]))
      BY <2>2, <2>5, ReadsMore
    <2> QED
      BY <2>3, <2>4, <2>6
  <1>5. Nat \subseteq S
    <2> HIDE DEF S
    <2> QED
      BY <1>3, <1>4, AllNumbers
  <1>6. Reads(g[m], text)
    <2>1. Reads(g[m], SubSeq(text, 1, m))
      BY <1>2, <1>5
    <2>2. SubSeq(text, 1, m) = text
      OBVIOUS
    <2> QED
      BY <2>1, <2>2
  <1>7. g[m] \in PackState
    BY <1>1, <1>2
  <1>8. /\ H!Pack(text) \in Seq(0..255)
        /\ \/ H!Unpacked(H!Pack(text)).chars = text
           \/ H!Unpacked(H!Pack(text)).chars = Append(text, 0)
    BY <1>1, <1>6, <1>7, LastHalf
  <1> QED
    BY <1>8, BlankAtTheEnd DEF H!Unpack

\* Where the j-th newest of the numbers remembered is.
Newest(j) ==
    IF privateMessageCount - j >= 0 THEN privateMessageCount - j
    ELSE privateMessageCount - j + Remembered

\* What the server has of a message reads as its writer saw it; and the numbers
\* remembered are those of the last messages shown.
SentInv ==
    \A k \in DOMAIN chatSent :
        H!Unpack(chatSent[k]) \in {chatWritten[k], Append(chatWritten[k], H!Blank)}

RememberedInv ==
    \A j \in 1..Remembered : j <= Len(chatShown) =>
        messageIds[Newest(j)] = chatShown[Len(chatShown) - j + 1].id

ChatInv == H!TypeOK /\ SentInv /\ RememberedInv /\ H!ReadsAsWritten

LEMMA ChatInit == H!Init => ChatInv
  <1> SUFFICES ASSUME H!Init PROVE ChatInv
    OBVIOUS
  <1>1. Remembered \in Nat \ {0} /\ MaxMessages \in Nat
    BY ChatAssumption DEF H!ChatAssumption
  <1>2. H!TypeOK
    BY <1>1 DEF H!Init, H!TypeOK
  <1>3. SentInv /\ RememberedInv /\ H!ReadsAsWritten
    BY <1>1 DEF H!Init, SentInv, RememberedInv, H!ReadsAsWritten
  <1> QED
    BY <1>2, <1>3 DEF ChatInv

LEMMA WiderSeq ==
  ASSUME NEW S, NEW S2, S \subseteq S2, NEW q \in Seq(S)
  PROVE  q \in Seq(S2)
  <1>1. \A k \in 1..Len(q) : q[k] \in S2
    BY EntryType
  <1> QED
    BY <1>1

LEMMA WriteKeepsChat ==
  ASSUME ChatInv, NEW t \in Texts, H!Write(t)
  PROVE  ChatInv'
  <1>1. /\ H!TypeOK /\ SentInv /\ RememberedInv /\ H!ReadsAsWritten
        /\ MaxMessages \in Nat /\ Remembered \in Nat \ {0}
    BY ChatAssumption DEF ChatInv, H!ChatAssumption
  <1>2. t \in Seq(0..60)
    <2>1. t \in Seq(Chars) /\ Chars \subseteq 0..60
      BY ChatAssumption DEF H!ChatAssumption
    <2> QED
      BY <2>1, WiderSeq
  <1> DEFINE T == Seq((0..60) \X BOOLEAN)
             p == H!Pack(t)
             w == H!SentenceCase(t)
  <1>3. p \in Seq(0..255) /\ w \in T /\ H!Unpack(p) \in {w, Append(w, H!Blank)}
    <2>1. H!SentenceCase(t) \in Seq(ShownChar)
      BY <1>2, SentenceCaseType
    <2>2. ShownChar = (0..60) \X BOOLEAN
      BY DEF ShownChar
    <2>3. /\ H!Pack(t) \in Seq(0..255)
          /\ H!Unpack(H!Pack(t)) \in
               {H!SentenceCase(t), Append(H!SentenceCase(t), H!Blank)}
      BY <1>2, UnpackOfPack
    <2> QED
      BY <2>1, <2>2, <2>3
  <1>4. /\ chatSent' = Append(chatSent, p) /\ chatWritten' = Append(chatWritten, w)
        /\ Len(chatSent) < MaxMessages
        /\ UNCHANGED <<messageIds, privateMessageCount, chatShown>>
    BY DEF H!Write
  <1> HIDE DEF p, w
  <1>5. /\ chatSent \in Seq(Seq(0..255)) /\ chatWritten \in Seq(T)
        /\ Len(chatWritten) = Len(chatSent)
        /\ chatShown \in Seq([id : DOMAIN chatSent, text : T])
    BY <1>1 DEF H!TypeOK
  <1> DEFINE n == Len(chatSent)
  <1>6. /\ chatSent' \in Seq(Seq(0..255)) /\ n \in Nat /\ Len(chatSent') = n + 1
        /\ DOMAIN chatSent = 1..n /\ DOMAIN chatSent' = 1..(n + 1)
        /\ chatSent'[n + 1] = p /\ \A k \in 1..n : chatSent'[k] = chatSent[k]
    <2> HIDE DEF T
    <2> QED
      BY <1>3, <1>4, <1>5, AppendedEntries
  <1>7. /\ chatWritten' \in Seq(T) /\ Len(chatWritten') = n + 1
        /\ chatWritten'[n + 1] = w /\ \A k \in 1..n : chatWritten'[k] = chatWritten[k]
    <2> HIDE DEF T
    <2> QED
      BY <1>3, <1>4, <1>5, AppendedEntries
  <1>8. chatShown \in Seq([id : DOMAIN chatSent', text : T])
    <2>1. DOMAIN chatSent \subseteq DOMAIN chatSent'
      BY <1>6
    <2> HIDE DEF T
    <2>2. [id : DOMAIN chatSent, text : T] \subseteq [id : DOMAIN chatSent', text : T]
      BY <2>1
    <2> QED
      BY <1>5, <2>2, WiderSeq
  <1>9. H!TypeOK'
    <2>1. n + 1 <= MaxMessages
      BY <1>1, <1>4, <1>6
    <2>2. /\ messageIds \in [0..(Remembered - 1) -> Nat]
          /\ privateMessageCount \in 0..(Remembered - 1)
      BY <1>1 DEF H!TypeOK
    <2> QED
      BY <1>4, <1>6, <1>7, <1>8, <2>1, <2>2 DEF H!TypeOK
  <1>10. SentInv'
    <2> SUFFICES ASSUME NEW k \in 1..(n + 1)
                 PROVE  H!Unpack(chatSent'[k]) \in
                          {chatWritten'[k], Append(chatWritten'[k], H!Blank)}
      BY <1>6 DEF SentInv
    <2>1. CASE k = n + 1
      BY <1>3, <1>6, <1>7, <2>1
    <2>2. CASE k # n + 1
      <3>1. k \in 1..n
        BY <1>6, <2>2
      <3>2. H!Unpack(chatSent[k]) \in {chatWritten[k], Append(chatWritten[k], H!Blank)}
        BY <1>1, <1>6, <3>1 DEF SentInv
      <3> QED
        BY <1>6, <1>7, <3>1, <3>2
    <2> QED
      BY <2>1, <2>2
  <1>11. RememberedInv'
    BY <1>1, <1>4 DEF RememberedInv, Newest
  <1>12. H!ReadsAsWritten'
    <2>1. \A i \in DOMAIN chatShown : chatWritten'[chatShown[i].id] = chatWritten[chatShown[i].id]
      <3> SUFFICES ASSUME NEW i \in DOMAIN chatShown
                   PROVE  chatShown[i].id \in 1..n
        BY <1>7
      <3> HIDE DEF T
      <3>1. chatShown[i] \in [id : DOMAIN chatSent, text : T]
        <4> DEFINE S == [id : DOMAIN chatSent, text : T]
        <4>1. chatShown \in Seq(S) /\ DOMAIN chatShown = 1..Len(chatShown)
          BY <1>5
        <4> HIDE DEF S
        <4>2. chatShown[i] \in S
          BY <4>1, EntryType
        <4> QED
          BY <4>2 DEF S
      <3> QED
        BY <1>6, <3>1
    <2> QED
      BY <1>1, <1>4, <2>1 DEF H!ReadsAsWritten
  <1> QED
    BY <1>9, <1>10, <1>11, <1>12 DEF ChatInv

\* Where the newest is once another was read: a place further each.
LEMMA NewestMoves ==
  ASSUME Remembered \in Nat \ {0}, privateMessageCount \in 0..(Remembered - 1),
         privateMessageCount' = (privateMessageCount + 1) % Remembered,
         NEW j \in 1..Remembered
  PROVE  /\ Newest(j) \in 0..(Remembered - 1)
         /\ Newest(1)' = privateMessageCount
         /\ j # 1 => /\ Newest(j)' = Newest(j - 1)
                     /\ Newest(j - 1) # privateMessageCount
  <1>1. \/ privateMessageCount + 1 < Remembered /\ privateMessageCount' = privateMessageCount + 1
        \/ privateMessageCount + 1 = Remembered /\ privateMessageCount' = 0
    <2>1. CASE privateMessageCount + 1 = Remembered
      BY <2>1
    <2>2. CASE privateMessageCount + 1 # Remembered
      <3>1. privateMessageCount + 1 \in 0..(Remembered - 1)
        BY <2>2
      <3> QED
        BY <3>1
    <2> QED
      BY <2>1, <2>2
  <1> QED
    BY <1>1 DEF Newest

LEMMA ReadKeepsChat ==
  ASSUME ChatInv, NEW id \in 1..MaxMessages, H!Read(id)
  PROVE  ChatInv'
  <1>1. /\ H!TypeOK /\ SentInv /\ RememberedInv /\ H!ReadsAsWritten
        /\ Remembered \in Nat \ {0}
    BY ChatAssumption DEF ChatInv, H!ChatAssumption
  <1>2. CASE UNCHANGED <<messageIds, privateMessageCount, chatShown>>
    <2>1. UNCHANGED <<chatWritten, chatSent>>
      BY DEF H!Read
    <2> QED
      BY <1>1, <1>2, <2>1 DEF ChatInv, H!TypeOK, SentInv, RememberedInv, Newest,
         H!ReadsAsWritten
  <1>3. CASE ~UNCHANGED <<messageIds, privateMessageCount, chatShown>>
    <2> DEFINE T == Seq((0..60) \X BOOLEAN)
               text == H!Unpack(chatSent[id])
               x == [id |-> id, text |-> text]
               n == Len(chatShown)
    <2>1. /\ id \in DOMAIN chatSent
          /\ \A i \in DOMAIN messageIds : messageIds[i] # id
          /\ messageIds' = [messageIds EXCEPT ![privateMessageCount] = id]
          /\ privateMessageCount' = (privateMessageCount + 1) % Remembered
          /\ chatShown' = Append(chatShown, x)
          /\ UNCHANGED <<chatWritten, chatSent>>
      BY <1>3 DEF H!Read
    <2>2. /\ chatSent \in Seq(Seq(0..255)) /\ chatWritten \in Seq(T)
          /\ Len(chatWritten) = Len(chatSent)
          /\ messageIds \in [0..(Remembered - 1) -> Nat]
          /\ privateMessageCount \in 0..(Remembered - 1)
          /\ chatShown \in Seq([id : DOMAIN chatSent, text : T])
      BY <1>1 DEF H!TypeOK
    <2>3. text \in {chatWritten[id], Append(chatWritten[id], H!Blank)}
      BY <1>1, <2>1 DEF SentInv
    <2> HIDE DEF text
    <2>4. text \in T
      <3>1. chatWritten[id] \in T
        BY <2>1, <2>2
      <3>2. H!Blank \in (0..60) \X BOOLEAN
        <4>1. 0 \in 0..60 /\ FALSE \in BOOLEAN
          OBVIOUS
        <4> QED
          BY <4>1, Zenon DEF H!Blank
      <3>3. Append(chatWritten[id], H!Blank) \in T
        <4> HIDE DEF T
        <4> QED
          BY <3>1, <3>2, AppendedEntries DEF T
      <3> QED
        BY <2>3, <3>1, <3>3
    <2> HIDE DEF T
    <2>5. x \in [id : DOMAIN chatSent, text : T]
      BY <2>1, <2>4
    <2>6. x.id = id /\ x.text = text
      OBVIOUS
    <2> HIDE DEF x
    <2>7. /\ chatShown' \in Seq([id : DOMAIN chatSent, text : T])
          /\ n \in Nat /\ Len(chatShown') = n + 1
          /\ DOMAIN chatShown = 1..n /\ DOMAIN chatShown' = 1..(n + 1)
          /\ chatShown'[n + 1] = x /\ \A k \in 1..n : chatShown'[k] = chatShown[k]
      BY <2>1, <2>2, <2>5, AppendedEntries
    <2>8. H!TypeOK'
      <3>1. privateMessageCount' \in 0..(Remembered - 1)
        BY <1>1, <2>1, <2>2
      <3>2. messageIds' \in [0..(Remembered - 1) -> Nat]
        <4>1. id \in Nat
          OBVIOUS
        <4> QED
          BY <2>1, <2>2, <4>1
      <3> QED
        BY <1>1, <2>1, <2>7, <3>1, <3>2 DEF H!TypeOK, T
    <2>9. SentInv'
      BY <1>1, <2>1 DEF SentInv
    <2>10. RememberedInv'
      <3> SUFFICES ASSUME NEW j \in 1..Remembered, j <= n + 1
                   PROVE  messageIds'[Newest(j)'] = chatShown'[n + 1 - j + 1].id
        BY <2>7 DEF RememberedInv, Newest
      <3>1. CASE j = 1
        <4>1. Newest(j)' = privateMessageCount
          BY <1>1, <2>1, <2>2, <3>1, NewestMoves
        <4>2. messageIds'[privateMessageCount] = id
          BY <2>1, <2>2
        <4>3. n + 1 - j + 1 = n + 1
          BY <2>7, <3>1
        <4> QED
          BY <2>6, <2>7, <4>1, <4>2, <4>3
      <3>2. CASE j # 1
        <4>1. j - 1 \in 1..Remembered /\ j - 1 <= n
          BY <1>1, <2>7, <3>2
        <4>2. Newest(j)' = Newest(j - 1) /\ Newest(j - 1) # privateMessageCount
          BY <1>1, <2>1, <2>2, <3>2, NewestMoves
        <4>3. Newest(j - 1) \in 0..(Remembered - 1)
          BY <1>1, <2>1, <2>2, <4>1, NewestMoves
        <4>4. messageIds'[Newest(j - 1)] = messageIds[Newest(j - 1)]
          BY <2>1, <2>2, <4>2, <4>3
        <4>5. messageIds[Newest(j - 1)] = chatShown[n - (j - 1) + 1].id
          BY <1>1, <4>1 DEF RememberedInv
        <4>6. n + 1 - j + 1 = n - (j - 1) + 1 /\ n - (j - 1) + 1 \in 1..n
          BY <2>7, <4>1
        <4> QED
          BY <2>7, <4>2, <4>4, <4>5, <4>6
      <3> QED
        BY <3>1, <3>2
    <2>11. H!ReadsAsWritten'
      <3> SUFFICES ASSUME NEW i \in 1..(n + 1)
                   PROVE  /\ chatShown'[i].text \in
                               {chatWritten[chatShown'[i].id],
                                Append(chatWritten[chatShown'[i].id], H!Blank)}
                          /\ \A j \in 1..(i - 1) : i - j <= Remembered =>
                                chatShown'[i].id # chatShown'[j].id
        BY <2>1, <2>7 DEF H!ReadsAsWritten
      <3>1. CASE i = n + 1
        <4>1. chatShown'[i].text = text /\ chatShown'[i].id = id
          BY <2>6, <2>7, <3>1
        <4>2. ASSUME NEW j \in 1..(i - 1), i - j <= Remembered
              PROVE  id # chatShown'[j].id
          <5> DEFINE d == i - j
          <5>1. j \in 1..n /\ d \in 1..Remembered /\ d <= n /\ n - d + 1 = j
            BY <1>1, <2>7, <3>1, <4>2
          <5>2. messageIds[Newest(d)] = chatShown[j].id
            BY <1>1, <5>1 DEF RememberedInv
          <5>3. Newest(d) \in 0..(Remembered - 1)
            BY <1>1, <2>1, <2>2, <5>1, NewestMoves
          <5> QED
            BY <2>1, <2>2, <2>7, <5>1, <5>2, <5>3
        <4> QED
          BY <2>3, <4>1, <4>2
      <3>2. CASE i # n + 1
        <4>1. i \in 1..n /\ \A j \in 1..(i - 1) : j \in 1..n
          BY <2>7, <3>2
        <4> QED
          BY <1>1, <2>7, <4>1 DEF H!ReadsAsWritten
      <3> QED
        BY <3>1, <3>2
    <2> QED
      BY <2>8, <2>9, <2>10, <2>11 DEF ChatInv
  <1> QED
    BY <1>2, <1>3

LEMMA ChatNext == ChatInv /\ [H!Next]_(H!vars) => ChatInv'
  <1> SUFFICES ASSUME ChatInv, [H!Next]_(H!vars) PROVE ChatInv'
    OBVIOUS
  <1>1. ASSUME NEW t \in Texts, H!Write(t)
        PROVE  ChatInv'
    BY <1>1, WriteKeepsChat
  <1>2. ASSUME NEW id \in 1..MaxMessages, H!Read(id)
        PROVE  ChatInv'
    BY <1>2, ReadKeepsChat
  <1>3. CASE UNCHANGED H!vars
    BY <1>3 DEF H!vars, ChatInv, H!TypeOK, SentInv, RememberedInv, Newest,
       H!ReadsAsWritten
  <1> QED
    BY <1>1, <1>2, <1>3 DEF H!Next

\* A private message reads as its writer saw it, packed into half bytes and
\* unpacked again, but for the blank a half byte left over may add; and one of
\* the last Remembered shown is not shown again (wordpack.c, and the handling
\* of MESSAGE_PRIVATE in client.c).
THEOREM MessagesReadAsWritten == H!Spec => []ReadsAsWritten
  <1>1. ChatInv /\ [H!Next]_(H!vars) => ChatInv'
    BY ChatNext
  <1>2. ChatInv => ReadsAsWritten
    BY DEF ChatInv, ReadsAsWritten
  <1> QED
    BY <1>1, <1>2, ChatInit, PTL DEF H!Spec

-------------------------------------------------------------------------------
(***************************************************************************)
(* The cache of icons.                                                     *)
(***************************************************************************)

\* The points of a ring: its head, its nodes in turn, and its head again.
Point(s, h, i) == IF i \in 1..Len(s[h]) THEN s[h][i] ELSE h

On(s, heads, n) == \E h \in heads : \E i \in 1..Len(s[h]) : s[h][i] = n

\* The rings of `heads` go through the nodes of the lists s, and back.
Forward(r, heads, s) ==
  \A h \in heads : \A i \in 0..Len(s[h]) : r.next[Point(s, h, i)] = Point(s, h, i + 1)
Back(r, heads, s) ==
  \A h \in heads : \A i \in 0..Len(s[h]) : r.prev[Point(s, h, i + 1)] = Point(s, h, i)

Lists(heads, s) ==
  /\ s \in [heads -> Seq(Nodes)]
  /\ \A h, g \in heads : \A i \in 1..Len(s[h]), j \in 1..Len(s[g]) :
        s[h][i] = s[g][j] => h = g /\ i = j

Apart(heads) == heads \cap Nodes = {} /\ Null \notin heads \cup Nodes

Rings(r, heads, s) ==
  /\ r \in K!Ring(heads \cup Nodes)
  /\ Lists(heads, s) /\ Forward(r, heads, s) /\ Back(r, heads, s)
  /\ \A n \in Nodes : On(s, heads, n) \/ r.prev[n] = Null

LEMMA Points ==
  ASSUME NEW heads, Apart(heads), NEW s, Lists(heads, s)
  PROVE  \A h \in heads :
            /\ Len(s[h]) \in Nat /\ s[h] \in Seq(Nodes)
            /\ Point(s, h, 0) = h /\ Point(s, h, Len(s[h]) + 1) = h
            /\ \A i \in 1..Len(s[h]) : Point(s, h, i) = s[h][i] /\ s[h][i] \in Nodes
            /\ \A i \in Nat : Point(s, h, i) \in heads \cup Nodes
            /\ \A g \in heads : \A i \in 0..Len(s[h]), j \in 0..Len(s[g]) :
                  Point(s, h, i) = Point(s, g, j) => h = g /\ i = j
  <1> SUFFICES ASSUME NEW h \in heads
               PROVE  /\ Len(s[h]) \in Nat /\ s[h] \in Seq(Nodes)
                      /\ Point(s, h, 0) = h /\ Point(s, h, Len(s[h]) + 1) = h
                      /\ \A i \in 1..Len(s[h]) : Point(s, h, i) = s[h][i] /\ s[h][i] \in Nodes
                      /\ \A i \in Nat : Point(s, h, i) \in heads \cup Nodes
                      /\ \A g \in heads : \A i \in 0..Len(s[h]), j \in 0..Len(s[g]) :
                            Point(s, h, i) = Point(s, g, j) => h = g /\ i = j
    OBVIOUS
  <1>1. \A g \in heads : s[g] \in Seq(Nodes) /\ Len(s[g]) \in Nat
    BY DEF Lists
  <1>2. \A g \in heads : \A i \in 1..Len(s[g]) : s[g][i] \in Nodes
    BY <1>1, EntryType
  <1>3. Point(s, h, 0) = h /\ Point(s, h, Len(s[h]) + 1) = h
    BY <1>1 DEF Point
  <1>4. \A i \in 1..Len(s[h]) : Point(s, h, i) = s[h][i] /\ s[h][i] \in Nodes
    BY <1>2 DEF Point
  <1>5. \A i \in Nat : Point(s, h, i) \in heads \cup Nodes
    BY <1>2 DEF Point
  <1>6. ASSUME NEW g \in heads, NEW i \in 0..Len(s[h]), NEW j \in 0..Len(s[g]),
               Point(s, h, i) = Point(s, g, j)
        PROVE  h = g /\ i = j
    <2>1. h \notin Nodes /\ g \notin Nodes
      BY DEF Apart
    <2>2. CASE i \in 1..Len(s[h]) /\ j \in 1..Len(s[g])
      BY <1>6, <2>2 DEF Point, Lists
    <2>3. CASE i \notin 1..Len(s[h]) /\ j \notin 1..Len(s[g])
      BY <1>1, <1>6, <2>3 DEF Point
    <2>4. CASE i \in 1..Len(s[h]) /\ j \notin 1..Len(s[g])
      BY <1>2, <1>6, <2>1, <2>4 DEF Point
    <2>5. CASE i \notin 1..Len(s[h]) /\ j \in 1..Len(s[g])
      BY <1>2, <1>6, <2>1, <2>5 DEF Point
    <2> QED
      BY <2>2, <2>3, <2>4, <2>5
  <1> QED
    BY <1>1, <1>3, <1>4, <1>5, <1>6

\* A node is on a ring just when it has a node before it.
LEMMA OnRing ==
  ASSUME NEW heads, Apart(heads), NEW r, NEW s, Rings(r, heads, s), NEW n \in Nodes
  PROVE  On(s, heads, n) <=> r.prev[n] # Null
  <1>1. ASSUME On(s, heads, n)
        PROVE  r.prev[n] # Null
    <2>1. PICK h \in heads : \E i \in 1..Len(s[h]) : s[h][i] = n
      BY <1>1 DEF On
    <2>7. PICK i \in 1..Len(s[h]) : s[h][i] = n
      BY <2>1
    <2>2. Lists(heads, s) /\ Back(r, heads, s)
      BY DEF Rings
    <2>3. Len(s[h]) \in Nat /\ Point(s, h, i) = n
      BY <2>2, <2>7, Points
    <2>4. i - 1 \in 0..Len(s[h]) /\ i - 1 \in Nat /\ (i - 1) + 1 = i
      BY <2>3
    <2>5. r.prev[n] = Point(s, h, i - 1)
      BY <2>2, <2>3, <2>4 DEF Back
    <2>6. Point(s, h, i - 1) \in heads \cup Nodes
      BY <2>2, <2>4, Points
    <2> QED
      BY <2>5, <2>6 DEF Apart
  <1> QED
    BY <1>1 DEF Rings

\* A list without its i-th entry.
LEMMA Without1 ==
  ASSUME NEW S, NEW q \in Seq(S), NEW i \in 1..Len(q)
  PROVE  /\ K!Icons!RemoveAt(q, i) \in Seq(S)
         /\ Len(q) \in Nat /\ Len(K!Icons!RemoveAt(q, i)) = Len(q) - 1
         /\ \A j \in 1..(Len(q) - 1) :
               K!Icons!RemoveAt(q, i)[j] = IF j < i THEN q[j] ELSE q[j + 1]
  <1>1. K!Icons!RemoveAt(q, i) = CutAt(q, i)
    BY DEF K!Icons!RemoveAt, CutAt
  <1> QED
    BY <1>1, CutOut

\* Taking one off.
Less(s, h, i) == [s EXCEPT ![h] = K!Icons!RemoveAt(@, i)]

\* Where the m-th of list e was before.
WasAt(h, i, e, m) == IF e = h /\ m >= i THEN m + 1 ELSE m

Shorter(heads, z, s, h, i) ==
  /\ Lists(heads, z)
  /\ \A g \in heads \ {h} : z[g] = s[g]
  /\ Len(s[h]) \in Nat /\ Len(z[h]) = Len(s[h]) - 1
  /\ \A j \in 1..(Len(s[h]) - 1) : z[h][j] = IF j < i THEN s[h][j] ELSE s[h][j + 1]
  /\ \A j \in 0..Len(s[h]) :
        Point(z, h, j) = IF j < i THEN Point(s, h, j) ELSE Point(s, h, j + 1)

LEMMA LessIs ==
  ASSUME NEW heads, Apart(heads), NEW s, Lists(heads, s), NEW h \in heads,
         NEW i \in 1..Len(s[h])
  PROVE  Shorter(heads, Less(s, h, i), s, h, i)
  <1> DEFINE z == Less(s, h, i)
             q == K!Icons!RemoveAt(s[h], i)
  <1>1. s \in [heads -> Seq(Nodes)] /\ s[h] \in Seq(Nodes)
    BY DEF Lists
  <1>2. /\ q \in Seq(Nodes) /\ Len(s[h]) \in Nat /\ Len(q) = Len(s[h]) - 1
        /\ \A j \in 1..(Len(s[h]) - 1) : q[j] = IF j < i THEN s[h][j] ELSE s[h][j + 1]
    BY <1>1, Without1
  <1>3. z = [s EXCEPT ![h] = q]
    BY DEF Less
  <1> HIDE DEF z, q
  <1>4. z \in [heads -> Seq(Nodes)] /\ z[h] = q /\ \A g \in heads \ {h} : z[g] = s[g]
    BY <1>1, <1>2, <1>3
  <1>5. ASSUME NEW f \in heads, NEW g \in heads, NEW j \in 1..Len(z[f]), NEW k \in 1..Len(z[g]),
               z[f][j] = z[g][k]
        PROVE  f = g /\ j = k
    <2>1. ASSUME NEW e \in heads, NEW m \in 1..Len(z[e])
          PROVE  WasAt(h, i, e, m) \in 1..Len(s[e]) /\ z[e][m] = s[e][WasAt(h, i, e, m)]
      <3>1. CASE e = h
        BY <1>2, <1>4, <3>1 DEF WasAt
      <3>2. CASE e # h
        BY <1>4, <3>2 DEF WasAt
      <3> QED
        BY <3>1, <3>2
    <2>2. s[f][WasAt(h, i, f, j)] = s[g][WasAt(h, i, g, k)]
      BY <1>5, <2>1
    <2>3. f = g /\ WasAt(h, i, f, j) = WasAt(h, i, g, k)
      BY <2>1, <2>2 DEF Lists
    <2>4. j \in Nat /\ k \in Nat
      OBVIOUS
    <2> QED
      BY <2>3, <2>4 DEF WasAt
  <1>6. Lists(heads, z)
    BY <1>4, <1>5 DEF Lists
  <1>7. ASSUME NEW j \in 0..Len(s[h])
        PROVE  Point(z, h, j) = IF j < i THEN Point(s, h, j) ELSE Point(s, h, j + 1)
    BY <1>2, <1>4 DEF Point
  <1> QED
    BY <1>2, <1>4, <1>6, <1>7 DEF z, Shorter

\* linkable_unlink takes a node off its ring, and leaves the other rings alone.
LEMMA UnlinkTakesOff ==
  ASSUME NEW heads, Apart(heads), NEW r, NEW s, Rings(r, heads, s),
         NEW h \in heads, NEW i \in 1..Len(s[h])
  PROVE  /\ Rings(K!Unlink(r, s[h][i]), heads, Less(s, h, i))
         /\ ~On(Less(s, h, i), heads, s[h][i])
         /\ \A m \in Nodes : m # s[h][i] =>
               (On(Less(s, h, i), heads, m) <=> On(s, heads, m))
  <1> DEFINE n == s[h][i]
             a == Point(s, h, i - 1)
             b == Point(s, h, i + 1)
             z == Less(s, h, i)
             u == K!Unlink(r, n)
             points == heads \cup Nodes
  <1>1. /\ r \in K!Ring(points) /\ Lists(heads, s) /\ Forward(r, heads, s) /\ Back(r, heads, s)
        /\ \A m \in Nodes : On(s, heads, m) \/ r.prev[m] = Null
    BY DEF Rings
  <1>2. /\ Lists(heads, z) /\ \A g \in heads \ {h} : z[g] = s[g]
        /\ Len(s[h]) \in Nat /\ Len(z[h]) = Len(s[h]) - 1
        /\ \A j \in 1..(Len(s[h]) - 1) : z[h][j] = IF j < i THEN s[h][j] ELSE s[h][j + 1]
        /\ \A j \in 0..Len(s[h]) :
              Point(z, h, j) = IF j < i THEN Point(s, h, j) ELSE Point(s, h, j + 1)
    <2>1. Shorter(heads, Less(s, h, i), s, h, i)
      BY <1>1, LessIs
    <2> QED
      BY <2>1 DEF Shorter
  <1>3. /\ n \in Nodes /\ Point(s, h, i) = n /\ a \in points /\ b \in points
        /\ i - 1 \in 0..Len(s[h]) /\ i \in 0..Len(s[h]) /\ (i - 1) + 1 = i
    <2>1. i \in Nat /\ i - 1 \in Nat /\ i + 1 \in Nat /\ i - 1 \in 0..Len(s[h])
      BY <1>2
    <2> QED
      BY <1>1, <2>1, Points
  <1>4. r.prev[n] = a /\ r.next[n] = b
    BY <1>1, <1>3 DEF Forward, Back
  <1>5. a # Null
    BY <1>3 DEF Apart
  <1>6. /\ r = [next |-> r.next, prev |-> r.prev]
        /\ r.next \in [points -> points \cup {Null}] /\ r.prev \in [points -> points \cup {Null}]
    BY <1>1 DEF K!Ring
  <1>7. u = [next |-> [r.next EXCEPT ![a] = b, ![n] = Null],
             prev |-> [r.prev EXCEPT ![b] = a, ![n] = Null]]
    BY <1>4, <1>5 DEF K!Unlink
  <1>8. u \in K!Ring(points)
    BY <1>3, <1>6, <1>7 DEF K!Ring
  <1> HIDE DEF n, a, b, z, u, points
  <1>9. /\ \A m \in points : u.next[m] = IF m = n THEN Null ELSE IF m = a THEN b ELSE r.next[m]
        /\ \A m \in points : u.prev[m] = IF m = n THEN Null ELSE IF m = b THEN a ELSE r.prev[m]
    BY <1>3, <1>6, <1>7
  <1>10. /\ \A g \in heads, j \in Nat : Point(s, g, j) \in points
         /\ \A g \in heads : Len(s[g]) \in Nat /\ Len(z[g]) \in Nat
         /\ \A f \in heads, g \in heads : \A j \in 0..Len(s[f]), k \in 0..Len(s[g]) :
               Point(s, f, j) = Point(s, g, k) => f = g /\ j = k
         /\ \A g \in heads : Point(s, g, 0) = g /\ Point(s, g, Len(s[g]) + 1) = g
    BY <1>1, <1>2, Points DEF points
  \* Of the other rings no point is n, or beside it.
  <1>11. ASSUME NEW g \in heads \ {h}, NEW j \in 0..(Len(s[g]) + 1)
         PROVE  Point(s, g, j) \notin {a, n, b} /\ Point(s, g, j) \in points
    <2>1. Point(s, g, j) \in points
      BY <1>10
    <2>2. PICK k \in 0..Len(s[g]) : Point(s, g, j) = Point(s, g, k)
      <3>1. CASE j = Len(s[g]) + 1
        BY <1>10, <3>1
      <3>2. CASE j # Len(s[g]) + 1
        <4>1. j \in 0..Len(s[g])
          BY <1>10, <3>2
        <4> QED
          BY <4>1
      <3> QED
        BY <3>1, <3>2
    <2>3. \A l \in 0..Len(s[h]) : Point(s, g, k) # Point(s, h, l)
      BY <1>10
    <2>4. b = Point(s, h, IF i = Len(s[h]) THEN 0 ELSE i + 1)
      BY <1>2, <1>10 DEF b
    <2>5. (IF i = Len(s[h]) THEN 0 ELSE i + 1) \in 0..Len(s[h])
      BY <1>2
    <2> QED
      BY <1>3, <2>1, <2>2, <2>3, <2>4, <2>5 DEF a
  <1>12. Forward(u, heads, z)
    <2> SUFFICES ASSUME NEW g \in heads, NEW j \in 0..Len(z[g])
                 PROVE  u.next[Point(z, g, j)] = Point(z, g, j + 1)
      BY DEF Forward
    <2>1. CASE g # h
      <3>1. z[g] = s[g] /\ Point(z, g, j) = Point(s, g, j) /\ Point(z, g, j + 1) = Point(s, g, j + 1)
        BY <1>2, <2>1 DEF Point
      <3>2. Point(s, g, j) \notin {a, n, b} /\ Point(s, g, j) \in points
        BY <1>10, <1>11, <2>1, <3>1
      <3>3. r.next[Point(s, g, j)] = Point(s, g, j + 1)
        BY <1>1, <3>1 DEF Forward
      <3> QED
        BY <1>9, <3>1, <3>2, <3>3
    <2>2. CASE g = h
      <3> DEFINE k == IF j < i THEN j ELSE j + 1
      <3>1. j \in 0..Len(s[h]) /\ j + 1 \in 0..Len(s[h]) /\ k \in 0..Len(s[h]) /\ k # i
        BY <1>2, <2>2
      <3>2. Point(z, h, j) = Point(s, h, k)
        BY <1>2, <3>1
      <3>3. Point(s, h, k) # n /\ Point(s, h, k) \in points
        BY <1>3, <1>10, <3>1
      <3>4. CASE k = i - 1
        <4>1. Point(z, h, j + 1) = b
          BY <1>2, <3>1, <3>4 DEF b
        <4> QED
          BY <1>9, <2>2, <3>2, <3>3, <3>4, <4>1 DEF a
      <3>5. CASE k # i - 1
        <4>1. Point(s, h, k) # a
          BY <1>3, <1>10, <3>1, <3>5 DEF a
        <4>2. r.next[Point(s, h, k)] = Point(s, h, k + 1)
          BY <1>1, <3>1 DEF Forward
        <4>3. Point(z, h, j + 1) = Point(s, h, k + 1)
          BY <1>2, <3>1, <3>5
        <4> QED
          BY <1>9, <2>2, <3>2, <3>3, <4>1, <4>2, <4>3
      <3> QED
        BY <3>4, <3>5
    <2> QED
      BY <2>1, <2>2
  <1>13. Back(u, heads, z)
    <2> SUFFICES ASSUME NEW g \in heads, NEW j \in 0..Len(z[g])
                 PROVE  u.prev[Point(z, g, j + 1)] = Point(z, g, j)
      BY DEF Back
    <2>1. CASE g # h
      <3>1. z[g] = s[g] /\ Point(z, g, j) = Point(s, g, j) /\ Point(z, g, j + 1) = Point(s, g, j + 1)
        BY <1>2, <2>1 DEF Point
      <3>2. j + 1 \in 0..(Len(s[g]) + 1)
        BY <1>10, <3>1
      <3>3. Point(s, g, j + 1) \notin {a, n, b} /\ Point(s, g, j + 1) \in points
        BY <1>11, <2>1, <3>2
      <3>4. r.prev[Point(s, g, j + 1)] = Point(s, g, j)
        BY <1>1, <3>1 DEF Back
      <3> QED
        BY <1>9, <3>1, <3>3, <3>4
    <2>2. CASE g = h
      <3> DEFINE k == IF j < i THEN j ELSE j + 1
                 l == IF j + 1 < i THEN j + 1 ELSE j + 2
      <3>1. /\ j \in 0..Len(s[h]) /\ j + 1 \in 0..Len(s[h]) /\ k \in 0..Len(s[h]) /\ k # i
            /\ l \in 1..(Len(s[h]) + 1) /\ l # i /\ (j + 1) + 1 = j + 2
        BY <1>2, <2>2
      <3>2. Point(z, h, j) = Point(s, h, k) /\ Point(z, h, j + 1) = Point(s, h, l)
        BY <1>2, <3>1
      <3> DEFINE e == IF l = Len(s[h]) + 1 THEN 0 ELSE l
      <3>3. e \in 0..Len(s[h]) /\ Point(s, h, l) = Point(s, h, e) /\ e # i
        <4> HIDE DEF l
        <4>1. CASE l = Len(s[h]) + 1
          <5>1. e = 0 /\ Point(s, h, l) = Point(s, h, 0)
            BY <1>10, <4>1
          <5> QED
            BY <1>2, <5>1
        <4>2. CASE l # Len(s[h]) + 1
          <5>1. e = l /\ l \in 0..Len(s[h])
            <6>1. e = l
              BY <4>2
            <6>2. l \in 1..(Len(s[h]) + 1) /\ Len(s[h]) \in Nat
              BY <1>2, <3>1
            <6> QED
              BY <4>2, <6>1, <6>2
          <5> HIDE DEF e
          <5> QED
            BY <3>1, <5>1
        <4> QED
          BY <4>1, <4>2
      <3>4. Point(s, h, l) # n /\ Point(s, h, l) \in points
        <4> HIDE DEF e
        <4> QED
          BY <1>3, <1>10, <3>3
      <3>5. CASE l = i + 1
        <4>1. k = i - 1
          BY <1>2, <3>1, <3>5
        <4> QED
          BY <1>9, <2>2, <3>2, <3>4, <3>5, <4>1 DEF a, b
      <3>6. CASE l # i + 1
        <4>1. Point(s, h, l) # b
          <5> DEFINE f == IF i + 1 = Len(s[h]) + 1 THEN 0 ELSE i + 1
          <5>1. f \in 0..Len(s[h]) /\ b = Point(s, h, f)
            BY <1>2, <1>10 DEF b
          <5>2. f # e
            BY <1>2, <3>1, <3>6
          <5> HIDE DEF e, f
          <5> QED
            BY <1>10, <3>3, <5>1, <5>2
        <4>2. l - 1 \in 0..Len(s[h]) /\ (l - 1) + 1 = l /\ l - 1 = k
          BY <1>2, <3>1, <3>6
        <4>3. r.prev[Point(s, h, l)] = Point(s, h, k)
          BY <1>1, <4>2 DEF Back
        <4> QED
          BY <1>9, <2>2, <3>2, <3>4, <4>1, <4>3
      <3> QED
        BY <3>5, <3>6
    <2> QED
      BY <2>1, <2>2
  <1>14. /\ ~On(z, heads, n)
         /\ \A m \in Nodes : m # n => (On(z, heads, m) <=> On(s, heads, m))
    <2>1. \A g \in heads \ {h} : \A j \in 1..Len(z[g]) : z[g][j] = s[g][j] /\ z[g] = s[g]
      BY <1>2
    <2>2. n = s[h][i]
      BY DEF n
    <2>3. ASSUME NEW g \in heads, NEW j \in 1..Len(z[g]), z[g][j] = n
          PROVE  FALSE
      <3>1. CASE g # h
        BY <1>1, <2>1, <2>2, <2>3, <3>1 DEF Lists
      <3>2. CASE g = h
        <4>1. j \in 1..(Len(s[h]) - 1)
          BY <1>2, <3>2
        <4>2. CASE j < i
          BY <1>1, <1>2, <2>2, <2>3, <3>2, <4>1, <4>2 DEF Lists
        <4>3. CASE ~(j < i)
          <5>1. j + 1 \in 1..Len(s[h]) /\ j + 1 # i /\ s[h][j + 1] = n
            BY <1>2, <2>3, <3>2, <4>1, <4>3
          <5> QED
            BY <1>1, <2>2, <5>1 DEF Lists
        <4> QED
          BY <4>2, <4>3
      <3> QED
        BY <3>1, <3>2
    <2>4. ASSUME NEW m \in Nodes, On(z, heads, m)
          PROVE  On(s, heads, m)
      <3>1. PICK g \in heads : \E j \in 1..Len(z[g]) : z[g][j] = m
        BY <2>4 DEF On
      <3>2. PICK j \in 1..Len(z[g]) : z[g][j] = m
        BY <3>1
      <3>3. CASE g # h
        BY <2>1, <3>2, <3>3 DEF On
      <3>4. CASE g = h
        <4>1. j \in 1..(Len(s[h]) - 1)
          BY <1>2, <3>4
        <4>2. j \in 1..Len(s[h]) /\ j + 1 \in 1..Len(s[h]) /\ m \in {s[h][j], s[h][j + 1]}
          <5>1. j \in 1..Len(s[h]) /\ j + 1 \in 1..Len(s[h])
            BY <1>2, <4>1
          <5>2. z[h][j] = m
            BY <3>2, <3>4
          <5> QED
            BY <1>2, <4>1, <5>1, <5>2
        <4> QED
          BY <4>2 DEF On
      <3> QED
        BY <3>3, <3>4
    <2>5. ASSUME NEW m \in Nodes, m # n, On(s, heads, m)
          PROVE  On(z, heads, m)
      <3>1. PICK g \in heads : \E j \in 1..Len(s[g]) : s[g][j] = m
        BY <2>5 DEF On
      <3>2. PICK j \in 1..Len(s[g]) : s[g][j] = m
        BY <3>1
      <3>3. CASE g # h
        BY <1>2, <3>2, <3>3 DEF On
      <3>4. CASE g = h
        <4>1. j # i
          BY <2>2, <2>5, <3>2, <3>4
        <4>2. CASE j < i
          <5>1. j \in 1..(Len(s[h]) - 1)
            BY <1>2, <3>4, <4>2
          <5>2. z[h][j] = m /\ j \in 1..Len(z[h])
            BY <1>2, <3>2, <3>4, <4>2, <5>1
          <5> QED
            BY <5>2 DEF On
        <4>3. CASE j > i
          <5>1. j - 1 \in 1..(Len(s[h]) - 1) /\ ~(j - 1 < i) /\ (j - 1) + 1 = j
            BY <1>2, <3>4, <4>3
          <5>2. z[h][j - 1] = m /\ j - 1 \in 1..Len(z[h])
            BY <1>2, <3>2, <3>4, <5>1
          <5> QED
            BY <5>2 DEF On
        <4> QED
          BY <4>1, <4>2, <4>3
      <3> QED
        BY <3>3, <3>4
    <2> QED
      BY <2>3, <2>4, <2>5 DEF On
  <1>15. ASSUME NEW m \in Nodes
         PROVE  On(z, heads, m) \/ u.prev[m] = Null
    <2>1. CASE m = n
      BY <1>9, <2>1 DEF points
    <2>2. CASE m # n /\ ~On(z, heads, m)
      <3>1. ~On(s, heads, m) /\ r.prev[m] = Null
        BY <1>1, <1>14, <2>2
      <3>2. m # b
        <4>1. b = h \/ (i + 1 \in 1..Len(s[h]) /\ b = s[h][i + 1])
          BY DEF b, Point
        <4>2. h \notin Nodes
          BY DEF Apart
        <4> QED
          BY <3>1, <4>1, <4>2 DEF On
      <3> QED
        BY <1>9, <2>2, <3>1, <3>2 DEF points
    <2> QED
      BY <2>1, <2>2
  <1>16. Rings(u, heads, z)
    BY <1>2, <1>8, <1>12, <1>13, <1>15 DEF Rings, points
  <1> QED
    BY <1>14, <1>16 DEF n, z, u

\* doublylinklist_push and hashtable_put: a node that is on no ring goes to the
\* end of one.
More(s, h, n) == [s EXCEPT ![h] = Append(@, n)]

LEMMA PushPutsAtEnd ==
  ASSUME NEW heads, Apart(heads), NEW r, NEW s, Rings(r, heads, s),
         NEW h \in heads, NEW n \in Nodes, ~On(s, heads, n)
  PROVE  /\ Rings(K!Push(r, h, n), heads, More(s, h, n))
         /\ \A m \in Nodes : On(More(s, h, n), heads, m) <=> m = n \/ On(s, heads, m)
  <1> DEFINE len == Len(s[h])
             last == Point(s, h, len)
             z == More(s, h, n)
             u == K!Push(r, h, n)
             points == heads \cup Nodes
  <1>1. /\ r \in K!Ring(points) /\ Lists(heads, s) /\ Forward(r, heads, s) /\ Back(r, heads, s)
        /\ \A m \in Nodes : On(s, heads, m) \/ r.prev[m] = Null
    BY DEF Rings
  <1>2. /\ \A g \in heads, j \in Nat : Point(s, g, j) \in points
        /\ \A g \in heads : Len(s[g]) \in Nat /\ s[g] \in Seq(Nodes)
        /\ \A f \in heads, g \in heads : \A j \in 0..Len(s[f]), k \in 0..Len(s[g]) :
              Point(s, f, j) = Point(s, g, k) => f = g /\ j = k
        /\ \A g \in heads : Point(s, g, 0) = g /\ Point(s, g, Len(s[g]) + 1) = g
    BY <1>1, Points
  <1>3. \A g \in heads, j \in Nat : Point(s, g, j) # n
    <2>1. n \notin heads
      BY DEF Apart
    <2> QED
      BY <2>1 DEF Point, On
  <1>4. /\ len \in Nat /\ len \in 0..len /\ last \in points /\ last # n /\ h \in points /\ n \in points
        /\ h # n
    <2>1. len \in Nat /\ len \in 0..len /\ h # n
      BY <1>2 DEF Apart
    <2> QED
      BY <1>2, <1>3, <2>1
  <1>5. r.prev[n] = Null /\ r.prev[h] = last
    <2>1. r.prev[Point(s, h, len + 1)] = Point(s, h, len)
      BY <1>1, <1>4 DEF Back
    <2> QED
      BY <1>1, <1>2, <2>1
  <1>6. /\ r = [next |-> r.next, prev |-> r.prev]
        /\ r.next \in [points -> points \cup {Null}] /\ r.prev \in [points -> points \cup {Null}]
    BY <1>1 DEF K!Ring
  <1>7. u = [next |-> [r.next EXCEPT ![last] = n, ![n] = h],
             prev |-> [r.prev EXCEPT ![n] = last, ![h] = n]]
    BY <1>5 DEF K!Push, K!Unlink
  <1>8. u \in K!Ring(points)
    BY <1>4, <1>6, <1>7 DEF K!Ring
  <1>9. /\ z \in [heads -> Seq(Nodes)] /\ \A g \in heads \ {h} : z[g] = s[g]
        /\ Len(z[h]) = len + 1 /\ z[h][len + 1] = n
        /\ \A j \in 1..len : z[h][j] = s[h][j]
    <2>1. s \in [heads -> Seq(Nodes)]
      BY <1>1 DEF Lists
    <2>2. z = [s EXCEPT ![h] = Append(s[h], n)]
      BY DEF More
    <2>3. /\ Append(s[h], n) \in Seq(Nodes) /\ Len(Append(s[h], n)) = len + 1
          /\ Append(s[h], n)[len + 1] = n /\ \A j \in 1..len : Append(s[h], n)[j] = s[h][j]
      BY <1>2, AppendedEntries
    <2> HIDE DEF z
    <2> QED
      BY <2>1, <2>2, <2>3
  <1> HIDE DEF len, last, z, u, points
  <1>10. /\ \A m \in points : u.next[m] = IF m = n THEN h ELSE IF m = last THEN n ELSE r.next[m]
         /\ \A m \in points : u.prev[m] = IF m = h THEN n ELSE IF m = n THEN last ELSE r.prev[m]
    BY <1>4, <1>6, <1>7
  <1>11. \A j \in 0..(len + 1) :
            /\ Point(z, h, j) = IF j = len + 1 THEN n ELSE Point(s, h, j)
            /\ Point(z, h, len + 2) = h
    BY <1>4, <1>9 DEF Point, len
  <1>12. Forward(u, heads, z)
    <2> SUFFICES ASSUME NEW g \in heads, NEW j \in 0..Len(z[g])
                 PROVE  u.next[Point(z, g, j)] = Point(z, g, j + 1)
      BY DEF Forward
    <2>1. CASE g # h
      <3>1. z[g] = s[g] /\ Point(z, g, j) = Point(s, g, j) /\ Point(z, g, j + 1) = Point(s, g, j + 1)
        BY <1>9, <2>1 DEF Point
      <3>2. Point(s, g, j) \notin {last, n} /\ Point(s, g, j) \in points
        BY <1>2, <1>3, <1>4, <2>1, <3>1 DEF last, len
      <3>3. r.next[Point(s, g, j)] = Point(s, g, j + 1)
        BY <1>1, <3>1 DEF Forward
      <3> QED
        BY <1>10, <3>1, <3>2, <3>3
    <2>2. CASE g = h /\ j = len + 1
      <3>1. Point(z, h, j) = n /\ Point(z, h, j + 1) = h
        BY <1>4, <1>11, <2>2
      <3> QED
        BY <1>4, <1>10, <2>2, <3>1
    <2>3. CASE g = h /\ j = len
      <3>1. Point(z, h, j) = last /\ Point(z, h, j + 1) = n
        BY <1>4, <1>11, <2>3 DEF last
      <3> QED
        BY <1>4, <1>10, <2>3, <3>1
    <2>4. CASE g = h /\ j \notin {len, len + 1}
      <3>1. j \in 0..len /\ j + 1 \in 0..len
        BY <1>4, <1>9, <2>4
      <3>2. Point(z, h, j) = Point(s, h, j) /\ Point(z, h, j + 1) = Point(s, h, j + 1)
        BY <1>4, <1>11, <3>1
      <3>3. Point(s, h, j) \notin {last, n} /\ Point(s, h, j) \in points
        BY <1>2, <1>3, <1>4, <2>4, <3>1 DEF last, len
      <3>4. r.next[Point(s, h, j)] = Point(s, h, j + 1)
        BY <1>1, <3>1 DEF Forward, len
      <3> QED
        BY <1>10, <2>4, <3>2, <3>3, <3>4
    <2> QED
      BY <2>1, <2>2, <2>3, <2>4
  <1>13. Back(u, heads, z)
    <2> SUFFICES ASSUME NEW g \in heads, NEW j \in 0..Len(z[g])
                 PROVE  u.prev[Point(z, g, j + 1)] = Point(z, g, j)
      BY DEF Back
    <2>1. CASE g # h
      <3>1. z[g] = s[g] /\ Point(z, g, j) = Point(s, g, j) /\ Point(z, g, j + 1) = Point(s, g, j + 1)
        BY <1>9, <2>1 DEF Point
      <3>2. Point(s, g, j + 1) \notin {h, n} /\ Point(s, g, j + 1) \in points
        <4>1. j \in 0..Len(s[g]) /\ j + 1 \in Nat
          BY <1>2, <3>1
        <4>2. CASE j + 1 = Len(s[g]) + 1
          BY <1>2, <1>3, <2>1, <4>1, <4>2
        <4>3. CASE j + 1 \in 0..Len(s[g])
          <5>1. 0 \in 0..Len(s[h]) /\ Point(s, h, 0) = h
            BY <1>2
          <5>2. Point(s, g, j + 1) # Point(s, h, 0)
            BY <1>2, <2>1, <4>3, <5>1
          <5> QED
            BY <1>2, <1>3, <4>1, <5>1, <5>2
        <4> QED
          BY <1>2, <4>1, <4>2, <4>3
      <3>3. r.prev[Point(s, g, j + 1)] = Point(s, g, j)
        BY <1>1, <3>1 DEF Back
      <3> QED
        BY <1>10, <3>1, <3>2, <3>3
    <2>2. CASE g = h /\ j = len + 1
      <3>1. Point(z, h, j) = n /\ Point(z, h, j + 1) = h
        BY <1>4, <1>11, <2>2
      <3> QED
        BY <1>4, <1>10, <2>2, <3>1
    <2>3. CASE g = h /\ j = len
      <3>1. Point(z, h, j) = last /\ Point(z, h, j + 1) = n
        BY <1>4, <1>11, <2>3 DEF last
      <3> QED
        BY <1>4, <1>10, <2>3, <3>1
    <2>4. CASE g = h /\ j \notin {len, len + 1}
      <3>1. j \in 0..len /\ j + 1 \in 0..len
        BY <1>4, <1>9, <2>4
      <3>2. Point(z, h, j) = Point(s, h, j) /\ Point(z, h, j + 1) = Point(s, h, j + 1)
        BY <1>4, <1>11, <3>1
      <3>3. Point(s, h, j + 1) \notin {h, n} /\ Point(s, h, j + 1) \in points
        <4>1. Point(s, h, 0) = h /\ 0 \in 0..len /\ j + 1 # 0 /\ j + 1 \in Nat
          BY <1>2, <1>4, <3>1
        <4> QED
          BY <1>2, <1>3, <3>1, <4>1 DEF len
      <3>4. r.prev[Point(s, h, j + 1)] = Point(s, h, j)
        BY <1>1, <3>1 DEF Back, len
      <3> QED
        BY <1>10, <2>4, <3>2, <3>3, <3>4
    <2> QED
      BY <2>1, <2>2, <2>3, <2>4
  <1>14. \A m \in Nodes : On(z, heads, m) <=> m = n \/ On(s, heads, m)
    <2>1. ASSUME NEW m \in Nodes, On(z, heads, m), m # n
          PROVE  On(s, heads, m)
      <3>1. PICK g \in heads : \E j \in 1..Len(z[g]) : z[g][j] = m
        BY <2>1 DEF On
      <3>2. PICK j \in 1..Len(z[g]) : z[g][j] = m
        BY <3>1
      <3>3. CASE g # h
        BY <1>9, <3>2, <3>3 DEF On
      <3>4. CASE g = h
        <4>1. j \in 1..len /\ s[h][j] = m
          BY <1>4, <1>9, <2>1, <3>2, <3>4
        <4> QED
          BY <4>1 DEF On, len
      <3> QED
        BY <3>3, <3>4
    <2>2. ASSUME NEW m \in Nodes, On(s, heads, m)
          PROVE  On(z, heads, m)
      <3>1. PICK g \in heads : \E j \in 1..Len(s[g]) : s[g][j] = m
        BY <2>2 DEF On
      <3>2. PICK j \in 1..Len(s[g]) : s[g][j] = m
        BY <3>1
      <3>3. CASE g # h
        BY <1>9, <3>2, <3>3 DEF On
      <3>4. CASE g = h
        <4>1. j \in 1..Len(z[h]) /\ z[h][j] = m
          BY <1>4, <1>9, <3>2, <3>4 DEF len
        <4> QED
          BY <4>1 DEF On
      <3> QED
        BY <3>3, <3>4
    <2>3. On(z, heads, n)
      <3>1. len + 1 \in 1..Len(z[h]) /\ z[h][len + 1] = n
        BY <1>4, <1>9
      <3> QED
        BY <3>1 DEF On
    <2> QED
      BY <2>1, <2>2, <2>3
  <1>15. ASSUME NEW m \in Nodes
         PROVE  On(z, heads, m) \/ u.prev[m] = Null
    <2>1. m # h
      BY DEF Apart
    <2> QED
      BY <1>1, <1>10, <1>14, <2>1 DEF points
  <1>16. Lists(heads, z)
    <2>1. ASSUME NEW f \in heads, NEW g \in heads, NEW j \in 1..Len(z[f]), NEW k \in 1..Len(z[g]),
                 z[f][j] = z[g][k]
          PROVE  f = g /\ j = k
      <3>1. \A e \in heads, i \in Nat :
               i \in 1..Len(z[e]) =>
                 \/ i \in 1..Len(s[e]) /\ z[e][i] = s[e][i] /\ z[e][i] # n
                 \/ e = h /\ i = len + 1 /\ z[e][i] = n
        <4> SUFFICES ASSUME NEW e \in heads, NEW i \in 1..Len(z[e])
                     PROVE  \/ i \in 1..Len(s[e]) /\ z[e][i] = s[e][i] /\ z[e][i] # n
                            \/ e = h /\ i = len + 1 /\ z[e][i] = n
          OBVIOUS
        <4>1. \A i2 \in 1..Len(s[e]) : s[e][i2] # n
          BY DEF On
        <4>2. CASE e # h
          BY <1>9, <4>1, <4>2
        <4>3. CASE e = h
          <5>1. i \in 1..len \/ i = len + 1
            BY <1>4, <1>9, <4>3
          <5> QED
            BY <1>9, <4>1, <4>3, <5>1 DEF len
        <4> QED
          BY <4>2, <4>3
      <3>2. j \in Nat /\ k \in Nat
        OBVIOUS
      <3> QED
        BY <1>1, <2>1, <3>1, <3>2 DEF Lists
    <2> QED
      BY <1>9, <2>1 DEF Lists
  <1>17. Rings(u, heads, z)
    BY <1>8, <1>12, <1>13, <1>15, <1>16 DEF Rings, points
  <1> QED
    BY <1>14, <1>17 DEF z, u

\* A node that is on a ring is taken off it first.
LEMMA PushMoves ==
  ASSUME NEW heads, Apart(heads), NEW r, NEW s, Rings(r, heads, s),
         NEW g \in heads, NEW h \in heads, NEW i \in 1..Len(s[g])
  PROVE  /\ Rings(K!Push(r, h, s[g][i]), heads, More(Less(s, g, i), h, s[g][i]))
         /\ \A m \in Nodes : On(More(Less(s, g, i), h, s[g][i]), heads, m) <=> On(s, heads, m)
  <1> DEFINE n == s[g][i]
             u == K!Unlink(r, n)
             z == Less(s, g, i)
  <1>1. n \in Nodes /\ On(s, heads, n)
    <2>1. Lists(heads, s)
      BY DEF Rings
    <2>2. n \in Nodes
      BY <2>1, Points
    <2> QED
      BY <2>2 DEF On
  <1>2. /\ Rings(u, heads, z) /\ ~On(z, heads, n)
        /\ \A m \in Nodes : m # n => (On(z, heads, m) <=> On(s, heads, m))
    BY UnlinkTakesOff
  <1>3. u.prev[n] = Null
    BY <1>1, <1>2 DEF Rings
  <1>4. K!Push(r, h, n) = K!Push(u, h, n)
    <2>1. K!Unlink(u, n) = u
      BY <1>3 DEF K!Unlink
    <2> HIDE DEF u
    <2>2. K!Unlink(r, n) = u
      BY DEF u
    <2> QED
      BY <2>1, <2>2 DEF K!Push
  <1> HIDE DEF n, u, z
  <1>5. /\ Rings(K!Push(u, h, n), heads, More(z, h, n))
        /\ \A m \in Nodes : On(More(z, h, n), heads, m) <=> m = n \/ On(z, heads, m)
    BY <1>1, <1>2, PushPutsAtEnd
  <1>6. \A m \in Nodes : On(More(z, h, n), heads, m) <=> On(s, heads, m)
    BY <1>1, <1>2, <1>5
  <1> QED
    BY <1>4, <1>5, <1>6 DEF n, z

LEMMA NodesFinite ==
  /\ IsFiniteSet(Nodes) /\ K!Cardinality(Nodes) = Cardinality(Nodes)
  /\ Cardinality(Nodes) \in Nat /\ Cardinality(Nodes) > IconRoom /\ IconRoom \in Nat \ {0}
  <1>1. K!IsFiniteSet(Nodes) /\ K!Cardinality(Nodes) > IconRoom /\ IconRoom \in Nat \ {0}
    BY CacheAssumption DEF K!CacheAssumption
  <1>2. IsFiniteSet(Nodes)
    BY <1>1, Zenon DEF K!IsFiniteSet, IsFiniteSet
  <1>3. K!Cardinality(Nodes) = Cardinality(Nodes)
    BY Zenon DEF K!Cardinality, Cardinality
  <1> QED
    BY <1>1, <1>2, <1>3, FS_CardinalityType

LEMMA UpTo ==
  ASSUME NEW n \in Nat
  PROVE  IsFiniteSet(1..n) /\ Cardinality(1..n) = n
  <1>1. IsFiniteSet(1..n) /\ Cardinality(1..n) = IF 1 > n THEN 0 ELSE n - 1 + 1
    BY FS_Interval
  <1> QED
    BY <1>1

LEMMA NotLonger ==
  ASSUME NEW heads, NEW s, Lists(heads, s), NEW h \in heads
  PROVE  Len(s[h]) <= K!Cardinality(Nodes)
  <1> DEFINE f == [i \in 1..Len(s[h]) |-> s[h][i]]
  <1>1. s[h] \in Seq(Nodes) /\ \A i, j \in 1..Len(s[h]) : s[h][i] = s[h][j] => i = j
    BY DEF Lists
  <1>2. Len(s[h]) \in Nat /\ \A i \in 1..Len(s[h]) : s[h][i] \in Nodes
    BY <1>1, EntryType
  <1>3. f \in Injection(1..Len(s[h]), Nodes)
    BY <1>1, <1>2 DEF Injection, IsInjective
  <1> HIDE DEF f
  <1>4. Cardinality(1..Len(s[h])) <= Cardinality(Nodes)
    BY <1>3, NodesFinite, FS_Injection
  <1>5. Cardinality(1..Len(s[h])) = Len(s[h])
    BY <1>2, UpTo
  <1> QED
    BY <1>4, <1>5, NodesFinite

\* hashtable_get walks over the nodes of a bucket in turn.
LEMMA WalkIs ==
  ASSUME NEW heads, Apart(heads), NEW r, NEW s, Rings(r, heads, s), NEW h \in heads
  PROVE  K!Walk(r, h) = s[h]
  <1> DEFINE m == K!Cardinality(Nodes)
             len == Len(s[h])
             X == {Point(s, h, i) : i \in 0..len}
             step == [p \in X \X (1..m) |-> r.next[p[1]]]
  <1>1. /\ Lists(heads, s) /\ Forward(r, heads, s)
        /\ m \in Nat /\ len \in 0..m /\ s[h] \in Seq(Nodes)
        /\ Point(s, h, 0) = h /\ Point(s, h, len + 1) = h
        /\ \A i \in 1..len : Point(s, h, i) = s[h][i] /\ Point(s, h, i) # h
        /\ \A i \in 0..len : r.next[Point(s, h, i)] = Point(s, h, i + 1)
    <2>1. Lists(heads, s) /\ Forward(r, heads, s)
      BY DEF Rings
    <2>2. /\ Len(s[h]) \in Nat /\ s[h] \in Seq(Nodes)
          /\ Point(s, h, 0) = h /\ Point(s, h, len + 1) = h
          /\ \A i \in 1..len : Point(s, h, i) = s[h][i] /\ s[h][i] \in Nodes
      BY <2>1, Points
    <2>3. h \notin Nodes
      BY DEF Apart
    <2>4. m \in Nat /\ len <= m
      BY <2>1, NodesFinite, NotLonger
    <2>5. \A i \in 1..len : Point(s, h, i) = s[h][i] /\ Point(s, h, i) # h
      BY <2>2, <2>3
    <2>6. \A i \in 0..len : r.next[Point(s, h, i)] = Point(s, h, i + 1)
      BY <2>1 DEF Forward
    <2>7. len \in 0..m
      BY <2>2, <2>4
    <2> HIDE DEF len
    <2> QED
      BY <2>1, <2>2, <2>4, <2>5, <2>6, <2>7
  <1> DEFINE at == CHOOSE f : f = [n \in 0..m |-> IF n = 0 THEN h ELSE r.next[f[n - 1]]]
  <1>2. /\ at = [n \in 0..m |-> IF n = 0 THEN h ELSE r.next[at[n - 1]]]
    <2>1. step \in [X \X (1..m) -> X]
      <3> SUFFICES ASSUME NEW p \in X \X (1..m) PROVE r.next[p[1]] \in X
        OBVIOUS
      <3>1. PICK i \in 0..len : p[1] = Point(s, h, i)
        OBVIOUS
      <3>2. r.next[p[1]] = Point(s, h, i + 1)
        BY <1>1, <3>1
      <3>3. CASE i = len
        <4>1. 0 \in 0..len /\ Point(s, h, i + 1) = Point(s, h, 0)
          BY <1>1, <3>3
        <4> QED
          BY <3>2, <4>1
      <3>4. CASE i # len
        <4>1. i + 1 \in 0..len
          BY <1>1, <3>4
        <4> QED
          BY <3>2, <4>1
      <3> QED
        BY <3>3, <3>4
    <2>2. h \in X
      <3>1. 0 \in 0..len
        BY <1>1
      <3> QED
        BY <1>1, <3>1
    <2>3. \A p \in X \X (1..m) : step[p] = r.next[p[1]]
      OBVIOUS
    <2> HIDE DEF X, step
    <2>4. PICK f \in [0..m -> X] : Runs(f, m, h, step)
      BY <1>1, <2>1, <2>2, Recursion
    <2>5. f = [n \in 0..m |-> IF n = 0 THEN h ELSE r.next[f[n - 1]]]
      <3> SUFFICES ASSUME NEW n \in 0..m
                   PROVE  f[n] = IF n = 0 THEN h ELSE r.next[f[n - 1]]
        BY <2>4
      <3>1. CASE n = 0
        BY <2>4, <3>1 DEF Runs
      <3>2. CASE n # 0
        <4>1. n \in 1..m /\ n - 1 \in 0..m
          BY <1>1, <3>2
        <4>2. f[n - 1] \in X
          BY <2>4, <4>1
        <4>3. f[n] = step[<<f[n - 1], n>>]
          BY <2>4, <4>1 DEF Runs
        <4>4. <<f[n - 1], n>> \in X \X (1..m) /\ <<f[n - 1], n>>[1] = f[n - 1]
          BY <4>1, <4>2
        <4>5. step[<<f[n - 1], n>>] = r.next[f[n - 1]]
          BY <2>3, <4>4
        <4> QED
          BY <3>2, <4>3, <4>5
      <3> QED
        BY <3>1, <3>2
    <2> QED
      BY <2>5
  <1>3. at[0] = h /\ \A n \in 1..m : at[n] = r.next[at[n - 1]]
    <2> HIDE DEF at
    <2> QED
      BY <1>1, <1>2
  <1> HIDE DEF at
  <1>4. \A n \in 0..len : at[n] = Point(s, h, n)
    <2> DEFINE S == {k \in Nat : k <= len => at[k] = Point(s, h, k)}
    <2>1. 0 \in S
      BY <1>1, <1>3
    <2>2. ASSUME NEW k \in Nat, k \in S
          PROVE  k + 1 \in S
      <3> SUFFICES ASSUME k + 1 <= len PROVE at[k + 1] = Point(s, h, k + 1)
        OBVIOUS
      <3>1. k \in 0..len /\ k + 1 \in 1..m /\ (k + 1) - 1 = k
        BY <1>1
      <3>2. at[k] = Point(s, h, k) /\ at[k + 1] = r.next[at[k]]
        BY <1>3, <2>2, <3>1
      <3> QED
        BY <1>1, <3>1, <3>2
    <2>3. Nat \subseteq S
      <3> HIDE DEF S
      <3> QED
        BY <2>1, <2>2, AllNumbers
    <2> QED
      BY <1>1, <2>3
  <1>5. \A n \in 0..len : r.next[at[n]] = Point(s, h, n + 1)
    BY <1>1, <1>4
  <1>6. \A n \in 0..len : r.next[at[n]] = h <=> n = len
    <2> SUFFICES ASSUME NEW n \in 0..len PROVE r.next[at[n]] = h <=> n = len
      OBVIOUS
    <2>1. CASE n = len
      BY <1>1, <1>5, <2>1
    <2>2. CASE n # len
      <3>1. n + 1 \in 1..len
        BY <1>1, <2>2
      <3> QED
        BY <1>1, <1>5, <2>2, <3>1
    <2> QED
      BY <2>1, <2>2
  <1> DEFINE Ends(n) == r.next[at[n]] = h /\ \A k \in 0..(n - 1) : r.next[at[k]] # h
             length == CHOOSE n \in 0..m : Ends(n)
  <1>7. \A n \in 0..m : Ends(n) <=> n = len
    <2> SUFFICES ASSUME NEW n \in 0..m PROVE Ends(n) <=> n = len
      OBVIOUS
    <2>1. CASE n = len
      <3>1. \A k \in 0..(n - 1) : k \in 0..len /\ k # len
        BY <1>1, <2>1
      <3>2. len \in 0..len
        BY <1>1
      <3> QED
        BY <1>6, <2>1, <3>1, <3>2
    <2>2. CASE n < len
      <3>1. n \in 0..len
        BY <1>1, <2>2
      <3> QED
        BY <1>1, <1>6, <2>2, <3>1
    <2>3. CASE n > len
      <3>1. len \in 0..(n - 1) /\ len \in 0..len
        BY <1>1, <2>3
      <3> QED
        BY <1>1, <1>6, <2>3, <3>1
    <2> QED
      BY <1>1, <2>1, <2>2, <2>3
  <1>8. length = len
    <2> HIDE DEF len
    <2> QED
      BY <1>1, <1>7
  <1>9. K!Walk(r, h) = [i \in 1..length |-> at[i]]
    BY DEF K!Walk, at
  <1> HIDE DEF length
  <1>10. [i \in 1..len |-> at[i]] = s[h]
    <2>1. \A i \in 1..len : at[i] = s[h][i]
      <3>1. \A i \in 1..len : i \in 0..len
        BY <1>1
      <3> QED
        BY <1>1, <1>4, <3>1
    <2>2. s[h] = [i \in 1..len |-> s[h][i]]
      BY <1>1
    <2> HIDE DEF len
    <2> QED
      BY <2>1, <2>2
  <1> QED
    BY <1>8, <1>9, <1>10

IconType ==
  [table : K!Ring(K!Heads \cup Nodes), history : K!Ring({K!Begin} \cup Nodes),
   key : [Nodes -> IconIds], count : [Nodes -> IconCounts \cup {K!Ten, K!AnyCount}],
   available : 0..IconRoom]

\* The history goes through the nodes of u, and the table through those of t,
\* which are some of them; of a key there is one, in its bucket.
CacheOf(s, u, t, room) ==
  /\ s \in IconType
  /\ Rings(s.history, {K!Begin}, u) /\ Rings(s.table, K!Heads, t)
  /\ \A n \in Nodes : On(t, K!Heads, n) => On(u, {K!Begin}, n)
  /\ \A h \in K!Heads : \A i \in 1..Len(t[h]) : K!Bucket(s.key[t[h][i]]) = h
  /\ \A m, n \in Nodes :
        On(t, K!Heads, m) /\ On(t, K!Heads, n) /\ s.key[m] = s.key[n] => m = n
  /\ s.available + Len(u[K!Begin]) = room

\* What the cache shows of a node.
IconOf(s, n) ==
  [key |-> s.key[n], count |-> s.count[n], current |-> s.table.prev[n] # Null]

IconList(s, q) == [i \in 1..Len(q) |-> IconOf(s, q[i])]

Shows(s, list, room) ==
  \E u, t : CacheOf(s, u, t, room) /\ list = IconList(s, u[K!Begin])

Icon == [key : IconIds, count : IconCounts \cup {K!Ten, K!AnyCount}, current : BOOLEAN]

LEMMA IconFields ==
  ASSUME NEW s, NEW n
  PROVE  /\ IconOf(s, n).key = s.key[n] /\ IconOf(s, n).count = s.count[n]
         /\ IconOf(s, n).current = (s.table.prev[n] # Null)
  <1>1. IconOf(s, n).key = s.key[n] /\ IconOf(s, n).count = s.count[n]
    BY DEF IconOf
  <1>2. IconOf(s, n).current = (s.table.prev[n] # Null)
    BY DEF IconOf
  <1> QED
    BY <1>1, <1>2

LEMMA CacheFacts ==
  /\ Apart(K!Heads) /\ Apart({K!Begin}) /\ K!Begin \in {K!Begin}
  /\ \A k \in IconIds : K!Bucket(k) \in K!Heads
  /\ Null \notin Nodes /\ IconRoom \in Nat \ {0} /\ IconIds \subseteq Nat /\ IconIds # {}
  BY CacheAssumption DEF K!CacheAssumption, Apart, K!Heads

LEMMA IconListType ==
  ASSUME NEW s \in IconType, NEW q \in Seq(Nodes)
  PROVE  /\ IconList(s, q) \in Seq(Icon) /\ Len(IconList(s, q)) = Len(q) /\ Len(q) \in Nat
         /\ \A i \in 1..Len(q) : IconList(s, q)[i] = IconOf(s, q[i]) /\ IconOf(s, q[i]) \in Icon
  <1>1. Len(q) \in Nat /\ \A i \in 1..Len(q) : q[i] \in Nodes
    BY EntryType
  <1>2. \A n \in Nodes : IconOf(s, n) \in Icon
    BY DEF IconType, IconOf, Icon
  <1>3. \A i \in 1..Len(q) : IconOf(s, q[i]) \in Icon
    BY <1>1, <1>2
  <1> QED
    BY <1>1, <1>3 DEF IconList

\* Of numbers the least is chosen.
LEMMA LeastOf ==
  ASSUME NEW S, S \subseteq Nat, S # {}
  PROVE  K!Min(S) \in S /\ K!Icons!Min(S) \in S
  <1>1. PICK m \in S : \A n \in S : m <= n
    BY LeastNumber
  <1> QED
    BY <1>1 DEF K!Min, K!Icons!Min

\* What is in a bucket's ring is found there, and nothing else.
LEMMA LookupIs ==
  ASSUME NEW s, NEW u, NEW t, NEW room, CacheOf(s, u, t, room), NEW k \in IconIds
  PROVE  \/ /\ K!Lookup(s, k) = Null
            /\ \A n \in Nodes : ~(On(t, K!Heads, n) /\ s.key[n] = k)
         \/ /\ K!Lookup(s, k) \in Nodes
            /\ On(t, K!Heads, K!Lookup(s, k)) /\ s.key[K!Lookup(s, k)] = k
  <1> DEFINE h == K!Bucket(k)
             q == t[h]
             match == {i \in 1..Len(q) : s.key[q[i]] = k}
  <1>1. h \in K!Heads /\ Lists(K!Heads, t)
    BY CacheFacts DEF CacheOf, Rings
  <1>2. K!Walk(s.table, h) = q
    <2> HIDE DEF h
    <2> QED
      BY <1>1, CacheFacts, WalkIs DEF CacheOf
  <1>3. Len(q) \in Nat /\ q \in Seq(Nodes) /\ \A i \in 1..Len(q) : q[i] \in Nodes
    BY <1>1, CacheFacts, Points
  <1>4. K!Lookup(s, k) = IF match = {} THEN Null ELSE q[K!Min(match)]
    <2>1. DOMAIN q = 1..Len(q)
      BY <1>3
    <2> HIDE DEF q
    <2> QED
      BY <1>2, <2>1 DEF K!Lookup
  <1>5. CASE match = {}
    <2>1. ASSUME NEW n \in Nodes, On(t, K!Heads, n), s.key[n] = k
          PROVE  FALSE
      <3>1. PICK g \in K!Heads : \E i \in 1..Len(t[g]) : t[g][i] = n
        BY <2>1 DEF On
      <3>2. PICK i \in 1..Len(t[g]) : t[g][i] = n
        BY <3>1
      <3>3. g = h
        BY <2>1, <3>2 DEF CacheOf
      <3> QED
        BY <1>5, <2>1, <3>2, <3>3
    <2> QED
      BY <1>4, <1>5, <2>1
  <1>6. CASE match # {}
    <2>1. match \subseteq Nat
      OBVIOUS
    <2>2. K!Min(match) \in match
      <3> HIDE DEF match
      <3> QED
        BY <1>6, <2>1, LeastOf
    <2> DEFINE i == K!Min(match)
    <2>3. i \in 1..Len(q) /\ s.key[q[i]] = k
      BY <2>2
    <2> HIDE DEF i
    <2>4. On(t, K!Heads, q[i])
      BY <1>1, <2>3 DEF On
    <2>5. K!Lookup(s, k) = q[i]
      BY <1>4, <1>6 DEF i
    <2> QED
      BY <1>3, <2>3, <2>4, <2>5
  <1> QED
    BY <1>5, <1>6

\* No icon of k that is current; or the one at i.
NoneOf(list, k) == \A i \in 1..Len(list) : ~(list[i].key = k /\ list[i].current)
OneOf(list, k, i) ==
  /\ i \in 1..Len(list) /\ list[i].key = k /\ list[i].current
  /\ \A j \in 1..Len(list) : list[j].key = k /\ list[j].current => j = i

LEMMA CurrentIs ==
  ASSUME NEW list \in Seq(Icon), NEW k
  PROVE  /\ NoneOf(list, k) => K!Icons!Current(list, k) = 0
         /\ \A i : OneOf(list, k, i) => K!Icons!Current(list, k) = i /\ i # 0
  <1> DEFINE I == {i \in 1..Len(list) : list[i].key = k /\ list[i].current}
  <1>1. K!Icons!Current(list, k) = IF I # {} THEN K!Icons!Min(I) ELSE 0
    BY DEF K!Icons!Current, K!Icons!SelectInSeq
  <1>2. ASSUME NoneOf(list, k)
        PROVE  K!Icons!Current(list, k) = 0
    <2>1. I = {}
      BY <1>2 DEF NoneOf
    <2> QED
      BY <1>1, <2>1
  <1>3. ASSUME NEW i, OneOf(list, k, i)
        PROVE  K!Icons!Current(list, k) = i /\ i # 0
    <2>1. I = {i} /\ i \in Nat /\ i # 0
      BY <1>3 DEF OneOf
    <2> HIDE DEF I
    <2>2. K!Icons!Min(I) \in I
      BY <2>1, LeastOf
    <2> QED
      BY <1>1, <2>1, <2>2
  <1> QED
    BY <1>2, <1>3

\* What is found in the table is the current icon of its key in the history.
LEMMA FoundIsCurrent ==
  ASSUME NEW s, NEW u, NEW t, NEW room, CacheOf(s, u, t, room), NEW k \in IconIds
  PROVE  /\ u[K!Begin] \in Seq(Nodes) /\ s \in IconType
         /\ \/ /\ K!Lookup(s, k) = Null
               /\ NoneOf(IconList(s, u[K!Begin]), k)
            \/ /\ K!Lookup(s, k) \in Nodes /\ K!Lookup(s, k) # Null
               /\ On(t, K!Heads, K!Lookup(s, k)) /\ s.key[K!Lookup(s, k)] = k
               /\ \E i \in 1..Len(u[K!Begin]) :
                     u[K!Begin][i] = K!Lookup(s, k) /\ OneOf(IconList(s, u[K!Begin]), k, i)
  <1> DEFINE q == u[K!Begin]
             list == IconList(s, q)
             n == K!Lookup(s, k)
  <1>1. /\ q \in Seq(Nodes) /\ s \in IconType
        /\ \A i, j \in 1..Len(q) : q[i] = q[j] => i = j
    BY CacheFacts DEF CacheOf, Rings, Lists
  <1>2. /\ Len(list) = Len(q) /\ Len(q) \in Nat
        /\ \A i \in 1..Len(q) : list[i] = IconOf(s, q[i]) /\ q[i] \in Nodes
    BY <1>1, IconListType, EntryType
  <1>3. \A m \in Nodes : On(t, K!Heads, m) <=> s.table.prev[m] # Null
    BY CacheFacts, OnRing DEF CacheOf
  <1>4. \A i \in 1..Len(q) : list[i].key = s.key[q[i]] /\ (list[i].current <=> On(t, K!Heads, q[i]))
    <2>1. \A i \in 1..Len(q) :
             list[i].key = s.key[q[i]] /\ list[i].current = (s.table.prev[q[i]] # Null)
      <3>1. \A m : IconOf(s, m).key = s.key[m] /\ IconOf(s, m).current = (s.table.prev[m] # Null)
        BY IconFields
      <3> HIDE DEF list, q
      <3> QED
        BY <1>2, <3>1, Zenon
    <2> HIDE DEF list, q
    <2> TAKE i \in 1..Len(q)
    <2>2. q[i] \in Nodes
      BY <1>2
    <2>3. On(t, K!Heads, q[i]) <=> s.table.prev[q[i]] # Null
      BY <1>3, <2>2
    <2> QED
      BY <2>1, <2>3, Zenon
  <1>5. CASE n = Null /\ \A m \in Nodes : ~(On(t, K!Heads, m) /\ s.key[m] = k)
    <2>1. NoneOf(list, k)
      <3> HIDE DEF list, q
      <3> QED
        BY <1>2, <1>4, <1>5 DEF NoneOf
    <2> QED
      BY <1>1, <1>5, <2>1
  <1>6. CASE n \in Nodes /\ On(t, K!Heads, n) /\ s.key[n] = k
    <2>1. On(u, {K!Begin}, n) /\ n # Null
      BY <1>6, CacheFacts DEF CacheOf
    <2>2. PICK i \in 1..Len(q) : q[i] = n
      BY <2>1 DEF On
    <2>3. \A m \in Nodes : On(t, K!Heads, m) /\ s.key[m] = k => m = n
      BY <1>6 DEF CacheOf
    <2>4. OneOf(list, k, i)
      <3>1. \A j \in 1..Len(q) : list[j].key = k /\ list[j].current => j = i
        <4> HIDE DEF list, q
        <4> QED
          BY <1>1, <1>2, <1>4, <2>2, <2>3
      <3>2. list[i].key = k /\ list[i].current
        <4> HIDE DEF list, q
        <4> QED
          BY <1>4, <1>6, <2>2
      <3> HIDE DEF list, q
      <3> QED
        BY <1>2, <3>1, <3>2 DEF OneOf
    <2> QED
      BY <1>1, <1>6, <2>1, <2>2, <2>4
  <1>7. \/ n = Null /\ \A m \in Nodes : ~(On(t, K!Heads, m) /\ s.key[m] = k)
        \/ n \in Nodes /\ On(t, K!Heads, n) /\ s.key[n] = k
    BY LookupIs
  <1> QED
    BY <1>5, <1>6, <1>7

\* Lists are the same when their entries are.
LEMMA SameList ==
  ASSUME NEW S, NEW p \in Seq(S), NEW q \in Seq(S), Len(p) = Len(q),
         \A i \in 1..Len(p) : p[i] = q[i]
  PROVE  p = q
  OBVIOUS

\* In p the j-th entry of q has gone to the end, as e.
Moved(p, q, j, e) ==
  /\ Len(p) = Len(q)
  /\ \A i \in 1..Len(q) : p[i] = IF i = Len(q) THEN e ELSE IF i < j THEN q[i] ELSE q[i + 1]

LEMMA ToEndIs ==
  ASSUME NEW S, NEW q \in Seq(S), NEW j \in 1..Len(q), NEW e \in S
  PROVE  /\ K!Icons!ToEnd(q, j, e) \in Seq(S) /\ Len(q) \in Nat
         /\ Moved(K!Icons!ToEnd(q, j, e), q, j, e)
  <1> DEFINE p == K!Icons!RemoveAt(q, j)
  <1>1. /\ p \in Seq(S) /\ Len(q) \in Nat /\ Len(p) = Len(q) - 1
        /\ \A i \in 1..(Len(q) - 1) : p[i] = IF i < j THEN q[i] ELSE q[i + 1]
    BY Without1
  <1>2. K!Icons!ToEnd(q, j, e) = Append(p, e)
    BY DEF K!Icons!ToEnd
  <1> HIDE DEF p
  <1>3. /\ Append(p, e) \in Seq(S) /\ Len(Append(p, e)) = Len(q)
        /\ Append(p, e)[Len(q)] = e
        /\ \A i \in 1..(Len(q) - 1) : Append(p, e)[i] = p[i]
    BY <1>1, AppendedEntries
  <1> QED
    BY <1>1, <1>2, <1>3 DEF Moved

\* The icons of a history that one node of has gone to the end of, when only
\* that node's icon has changed.
LEMMA ShownAtEnd ==
  ASSUME NEW s \in IconType, NEW z \in IconType, NEW q \in Seq(Nodes), NEW j \in 1..Len(q),
         \A i, l \in 1..Len(q) : q[i] = q[l] => i = l,
         \A m \in Nodes : m # q[j] => IconOf(z, m) = IconOf(s, m)
  PROVE  IconList(z, K!Icons!ToEnd(q, j, q[j]))
            = K!Icons!ToEnd(IconList(s, q), j, IconOf(z, q[j]))
  <1> DEFINE len == Len(q)
             p == K!Icons!ToEnd(q, j, q[j])
             list == IconList(s, q)
             e == IconOf(z, q[j])
             moved == K!Icons!ToEnd(list, j, e)
  <1>1. len \in Nat /\ \A i \in 1..len : q[i] \in Nodes
    BY EntryType
  <1>2. /\ p \in Seq(Nodes) /\ Len(p) = len
        /\ \A i \in 1..len : p[i] = IF i = len THEN q[j] ELSE IF i < j THEN q[i] ELSE q[i + 1]
    <2>1. q[j] \in Nodes
      BY <1>1
    <2>2. p \in Seq(Nodes) /\ Moved(p, q, j, q[j])
      BY <2>1, ToEndIs
    <2> HIDE DEF p
    <2> QED
      BY <2>2 DEF Moved
  <1>3. /\ list \in Seq(Icon) /\ Len(list) = len /\ \A i \in 1..len : list[i] = IconOf(s, q[i])
    BY IconListType
  <1>4. e \in Icon
    <2>1. \A m \in Nodes : IconOf(z, m) \in Icon
      BY DEF IconOf, Icon, IconType
    <2> QED
      BY <1>1, <2>1
  <1>5. /\ IconList(z, p) \in Seq(Icon) /\ Len(IconList(z, p)) = len
        /\ \A i \in 1..len : IconList(z, p)[i] = IconOf(z, p[i])
    <2> HIDE DEF p
    <2> QED
      BY <1>2, IconListType
  <1>6. /\ moved \in Seq(Icon) /\ Len(moved) = len
        /\ \A i \in 1..len :
              moved[i] = IF i = len THEN e ELSE IF i < j THEN list[i] ELSE list[i + 1]
    <2>1. j \in 1..Len(list)
      BY <1>3
    <2> HIDE DEF list, e
    <2>2. moved \in Seq(Icon) /\ Moved(moved, list, j, e)
      BY <1>3, <1>4, <2>1, ToEndIs
    <2> HIDE DEF moved
    <2> QED
      BY <1>3, <2>2 DEF Moved
  <1>7. ASSUME NEW i \in 1..len
        PROVE  IconList(z, p)[i] = moved[i]
    <2>1. IconList(z, p)[i] = IconOf(z, p[i])
      BY <1>5
    <2>2. CASE i = len
      <3>1. p[i] = q[j] /\ moved[i] = e
        BY <1>2, <1>6, <2>2
      <3> QED
        BY <2>1, <3>1
    <2>3. CASE i # len /\ i < j
      <3>1. p[i] = q[i] /\ moved[i] = IconOf(s, q[i]) /\ q[i] \in Nodes
        BY <1>1, <1>2, <1>3, <1>6, <2>3
      <3>2. q[i] # q[j]
        BY <2>3
      <3> QED
        BY <2>1, <3>1, <3>2
    <2>4. CASE i # len /\ ~(i < j)
      <3>1. i + 1 \in 1..len
        BY <1>1, <2>4
      <3>2. p[i] = q[i + 1] /\ moved[i] = IconOf(s, q[i + 1]) /\ q[i + 1] \in Nodes
        BY <1>1, <1>2, <1>3, <1>6, <2>4, <3>1
      <3>3. q[i + 1] # q[j]
        BY <2>4, <3>1
      <3> QED
        BY <2>1, <3>2, <3>3
    <2> QED
      BY <2>2, <2>3, <2>4
  <1> HIDE DEF p, moved
  <1>8. IconList(z, p) = moved
    BY <1>5, <1>6, <1>7, SameList
  <1> QED
    BY <1>8 DEF p, moved

\* lrucache_get.
LEMMA GotKeeps ==
  ASSUME NEW s, NEW u, NEW t, NEW room, CacheOf(s, u, t, room),
         NEW j \in 1..Len(u[K!Begin]), NEW z,
         z = [s EXCEPT !.history = K!Push(s.history, K!Begin, u[K!Begin][j])]
  PROVE  /\ CacheOf(z, More(Less(u, K!Begin, j), K!Begin, u[K!Begin][j]), t, room)
         /\ More(Less(u, K!Begin, j), K!Begin, u[K!Begin][j])[K!Begin]
               = K!Icons!ToEnd(u[K!Begin], j, u[K!Begin][j])
         /\ z \in IconType /\ \A m : IconOf(z, m) = IconOf(s, m)
  <1> DEFINE n == u[K!Begin][j]
             v == More(Less(u, K!Begin, j), K!Begin, n)
             r == K!Push(s.history, K!Begin, n)
  <1>1. /\ s \in IconType /\ Rings(s.history, {K!Begin}, u)
        /\ u \in [{K!Begin} -> Seq(Nodes)] /\ u[K!Begin] \in Seq(Nodes)
    BY DEF CacheOf, Rings, Lists
  <1>2. /\ Rings(r, {K!Begin}, v)
        /\ \A m \in Nodes : On(v, {K!Begin}, m) <=> On(u, {K!Begin}, m)
    BY <1>1, CacheFacts, PushMoves
  <1>3. v[K!Begin] = K!Icons!ToEnd(u[K!Begin], j, n)
    BY <1>1 DEF More, Less, K!Icons!ToEnd
  <1>4. Len(v[K!Begin]) = Len(u[K!Begin])
    <2>1. n \in Nodes
      BY <1>1, EntryType
    <2> HIDE DEF n
    <2> QED
      BY <1>1, <1>3, <2>1, ToEndIs DEF Moved
  <1> HIDE DEF n, v, r
  <1>5. z = [s EXCEPT !.history = r]
    BY DEF n, r
  <1>6. r \in K!Ring({K!Begin} \cup Nodes)
    BY <1>2 DEF Rings
  <1>7. /\ z \in IconType /\ z.table = s.table /\ z.key = s.key /\ z.count = s.count
        /\ z.available = s.available /\ z.history = r
    BY <1>1, <1>5, <1>6 DEF IconType
  <1>8. \A m : IconOf(z, m) = IconOf(s, m)
    BY <1>7 DEF IconOf
  <1>9. CacheOf(z, v, t, room)
    BY <1>2, <1>4, <1>7 DEF CacheOf
  <1> QED
    BY <1>3, <1>7, <1>8, <1>9 DEF v, n

Off(z, u, room, n) == \E v : CacheOf(z, u, v, room) /\ ~On(v, K!Heads, n)

\* A node goes out of the table only, or is not on it.
LEMMA DroppedKeeps ==
  ASSUME NEW s, NEW u, NEW t, NEW room, CacheOf(s, u, t, room), NEW n \in Nodes, NEW z,
         z = [s EXCEPT !.table = K!Unlink(s.table, n)]
  PROVE  /\ Off(z, u, room, n)
         /\ z \in IconType
         /\ \A m \in Nodes : m # n => IconOf(z, m) = IconOf(s, m)
         /\ IconOf(z, n) = [IconOf(s, n) EXCEPT !.current = FALSE]
  <1> DEFINE r == K!Unlink(s.table, n)
  <1>1. /\ s \in IconType /\ Rings(s.table, K!Heads, t) /\ Lists(K!Heads, t)
        /\ \A m \in Nodes : On(t, K!Heads, m) <=> s.table.prev[m] # Null
    <2>1. s \in IconType /\ Rings(s.table, K!Heads, t) /\ Lists(K!Heads, t)
      BY DEF CacheOf, Rings
    <2> QED
      BY <2>1, CacheFacts, OnRing
  <1>2. \E v : /\ Rings(r, K!Heads, v) /\ ~On(v, K!Heads, n)
               /\ \A m \in Nodes : m # n => (On(v, K!Heads, m) <=> On(t, K!Heads, m))
               /\ \A h \in K!Heads : \A i \in 1..Len(v[h]) : \E l \in 1..Len(t[h]) : v[h][i] = t[h][l]
    <2>1. CASE ~On(t, K!Heads, n)
      <3>1. r = s.table
        BY <1>1, <2>1 DEF K!Unlink
      <3> QED
        BY <1>1, <2>1, <3>1
    <2>2. CASE On(t, K!Heads, n)
      <3>1. PICK h \in K!Heads : \E i \in 1..Len(t[h]) : t[h][i] = n
        BY <2>2 DEF On
      <3>2. PICK i \in 1..Len(t[h]) : t[h][i] = n
        BY <3>1
      <3> DEFINE v == Less(t, h, i)
      <3>3. Rings(K!Unlink(s.table, t[h][i]), K!Heads, v)
        BY <1>1, CacheFacts, UnlinkTakesOff
      <3>4. ~On(v, K!Heads, t[h][i])
        BY <1>1, CacheFacts, UnlinkTakesOff
      <3>5. \A m \in Nodes : m # t[h][i] => (On(v, K!Heads, m) <=> On(t, K!Heads, m))
        BY <1>1, CacheFacts, UnlinkTakesOff
      <3>6. Shorter(K!Heads, v, t, h, i)
        BY <1>1, CacheFacts, LessIs
      <3> HIDE DEF v
      <3>7. ASSUME NEW g \in K!Heads, NEW a \in 1..Len(v[g])
            PROVE  \E l \in 1..Len(t[g]) : v[g][a] = t[g][l]
        <4>1. CASE g # h
          BY <3>6, <4>1 DEF Shorter
        <4>2. CASE g = h
          <5>1. Len(t[h]) \in Nat /\ a \in 1..(Len(t[h]) - 1)
            BY <3>6, <4>2 DEF Shorter
          <5>2. v[h][a] = IF a < i THEN t[h][a] ELSE t[h][a + 1]
            BY <3>6, <5>1 DEF Shorter
          <5>3. a \in 1..Len(t[h]) /\ a + 1 \in 1..Len(t[h])
            BY <5>1
          <5> QED
            BY <4>2, <5>2, <5>3
        <4> QED
          BY <4>1, <4>2
      <3> QED
        BY <3>2, <3>3, <3>4, <3>5, <3>7
    <2> QED
      BY <2>1, <2>2
  <1>3. PICK v : /\ Rings(r, K!Heads, v) /\ ~On(v, K!Heads, n)
                 /\ \A m \in Nodes : m # n => (On(v, K!Heads, m) <=> On(t, K!Heads, m))
                 /\ \A h \in K!Heads : \A i \in 1..Len(v[h]) : \E l \in 1..Len(t[h]) : v[h][i] = t[h][l]
    BY <1>2
  <1> HIDE DEF r
  <1>4. z = [s EXCEPT !.table = r] /\ r \in K!Ring(K!Heads \cup Nodes)
    BY <1>3 DEF r, Rings
  <1>5. /\ z \in IconType /\ z.history = s.history /\ z.key = s.key /\ z.count = s.count
        /\ z.available = s.available /\ z.table = r
    BY <1>1, <1>4 DEF IconType
  <1>6. \A m \in Nodes : On(v, K!Heads, m) => On(t, K!Heads, m)
    BY <1>3
  <1>7. CacheOf(z, u, v, room)
    <2>1. \A h \in K!Heads : \A i \in 1..Len(v[h]) : K!Bucket(z.key[v[h][i]]) = h
      BY <1>3, <1>5 DEF CacheOf
    <2>2. \A m \in Nodes : On(v, K!Heads, m) => On(u, {K!Begin}, m)
      BY <1>6 DEF CacheOf
    <2>3. \A m, l \in Nodes :
             On(v, K!Heads, m) /\ On(v, K!Heads, l) /\ z.key[m] = z.key[l] => m = l
      BY <1>5, <1>6 DEF CacheOf
    <2> QED
      BY <1>3, <1>5, <2>1, <2>2, <2>3 DEF CacheOf
  <1>8. \A m \in Nodes : On(v, K!Heads, m) <=> r.prev[m] # Null
    BY <1>3, CacheFacts, OnRing
  <1>9. ASSUME NEW m \in Nodes, m # n
        PROVE  IconOf(z, m) = IconOf(s, m)
    <2>1. (r.prev[m] # Null) = (s.table.prev[m] # Null)
      BY <1>1, <1>3, <1>8, <1>9, Zenon
    <2> QED
      BY <1>5, <2>1, Zenon DEF IconOf
  <1>10. IconOf(z, n) = [IconOf(s, n) EXCEPT !.current = FALSE]
    <2>1. (r.prev[n] # Null) = FALSE
      BY <1>3, <1>8
    <2>2. IconOf(z, n) = [key |-> s.key[n], count |-> s.count[n], current |-> FALSE]
      BY <1>5, <2>1, Zenon DEF IconOf
    <2>3. \A e \in Icon, b \in BOOLEAN :
             [e EXCEPT !.current = b] = [key |-> e.key, count |-> e.count, current |-> b]
      BY DEF Icon
    <2>4. IconOf(s, n) \in Icon
      BY <1>1 DEF IconOf, Icon, IconType
    <2>5. IconOf(s, n).key = s.key[n] /\ IconOf(s, n).count = s.count[n]
      BY IconFields
    <2> QED
      BY <2>2, <2>3, <2>4, <2>5, Zenon
  <1> QED
    BY <1>3, <1>5, <1>7, <1>9, <1>10 DEF Off

\* With the current icon of k gone to the end, and no longer current there,
\* there is none; of other keys there is none if there was none.
LEMMA NoneAfter ==
  ASSUME NEW list \in Seq(Icon), NEW k, NEW i, OneOf(list, k, i), NEW e \in Icon, e.key = k
  PROVE  /\ ~e.current => NoneOf(K!Icons!ToEnd(list, i, e), k)
         /\ \A x : NoneOf(list, x) => NoneOf(K!Icons!ToEnd(list, i, e), x)
  <1> DEFINE p == K!Icons!ToEnd(list, i, e)
             len == Len(list)
  <1>1. i \in 1..Len(list)
    BY DEF OneOf
  <1>2. len \in Nat /\ Moved(p, list, i, e)
    BY <1>1, ToEndIs
  <1> HIDE DEF p
  <1>3. ASSUME NEW j \in 1..Len(p)
        PROVE  \/ p[j] = e
               \/ \E l \in 1..len : l # i /\ p[j] = list[l]
    <2>1. j \in 1..len
      BY <1>2 DEF Moved
    <2>2. CASE j = len
      BY <1>2, <2>1, <2>2 DEF Moved
    <2>3. CASE j # len /\ j < i
      BY <1>2, <2>1, <2>3 DEF Moved
    <2>4. CASE j # len /\ ~(j < i)
      <3>1. p[j] = list[j + 1] /\ j + 1 \in 1..len /\ j + 1 # i
        BY <1>1, <1>2, <2>1, <2>4 DEF Moved
      <3> QED
        BY <3>1
    <2> QED
      BY <2>2, <2>3, <2>4
  <1>4. ASSUME ~e.current
        PROVE  NoneOf(p, k)
    BY <1>3, <1>4 DEF NoneOf, OneOf
  <1>5. ASSUME NEW x, NoneOf(list, x)
        PROVE  NoneOf(p, x)
    <2>1. x # k
      BY <1>5 DEF NoneOf, OneOf
    <2> QED
      BY <1>3, <1>5, <2>1 DEF NoneOf
  <1> QED
    BY <1>4, <1>5 DEF p

LEMMA ShowsIcons ==
  ASSUME NEW s, NEW list, NEW room, Shows(s, list, room)
  PROVE  list \in Seq(Icon) /\ s \in IconType /\ s.available + Len(list) = room
  <1>1. PICK u, t : CacheOf(s, u, t, room) /\ list = IconList(s, u[K!Begin])
    BY DEF Shows
  <1>2. u[K!Begin] \in Seq(Nodes) /\ s \in IconType
    BY <1>1, CacheFacts DEF CacheOf, Rings, Lists
  <1> QED
    BY <1>1, <1>2, IconListType DEF CacheOf

\* An icon that is asked for is found, and goes to the end of the history,
\* just as it should.
LEMMA LookedKeeps ==
  ASSUME NEW s, NEW list, NEW room, Shows(s, list, room), NEW k \in IconIds, NEW c
  PROVE  /\ K!Hit(s, k, c) <=> K!Icons!Good(list, k, c)
         /\ Shows(K!Looked(s, k, c), K!Icons!Looked(list, k, c), room)
         /\ ~K!Icons!Good(list, k, c) => NoneOf(K!Icons!Looked(list, k, c), k)
         /\ \A x : NoneOf(list, x) => NoneOf(K!Icons!Looked(list, k, c), x)
  <1>1. PICK u, t : CacheOf(s, u, t, room) /\ list = IconList(s, u[K!Begin])
    BY DEF Shows
  <1> DEFINE q == u[K!Begin]
             n == K!Lookup(s, k)
             good == K!Icons!Good(list, k, c)
             got == K!lrucache_get(s, k)
  <1>2. list \in Seq(Icon) /\ s \in IconType
    BY ShowsIcons
  <1>3. /\ q \in Seq(Nodes)
        /\ \/ n = Null /\ NoneOf(list, k)
           \/ /\ n \in Nodes /\ n # Null /\ On(t, K!Heads, n) /\ s.key[n] = k
              /\ \E i \in 1..Len(q) : q[i] = n /\ OneOf(list, k, i)
    BY <1>1, FoundIsCurrent
  <1>4. CASE n = Null /\ NoneOf(list, k)
    <2>1. K!Icons!Current(list, k) = 0
      BY <1>2, <1>4, CurrentIs
    <2>2. ~good /\ K!Icons!Looked(list, k, c) = list
      BY <2>1 DEF K!Icons!Good, K!Icons!Looked
    <2>3. ~K!Hit(s, k, c) /\ K!Looked(s, k, c) = s
      BY <1>4 DEF K!Hit, K!Looked
    <2> QED
      BY <1>4, <2>2, <2>3
  <1>5. CASE /\ n \in Nodes /\ n # Null /\ On(t, K!Heads, n) /\ s.key[n] = k
             /\ \E i \in 1..Len(q) : q[i] = n /\ OneOf(list, k, i)
    <2>1. PICK i \in 1..Len(q) : q[i] = n /\ OneOf(list, k, i)
      BY <1>5
    <2>2. K!Icons!Current(list, k) = i /\ i # 0
      BY <1>2, <2>1, CurrentIs
    <2>3. list[i] = IconOf(s, n) /\ list[i] \in Icon /\ list[i].key = k /\ list[i].count = s.count[n]
      <3>1. list[i] = IconOf(s, n) /\ list[i] \in Icon
        BY <1>1, <1>2, <1>3, <2>1, IconListType
      <3> QED
        BY <1>5, <3>1, IconFields
    <2>4. K!Hit(s, k, c) <=> good
      BY <1>5, <2>2, <2>3 DEF K!Hit, K!Icons!Good, K!AnyCount, K!Icons!AnyCount
    <2>5. K!Icons!Looked(list, k, c) = K!Icons!ToEnd(list, i, [list[i] EXCEPT !.current = good])
      BY <2>2 DEF K!Icons!Looked
    <2> DEFINE v == More(Less(u, K!Begin, i), K!Begin, q[i])
    <2>6. /\ CacheOf(got, v, t, room) /\ v[K!Begin] = K!Icons!ToEnd(q, i, q[i])
          /\ got \in IconType /\ \A m : IconOf(got, m) = IconOf(s, m)
      <3>1. got = [s EXCEPT !.history = K!Push(s.history, K!Begin, q[i])]
        BY <2>1 DEF K!lrucache_get
      <3> HIDE DEF got
      <3> QED
        BY <1>1, <2>1, <3>1, GotKeeps
    <2> HIDE DEF v, got
    <2>7. \A a, b \in 1..Len(q) : q[a] = q[b] => a = b
      BY <1>1, CacheFacts DEF CacheOf, Rings, Lists
    <2>8. \A e \in Icon, b \in BOOLEAN :
             [e EXCEPT !.current = b] = [key |-> e.key, count |-> e.count, current |-> b]
      BY DEF Icon
    <2>9. CASE good
      <3>1. K!Looked(s, k, c) = got
        BY <1>5, <2>4, <2>9 DEF K!Looked, got
      <3>2. [list[i] EXCEPT !.current = good] = list[i]
        <4>1. good = TRUE
          BY <2>9 DEF K!Icons!Good
        <4>2. list[i].current
          BY <2>1 DEF OneOf
        <4> HIDE DEF good
        <4> QED
          BY <2>3, <4>1, <4>2 DEF Icon
      <3>3. IconList(got, v[K!Begin]) = K!Icons!ToEnd(list, i, IconOf(got, q[i]))
        <4> HIDE DEF q
        <4> QED
          BY <1>1, <1>2, <1>3, <2>1, <2>6, <2>7, ShownAtEnd DEF q
      <3>4. IconOf(got, q[i]) = list[i]
        BY <2>1, <2>3, <2>6
      <3>5. Shows(got, K!Icons!Looked(list, k, c), room)
        BY <2>5, <2>6, <3>2, <3>3, <3>4 DEF Shows
      <3>6. \A x : NoneOf(list, x) => NoneOf(K!Icons!Looked(list, k, c), x)
        BY <1>2, <2>1, <2>3, <2>5, <3>2, NoneAfter
      <3> QED
        BY <2>4, <2>9, <3>1, <3>5, <3>6
    <2>10. CASE ~good
      <3> DEFINE z == [got EXCEPT !.table = K!Unlink(got.table, n)]
                 e == [list[i] EXCEPT !.current = good]
      <3>1. K!Looked(s, k, c) = z
        BY <1>5, <2>4, <2>10 DEF K!Looked, got
      <3>2. e = [list[i] EXCEPT !.current = FALSE] /\ e \in Icon /\ e.key = k /\ ~e.current
        <4>1. good = FALSE
          BY <2>10 DEF K!Icons!Good
        <4>2. e = [list[i] EXCEPT !.current = FALSE]
          BY <4>1
        <4>3. e = [key |-> k, count |-> list[i].count, current |-> FALSE]
          BY <2>3, <2>8, <4>2, Zenon
        <4> HIDE DEF e
        <4>4. e \in Icon
          BY <2>3, <4>3 DEF Icon
        <4> QED
          BY <4>2, <4>3, <4>4
      <3>3. /\ \E y : CacheOf(z, v, y, room)
            /\ z \in IconType
            /\ \A m \in Nodes : m # n => IconOf(z, m) = IconOf(got, m)
            /\ IconOf(z, n) = [IconOf(got, n) EXCEPT !.current = FALSE]
        <4> HIDE DEF n
        <4>1. n \in Nodes
          BY <1>5
        <4>2. z = [got EXCEPT !.table = K!Unlink(got.table, n)]
          OBVIOUS
        <4> HIDE DEF z
        <4>3. CacheOf(got, v, t, room)
          BY <2>6
        <4>4. Off(z, v, room, n)
          BY <4>1, <4>2, <4>3, DroppedKeeps
        <4>5. z \in IconType /\ \A m \in Nodes : m # n => IconOf(z, m) = IconOf(got, m)
          BY <4>1, <4>2, <4>3, DroppedKeeps
        <4>6. IconOf(z, n) = [IconOf(got, n) EXCEPT !.current = FALSE]
          BY <4>1, <4>2, <4>3, DroppedKeeps
        <4> QED
          BY <4>4, <4>5, <4>6 DEF Off
      <3> HIDE DEF z, e
      <3>4. IconList(z, v[K!Begin]) = K!Icons!ToEnd(list, i, IconOf(z, q[i]))
        <4>1. \A m \in Nodes : m # q[i] => IconOf(z, m) = IconOf(s, m)
          BY <2>1, <2>6, <3>3
        <4>2. v[K!Begin] = K!Icons!ToEnd(q, i, q[i]) /\ list = IconList(s, q)
          BY <1>1, <2>6
        <4>3. z \in IconType /\ i \in 1..Len(q) /\ q \in Seq(Nodes)
          BY <1>3, <2>1, <3>3
        <4> HIDE DEF q
        <4>4. IconList(z, K!Icons!ToEnd(q, i, q[i]))
                 = K!Icons!ToEnd(IconList(s, q), i, IconOf(z, q[i]))
          BY <1>2, <2>7, <4>1, <4>3, ShownAtEnd
        <4> QED
          BY <4>2, <4>4, Zenon
      <3>5. IconOf(z, q[i]) = e
        BY <2>1, <2>3, <2>6, <3>2, <3>3
      <3>6. Shows(z, K!Icons!Looked(list, k, c), room)
        <4>1. K!Icons!Looked(list, k, c) = IconList(z, v[K!Begin])
          BY <2>5, <3>4, <3>5 DEF e
        <4> QED
          BY <3>3, <4>1 DEF Shows
      <3>7. /\ NoneOf(K!Icons!ToEnd(list, i, e), k)
            /\ \A x : NoneOf(list, x) => NoneOf(K!Icons!ToEnd(list, i, e), x)
        <4>1. OneOf(list, k, i) /\ e \in Icon /\ e.key = k /\ (e.current = FALSE)
          BY <2>1, <3>2
        <4> QED
          BY <1>2, <4>1, NoneAfter
      <3> QED
        BY <2>4, <2>5, <2>10, <3>1, <3>6, <3>7 DEF e
    <2> QED
      BY <2>9, <2>10
  <1> QED
    BY <1>3, <1>4, <1>5

\* There is a node that is in neither list, as there are more than there is
\* room for.
LEMMA FreeNode ==
  ASSUME NEW s, NEW list, Shows(s, list, IconRoom)
  PROVE  \E n \in Nodes : s.table.prev[n] = Null /\ s.history.prev[n] = Null
  <1>1. PICK u, t : CacheOf(s, u, t, IconRoom) /\ list = IconList(s, u[K!Begin])
    BY DEF Shows
  <1> DEFINE q == u[K!Begin]
             f == [i \in 1..Len(q) |-> q[i]]
  <1>2. /\ q \in Seq(Nodes) /\ s \in IconType /\ s.available + Len(q) = IconRoom
        /\ \A n \in Nodes : On(u, {K!Begin}, n) <=> s.history.prev[n] # Null
        /\ \A n \in Nodes : On(t, K!Heads, n) <=> s.table.prev[n] # Null
    <2>1. q \in Seq(Nodes) /\ s \in IconType /\ s.available + Len(q) = IconRoom
      BY <1>1, CacheFacts DEF CacheOf, Rings, Lists
    <2>2. Rings(s.history, {K!Begin}, u) /\ Rings(s.table, K!Heads, t)
      BY <1>1 DEF CacheOf
    <2>3. \A n \in Nodes : On(u, {K!Begin}, n) <=> s.history.prev[n] # Null
      BY <2>2, CacheFacts, OnRing
    <2>4. \A n \in Nodes : On(t, K!Heads, n) <=> s.table.prev[n] # Null
      BY <2>2, CacheFacts, OnRing
    <2> QED
      BY <2>1, <2>3, <2>4
  <1>3. Len(q) \in Nat /\ Len(q) <= IconRoom /\ \A i \in 1..Len(q) : q[i] \in Nodes
    <2>1. s.available \in Nat
      BY <1>2, CacheFacts DEF IconType
    <2>2. Len(q) \in Nat /\ \A i \in 1..Len(q) : q[i] \in Nodes
      BY <1>2, EntryType
    <2> QED
      BY <1>2, <2>1, <2>2, CacheFacts
  <1>4. \E n \in Nodes : ~On(u, {K!Begin}, n)
    <2> SUFFICES ASSUME \A n \in Nodes : On(u, {K!Begin}, n) PROVE FALSE
      OBVIOUS
    <2>1. \A n \in Nodes : \E i \in 1..Len(q) : q[i] = n
      BY DEF On
    <2>2. f \in Surjection(1..Len(q), Nodes)
      BY <1>3, <2>1 DEF Surjection
    <2> HIDE DEF f, q
    <2>3. Cardinality(Nodes) <= Cardinality(1..Len(q))
      BY <1>3, <2>2, UpTo, FS_Surjection
    <2> QED
      BY <1>3, <2>3, UpTo, NodesFinite
  <1>5. PICK n \in Nodes : ~On(u, {K!Begin}, n)
    BY <1>4
  <1>6. ~On(t, K!Heads, n)
    BY <1>1, <1>5 DEF CacheOf
  <1> QED
    BY <1>2, <1>5, <1>6

Room(list) == IF Len(list) = IconRoom THEN Tail(list) ELSE list

\* When there is no room the icon used longest ago goes, whether or not it was
\* still in the table.
LEMMA RoomKeeps ==
  ASSUME NEW s, NEW list, Shows(s, list, IconRoom)
  PROVE  /\ Shows(K!WithRoom(s), Room(list), IconRoom - 1)
         /\ \A n \in Nodes : s.history.prev[n] = Null =>
               K!WithRoom(s).table.prev[n] = Null /\ K!WithRoom(s).history.prev[n] = Null
  <1>1. PICK u, t : CacheOf(s, u, t, IconRoom) /\ list = IconList(s, u[K!Begin])
    BY DEF Shows
  <1> DEFINE q == u[K!Begin]
             r == K!WithRoom(s)
             n == s.history.next[K!Begin]
  <1>2. /\ list \in Seq(Icon) /\ s \in IconType /\ s.available + Len(list) = IconRoom
        /\ IconRoom \in Nat \ {0} /\ s.available \in Nat /\ Len(list) \in Nat
    <2>1. list \in Seq(Icon) /\ s \in IconType /\ s.available + Len(list) = IconRoom
      BY ShowsIcons
    <2>2. s.available \in 0..IconRoom /\ IconRoom \in Nat \ {0}
      BY <2>1, CacheFacts DEF IconType
    <2> QED
      BY <2>1, <2>2, EntryType
  <1>3. /\ q \in Seq(Nodes) /\ Len(list) = Len(q)
        /\ \A i \in 1..Len(q) : list[i] = IconOf(s, q[i]) /\ q[i] \in Nodes
        /\ \A i, j \in 1..Len(q) : q[i] = q[j] => i = j
    <2>1. q \in Seq(Nodes) /\ \A i, j \in 1..Len(q) : q[i] = q[j] => i = j
      BY <1>1, CacheFacts DEF CacheOf, Rings, Lists
    <2> QED
      BY <1>1, <1>2, <2>1, IconListType, EntryType
  <1>4. \A m \in Nodes : s.history.prev[m] = Null =>
           s.table.prev[m] = Null /\ ~On(u, {K!Begin}, m)
    <2>1. Rings(s.history, {K!Begin}, u) /\ Rings(s.table, K!Heads, t)
      BY <1>1 DEF CacheOf
    <2>2. \A m \in Nodes : On(u, {K!Begin}, m) <=> s.history.prev[m] # Null
      BY <2>1, CacheFacts, OnRing
    <2>3. \A m \in Nodes : On(t, K!Heads, m) <=> s.table.prev[m] # Null
      BY <2>1, CacheFacts, OnRing
    <2>4. \A m \in Nodes : On(t, K!Heads, m) => On(u, {K!Begin}, m)
      BY <1>1 DEF CacheOf
    <2> QED
      BY <2>2, <2>3, <2>4
  <1>5. CASE s.available > 0
    <2>1. r = [s EXCEPT !.available = s.available - 1]
      BY <1>5 DEF K!WithRoom
    <2> HIDE DEF r
    <2>2. /\ r \in IconType /\ r.table = s.table /\ r.history = s.history /\ r.key = s.key
          /\ r.count = s.count /\ r.available = s.available - 1
      <3>1. s.available - 1 \in 0..IconRoom
        BY <1>2, <1>5
      <3> QED
        BY <1>2, <2>1, <3>1 DEF IconType
    <2>3. CacheOf(r, u, t, IconRoom - 1)
      <3>1. r.available + Len(q) = IconRoom - 1
        <4>1. s.available + Len(q) = IconRoom /\ r.available = s.available - 1
          BY <1>2, <1>3, <2>2
        <4>2. Len(q) \in Nat /\ s.available \in Nat /\ IconRoom \in Nat
          BY <1>2, <1>3
        <4> HIDE DEF q
        <4> QED
          BY <4>1, <4>2
      <3> QED
        BY <1>1, <2>2, <3>1 DEF CacheOf
    <2>4. list = IconList(r, q) /\ Room(list) = list
      BY <1>1, <1>2, <1>5, <2>2 DEF IconList, IconOf, Room
    <2> QED
      BY <1>4, <2>2, <2>3, <2>4 DEF Shows, r
  <1>6. CASE ~(s.available > 0)
    <2>1. Len(q) = IconRoom /\ 1 \in 1..Len(q) /\ s.available = 0
      BY <1>2, <1>3, <1>6
    <2>2. n = q[1]
      <3>1. Rings(s.history, {K!Begin}, u)
        BY <1>1 DEF CacheOf
      <3>2. Point(u, K!Begin, 0) = K!Begin /\ Point(u, K!Begin, 1) = q[1]
        BY <2>1, <3>1, CacheFacts, Points DEF Rings
      <3>3. 0 \in 0..Len(q) /\ 0 + 1 = 1
        BY <2>1
      <3>4. s.history.next[Point(u, K!Begin, 0)] = Point(u, K!Begin, 0 + 1)
        BY <3>1, <3>3, CacheFacts DEF Rings, Forward
      <3> QED
        BY <3>2, <3>3, <3>4
    <2> DEFINE z == [s EXCEPT !.table = K!Unlink(s.table, n)]
               v == Less(u, K!Begin, 1)
               h == K!Unlink(s.history, n)
    <2>3. r = [z EXCEPT !.history = h]
      BY <1>2, <1>6 DEF K!WithRoom, IconType
    <2>4. n \in Nodes
      BY <1>3, <2>1, <2>2
    <2>5. /\ Off(z, u, IconRoom, n) /\ z \in IconType
          /\ \A m \in Nodes : m # n => IconOf(z, m) = IconOf(s, m)
      <3>1. z = [s EXCEPT !.table = K!Unlink(s.table, n)]
        OBVIOUS
      <3> HIDE DEF z, n
      <3> QED
        BY <1>1, <2>4, <3>1, DroppedKeeps
    <2> HIDE DEF z
    <2>6. PICK w : CacheOf(z, u, w, IconRoom) /\ ~On(w, K!Heads, n)
      BY <2>5 DEF Off
    <2>7. z.history = s.history /\ z.available = s.available
      BY <1>2 DEF z, IconType
    <2>8. Rings(s.history, {K!Begin}, u)
      BY <1>1 DEF CacheOf
    <2>9. /\ Rings(h, {K!Begin}, v)
          /\ \A m \in Nodes : m # n => (On(v, {K!Begin}, m) <=> On(u, {K!Begin}, m))
      <3> HIDE DEF n
      <3>1. Rings(K!Unlink(s.history, u[K!Begin][1]), {K!Begin}, v)
        BY <2>1, <2>8, CacheFacts, UnlinkTakesOff
      <3>2. \A m \in Nodes : m # u[K!Begin][1] => (On(v, {K!Begin}, m) <=> On(u, {K!Begin}, m))
        BY <2>1, <2>8, CacheFacts, UnlinkTakesOff
      <3> QED
        BY <2>2, <3>1, <3>2
    <2>10. ~On(v, {K!Begin}, n)
      <3>1. ~On(Less(u, K!Begin, 1), {K!Begin}, u[K!Begin][1])
        BY <2>1, <2>8, CacheFacts, UnlinkTakesOff
      <3> QED
        BY <2>2, <3>1
    <2>11. Shorter({K!Begin}, v, u, K!Begin, 1)
      BY <2>1, <2>8, CacheFacts, LessIs DEF Rings
    <2>12. /\ v[K!Begin] \in Seq(Nodes) /\ Len(v[K!Begin]) = Len(q) - 1
           /\ \A j \in 1..(Len(q) - 1) : v[K!Begin][j] = q[j + 1]
      <3> HIDE DEF v
      <3>1. v[K!Begin] \in Seq(Nodes)
        BY <2>11, CacheFacts DEF Shorter, Lists
      <3>2. Len(v[K!Begin]) = Len(q) - 1
        BY <2>11 DEF Shorter
      <3>3. \A j \in 1..(Len(q) - 1) : v[K!Begin][j] = q[j + 1]
        BY <2>11 DEF Shorter
      <3> QED
        BY <3>1, <3>2, <3>3
    <2> HIDE DEF v, h, r
    <2>13. /\ r \in IconType /\ r.table = z.table /\ r.history = h /\ r.key = z.key
           /\ r.count = z.count /\ r.available = z.available
      <3>1. h \in K!Ring({K!Begin} \cup Nodes)
        BY <2>9 DEF Rings
      <3> QED
        BY <2>3, <2>5, <3>1 DEF IconType
    <2>14. CacheOf(r, v, w, IconRoom - 1)
      <3>1. r.available + Len(v[K!Begin]) = IconRoom - 1
        BY <1>2, <2>1, <2>7, <2>12, <2>13
      <3>2. \A m \in Nodes : On(w, K!Heads, m) => On(v, {K!Begin}, m)
        BY <2>6, <2>9 DEF CacheOf
      <3>3. Rings(r.table, K!Heads, w) /\ Rings(r.history, {K!Begin}, v)
        BY <2>6, <2>9, <2>13 DEF CacheOf
      <3> QED
        BY <2>6, <2>13, <3>1, <3>2, <3>3 DEF CacheOf
    <2>15. \A m \in Nodes : m # n => IconOf(r, m) = IconOf(s, m)
      BY <2>5, <2>13 DEF IconOf
    <2>16. Room(list) = IconList(r, v[K!Begin])
      <3> DEFINE a == Tail(list)
                 b == IconList(r, v[K!Begin])
      <3>1. Room(list) = a
        BY <1>3, <2>1 DEF Room
      <3>2. /\ a \in Seq(Icon) /\ Len(a) = Len(q) - 1
            /\ \A j \in 1..(Len(q) - 1) : a[j] = list[j + 1]
        BY <1>2, <1>3, <2>1
      <3>3. /\ b \in Seq(Icon) /\ Len(b) = Len(q) - 1
            /\ \A j \in 1..(Len(q) - 1) : b[j] = IconOf(r, v[K!Begin][j])
        BY <2>12, <2>13, IconListType
      <3>4. ASSUME NEW j \in 1..(Len(q) - 1)
            PROVE  a[j] = b[j]
        <4>1. j + 1 \in 1..Len(q) /\ j + 1 # 1
          BY <2>1
        <4>2. q[j + 1] \in Nodes /\ q[j + 1] # n
          BY <1>3, <2>1, <2>2, <4>1
        <4>3. a[j] = IconOf(s, q[j + 1])
          BY <1>3, <3>2, <4>1
        <4>4. b[j] = IconOf(r, q[j + 1])
          BY <2>12, <3>3
        <4> QED
          BY <2>15, <4>2, <4>3, <4>4
      <3> HIDE DEF a, b
      <3>5. a = b
        BY <3>2, <3>3, <3>4, SameList
      <3> QED
        BY <3>1, <3>5 DEF b
    <2>17. \A m \in Nodes : s.history.prev[m] = Null =>
              r.table.prev[m] = Null /\ r.history.prev[m] = Null
      <3>1. \A m \in Nodes : On(v, {K!Begin}, m) <=> r.history.prev[m] # Null
        BY <2>9, <2>13, CacheFacts, OnRing
      <3>2. \A m \in Nodes : On(w, K!Heads, m) <=> r.table.prev[m] # Null
        BY <2>14, CacheFacts, OnRing DEF CacheOf
      <3>3. \A m \in Nodes : On(w, K!Heads, m) => On(v, {K!Begin}, m)
        BY <2>14 DEF CacheOf
      <3> QED
        BY <1>4, <2>9, <2>10, <3>1, <3>2, <3>3
    <2> QED
      BY <2>14, <2>16, <2>17 DEF Shows, r
  <1> QED
    BY <1>5, <1>6

\* lrucache_put, once there is room: a node that is in neither list goes to the
\* end of the history and into its key's bucket, if no icon of the key is
\* current.
Fresh(k, c) == [key |-> k, count |-> c, current |-> TRUE]

LEMMA NewKeeps ==
  ASSUME NEW r, NEW list, Shows(r, list, IconRoom - 1), NEW n \in Nodes,
         r.table.prev[n] = Null, r.history.prev[n] = Null,
         NEW k \in IconIds, NEW c \in IconCounts \cup {K!Ten, K!AnyCount}, NoneOf(list, k),
         NEW z, z = [r EXCEPT !.table = K!Push(r.table, K!Bucket(k), n),
                              !.history = K!Push(r.history, K!Begin, n),
                              !.key[n] = k, !.count[n] = c]
  PROVE  Shows(z, Append(list, Fresh(k, c)), IconRoom)
  <1>1. PICK u, t : CacheOf(r, u, t, IconRoom - 1) /\ list = IconList(r, u[K!Begin])
    BY DEF Shows
  <1> DEFINE q == u[K!Begin]
             h == K!Bucket(k)
             v == More(u, K!Begin, n)
             w == More(t, h, n)
             ring == K!Push(r.table, h, n)
             used == K!Push(r.history, K!Begin, n)
  <1>2. /\ r \in IconType /\ list \in Seq(Icon) /\ r.available + Len(q) = IconRoom - 1
        /\ q \in Seq(Nodes) /\ Len(q) \in Nat /\ Len(list) = Len(q) /\ IconRoom \in Nat
        /\ \A i \in 1..Len(q) : list[i] = IconOf(r, q[i]) /\ q[i] \in Nodes
    <2>1. r \in IconType /\ q \in Seq(Nodes) /\ r.available + Len(q) = IconRoom - 1
      BY <1>1, CacheFacts DEF CacheOf, Rings, Lists
    <2> QED
      BY <1>1, <2>1, IconListType, EntryType, CacheFacts
  <1>3. /\ Rings(r.history, {K!Begin}, u) /\ Rings(r.table, K!Heads, t) /\ h \in K!Heads
        /\ \A m \in Nodes : On(t, K!Heads, m) => On(u, {K!Begin}, m)
    BY <1>1, CacheFacts DEF CacheOf
  <1>4. /\ \A m \in Nodes : On(u, {K!Begin}, m) <=> r.history.prev[m] # Null
        /\ \A m \in Nodes : On(t, K!Heads, m) <=> r.table.prev[m] # Null
    <2>1. \A m \in Nodes : On(u, {K!Begin}, m) <=> r.history.prev[m] # Null
      BY <1>3, CacheFacts, OnRing
    <2>2. \A m \in Nodes : On(t, K!Heads, m) <=> r.table.prev[m] # Null
      BY <1>3, CacheFacts, OnRing
    <2> QED
      BY <2>1, <2>2
  <1>5. ~On(u, {K!Begin}, n) /\ ~On(t, K!Heads, n)
    BY <1>4
  <1>6. /\ Rings(used, {K!Begin}, v)
        /\ \A m \in Nodes : On(v, {K!Begin}, m) <=> m = n \/ On(u, {K!Begin}, m)
    BY <1>3, <1>5, CacheFacts, PushPutsAtEnd
  <1>7. /\ Rings(ring, K!Heads, w)
        /\ \A m \in Nodes : On(w, K!Heads, m) <=> m = n \/ On(t, K!Heads, m)
    <2> HIDE DEF h
    <2> QED
      BY <1>3, <1>5, CacheFacts, PushPutsAtEnd
  <1>8. v[K!Begin] = Append(q, n)
    <2>1. u \in [{K!Begin} -> Seq(Nodes)]
      BY <1>3 DEF Rings, Lists
    <2> QED
      BY <2>1 DEF More
  <1>9. /\ \A g \in K!Heads \ {h} : w[g] = t[g]
        /\ w[h] = Append(t[h], n) /\ t[h] \in Seq(Nodes)
    <2>1. t \in [K!Heads -> Seq(Nodes)]
      BY <1>3 DEF Rings, Lists
    <2> HIDE DEF h
    <2> QED
      BY <1>3, <2>1 DEF More
  <1> HIDE DEF v, w, ring, used
  <1>10. /\ z \in IconType /\ z.table = ring /\ z.history = used /\ z.available = r.available
         /\ z.key = [r.key EXCEPT ![n] = k] /\ z.count = [r.count EXCEPT ![n] = c]
    <2>1. ring \in K!Ring(K!Heads \cup Nodes) /\ used \in K!Ring({K!Begin} \cup Nodes)
      BY <1>6, <1>7 DEF Rings
    <2> DEFINE keys == [r.key EXCEPT ![n] = k]
               counts == [r.count EXCEPT ![n] = c]
    <2>2. z = [r EXCEPT !.table = ring, !.history = used, !.key = keys, !.count = counts]
      BY DEF ring, used
    <2>3. keys \in [Nodes -> IconIds] /\ counts \in [Nodes -> IconCounts \cup {K!Ten, K!AnyCount}]
      BY <1>2 DEF IconType
    <2> HIDE DEF keys, counts
    <2>4. /\ z \in IconType /\ z.table = ring /\ z.history = used /\ z.available = r.available
          /\ z.key = keys /\ z.count = counts
      BY <1>2, <2>1, <2>2, <2>3 DEF IconType
    <2> QED
      BY <2>4 DEF keys, counts
  <1>11. /\ z.key[n] = k /\ z.count[n] = c
         /\ \A m \in Nodes : m # n => z.key[m] = r.key[m] /\ z.count[m] = r.count[m]
    BY <1>2, <1>10 DEF IconType
  <1>12. \A m \in Nodes : On(t, K!Heads, m) => r.key[m] # k
    <2> SUFFICES ASSUME NEW m \in Nodes, On(t, K!Heads, m), r.key[m] = k PROVE FALSE
      OBVIOUS
    <2>1. On(u, {K!Begin}, m)
      BY <1>3
    <2>2. PICK i \in 1..Len(q) : q[i] = m
      BY <2>1 DEF On
    <2>3. list[i].key = k /\ list[i].current = (r.table.prev[m] # Null)
      <3>1. list[i] = IconOf(r, m)
        BY <1>2, <2>2
      <3>2. IconOf(r, m).key = r.key[m] /\ IconOf(r, m).current = (r.table.prev[m] # Null)
        BY IconFields
      <3> QED
        BY <3>1, <3>2, Zenon
    <2>4. i \in 1..Len(list)
      BY <1>2
    <2>5. r.table.prev[m] # Null
      BY <1>4
    <2> QED
      BY <2>3, <2>4, <2>5 DEF NoneOf
  <1>13. CacheOf(z, v, w, IconRoom)
    <2>1. z.available + Len(v[K!Begin]) = IconRoom
      <3>1. Len(v[K!Begin]) = Len(q) + 1 /\ Len(q) \in Nat /\ z.available = r.available
        BY <1>2, <1>8, <1>10, AppendedEntries
      <3>2. r.available \in 0..IconRoom /\ r.available + Len(q) = IconRoom - 1
        BY <1>2 DEF IconType
      <3> HIDE DEF q
      <3> QED
        BY <1>2, <3>1, <3>2
    <2>2. ASSUME NEW g \in K!Heads, NEW i \in 1..Len(w[g])
          PROVE  K!Bucket(z.key[w[g][i]]) = g
      <3>1. \A a \in 1..Len(t[g]) :
               t[g][a] \in Nodes /\ t[g][a] # n /\ K!Bucket(r.key[t[g][a]]) = g
        <4>1. \A a \in 1..Len(t[g]) : On(t, K!Heads, t[g][a])
          BY DEF On
        <4>2. \A a \in 1..Len(t[g]) : t[g][a] \in Nodes
          BY <1>3, CacheFacts, Points DEF Rings
        <4> QED
          BY <1>1, <1>5, <4>1, <4>2 DEF CacheOf
      <3>2. CASE g # h
        <4>1. w[g] = t[g]
          BY <1>9, <3>2
        <4> QED
          BY <1>11, <3>1, <4>1
      <3>3. CASE g = h
        <4>1. /\ Len(t[h]) \in Nat /\ Len(w[h]) = Len(t[h]) + 1 /\ w[h][Len(t[h]) + 1] = n
              /\ \A a \in 1..Len(t[h]) : w[h][a] = t[h][a]
          BY <1>9, AppendedEntries
        <4>2. CASE i = Len(t[h]) + 1
          BY <1>11, <3>3, <4>1, <4>2
        <4>3. CASE i # Len(t[h]) + 1
          <5>1. i \in 1..Len(t[g])
            BY <3>3, <4>1, <4>3
          <5>2. w[g][i] = t[g][i]
            BY <3>3, <4>1, <5>1
          <5> QED
            BY <1>11, <3>1, <5>1, <5>2
        <4> QED
          BY <4>2, <4>3
      <3> QED
        BY <3>2, <3>3
    <2>3. \A m, l \in Nodes :
             On(w, K!Heads, m) /\ On(w, K!Heads, l) /\ z.key[m] = z.key[l] => m = l
      <3> SUFFICES ASSUME NEW m \in Nodes, NEW l \in Nodes, On(w, K!Heads, m),
                          On(w, K!Heads, l), z.key[m] = z.key[l]
                   PROVE  m = l
        OBVIOUS
      <3>1. m = n \/ On(t, K!Heads, m)
        BY <1>7
      <3>2. l = n \/ On(t, K!Heads, l)
        BY <1>7
      <3>3. CASE m = n \/ l = n
        BY <1>5, <1>11, <1>12, <3>1, <3>2, <3>3
      <3>4. CASE m # n /\ l # n
        <4>1. r.key[m] = r.key[l]
          BY <1>11, <3>4
        <4> QED
          BY <1>1, <3>1, <3>2, <3>4, <4>1 DEF CacheOf
      <3> QED
        BY <3>3, <3>4
    <2>4. \A m \in Nodes : On(w, K!Heads, m) => On(v, {K!Begin}, m)
      BY <1>3, <1>6, <1>7
    <2> QED
      BY <1>6, <1>7, <1>10, <2>1, <2>2, <2>3, <2>4 DEF CacheOf
  <1>14. \A m \in Nodes : On(w, K!Heads, m) <=> ring.prev[m] # Null
    BY <1>7, CacheFacts, OnRing
  <1>15. ASSUME NEW m \in Nodes, m # n
         PROVE  IconOf(z, m) = IconOf(r, m)
    <2>1. (ring.prev[m] # Null) = (r.table.prev[m] # Null)
      BY <1>4, <1>7, <1>14, <1>15, Zenon
    <2>2. z.key[m] = r.key[m] /\ z.count[m] = r.count[m] /\ z.table = ring
      BY <1>10, <1>11, <1>15
    <2> QED
      BY <2>1, <2>2, Zenon DEF IconOf
  <1>16. IconOf(z, n) = Fresh(k, c)
    <2>1. (ring.prev[n] # Null) = TRUE
      BY <1>7, <1>14
    <2>2. z.key[n] = k /\ z.count[n] = c /\ z.table = ring
      BY <1>10, <1>11
    <2> QED
      BY <2>1, <2>2, Zenon DEF IconOf, Fresh
  <1>17. IconList(z, v[K!Begin]) = Append(list, Fresh(k, c))
    <2> DEFINE e == Fresh(k, c)
               a == IconList(z, v[K!Begin])
               b == Append(list, e)
               p == v[K!Begin]
    <2>1. /\ p \in Seq(Nodes) /\ Len(p) = Len(q) + 1 /\ p[Len(q) + 1] = n
          /\ \A i \in 1..Len(q) : p[i] = q[i]
      <3> HIDE DEF q
      <3> QED
        BY <1>2, <1>8, AppendedEntries
    <2>2. e \in Icon
      BY DEF Fresh, Icon
    <2> HIDE DEF e
    <2>3. /\ b \in Seq(Icon) /\ Len(b) = Len(q) + 1 /\ b[Len(q) + 1] = e
          /\ \A i \in 1..Len(q) : b[i] = list[i]
      BY <1>2, <2>2, AppendedEntries
    <2>4. /\ a \in Seq(Icon) /\ Len(a) = Len(q) + 1
          /\ \A i \in 1..(Len(q) + 1) : a[i] = IconOf(z, p[i])
      <3> HIDE DEF p
      <3>1. a = IconList(z, p)
        BY DEF p
      <3> QED
        BY <1>10, <2>1, <3>1, IconListType
    <2>5. ASSUME NEW i \in 1..(Len(q) + 1)
          PROVE  a[i] = b[i]
      <3>1. CASE i = Len(q) + 1
        BY <1>16, <2>1, <2>3, <2>4, <3>1 DEF e
      <3>2. CASE i # Len(q) + 1
        <4>1. i \in 1..Len(q) /\ q[i] \in Nodes
          BY <1>2, <3>2
        <4>2. q[i] # n
          BY <1>5, <4>1 DEF On
        <4>3. a[i] = IconOf(z, q[i]) /\ b[i] = IconOf(r, q[i])
          BY <1>2, <2>1, <2>3, <2>4, <4>1
        <4> QED
          BY <1>15, <4>1, <4>2, <4>3
      <3> QED
        BY <3>1, <3>2
    <2> HIDE DEF a, b
    <2>6. a = b
      BY <2>3, <2>4, <2>5, SameList
    <2> QED
      BY <2>6 DEF a, b, e
  <1> QED
    BY <1>13, <1>17 DEF Shows

\* Making an icon, of a thing that has no current one.
LEMMA MadeKeeps ==
  ASSUME NEW s, NEW list, Shows(s, list, IconRoom), NEW k \in IconIds,
         NEW c \in IconCounts \cup {K!Ten}, NoneOf(list, k)
  PROVE  /\ Shows(K!lrucache_put(s, k, K!Shown(k, c)), K!Icons!Made(list, k, c), IconRoom)
         /\ \A x : x # k /\ NoneOf(list, x) => NoneOf(K!Icons!Made(list, k, c), x)
  <1> DEFINE count == K!Shown(k, c)
             r == K!WithRoom(s)
             n == CHOOSE n \in Nodes : s.table.prev[n] = Null /\ s.history.prev[n] = Null
             z == [r EXCEPT !.table = K!Push(r.table, K!Bucket(k), n),
                            !.history = K!Push(r.history, K!Begin, n),
                            !.key[n] = k, !.count[n] = count]
             room == Room(list)
  <1>1. list \in Seq(Icon) /\ Len(list) \in Nat
    BY ShowsIcons, EntryType
  <1>2. n \in Nodes /\ s.table.prev[n] = Null /\ s.history.prev[n] = Null
    BY FreeNode
  <1>3. /\ Shows(r, room, IconRoom - 1)
        /\ r.table.prev[n] = Null /\ r.history.prev[n] = Null
    <2> HIDE DEF n, r
    <2>1. Shows(r, room, IconRoom - 1)
      BY RoomKeeps DEF r
    <2>2. \A m \in Nodes : s.history.prev[m] = Null =>
             r.table.prev[m] = Null /\ r.history.prev[m] = Null
      BY RoomKeeps DEF r
    <2> QED
      BY <1>2, <2>1, <2>2
  <1>4. count \in IconCounts \cup {K!Ten, K!AnyCount}
    BY DEF K!Shown
  <1>5. ASSUME NEW x, NoneOf(list, x)
        PROVE  NoneOf(room, x)
    <2>1. CASE Len(list) = IconRoom
      <3>1. room = Tail(list) /\ IconRoom # 0
        BY <2>1, CacheFacts DEF Room
      <3>2. /\ Len(room) = Len(list) - 1
            /\ \A i \in 1..(Len(list) - 1) : room[i] = list[i + 1] /\ i + 1 \in 1..Len(list)
        BY <1>1, <2>1, <3>1
      <3> HIDE DEF room
      <3> QED
        BY <1>5, <3>2 DEF NoneOf
    <2>2. CASE Len(list) # IconRoom
      BY <1>5, <2>2 DEF Room
    <2> QED
      BY <2>1, <2>2
  <1>6. K!lrucache_put(s, k, count) = z
    BY DEF K!lrucache_put
  <1>7. K!Icons!Made(list, k, c) = Append(room, Fresh(k, count))
    BY DEF K!Icons!Made, Room, Fresh, K!Shown, K!AnyCount, K!Icons!AnyCount
  <1>8. room \in Seq(Icon)
    <2> HIDE DEF r, n, room
    <2> QED
      BY <1>3, ShowsIcons
  <1>9. Shows(z, Append(room, Fresh(k, count)), IconRoom)
    <2>1. NoneOf(room, k)
      BY <1>5
    <2>2. z = [r EXCEPT !.table = K!Push(r.table, K!Bucket(k), n),
                        !.history = K!Push(r.history, K!Begin, n),
                        !.key[n] = k, !.count[n] = count]
      OBVIOUS
    <2> HIDE DEF r, n, room, count, z
    <2> QED
      BY <1>2, <1>3, <1>4, <2>1, <2>2, NewKeeps
  <1>10. ASSUME NEW x, x # k, NoneOf(list, x)
         PROVE  NoneOf(Append(room, Fresh(k, count)), x)
    <2> DEFINE e == Fresh(k, count)
    <2>1. e \in Icon /\ e.key = k
      BY <1>4 DEF Fresh, Icon
    <2> HIDE DEF e, room
    <2>2. /\ Len(room) \in Nat /\ Len(Append(room, e)) = Len(room) + 1
          /\ Append(room, e)[Len(room) + 1] = e
          /\ \A i \in 1..Len(room) : Append(room, e)[i] = room[i]
      BY <1>8, <2>1, AppendedEntries
    <2>3. NoneOf(room, x)
      BY <1>5, <1>10
    <2>4. NoneOf(Append(room, e), x)
      BY <1>10, <2>1, <2>2, <2>3 DEF NoneOf
    <2> QED
      BY <2>4 DEF e
  <1> HIDE DEF z, room, count
  <1> QED
    BY <1>6, <1>7, <1>9, <1>10 DEF count

\* The icon of a thing that is not drawn on another.
LEMMA PlainKeeps ==
  ASSUME NEW s, NEW list, Shows(s, list, IconRoom), NEW k \in IconIds,
         NEW c \in IconCounts \cup {K!Ten}
  PROVE  /\ Shows(K!Plain(s, k, c), K!Icons!Alone(list, k, c), IconRoom)
         /\ \A x : x # k /\ NoneOf(list, x) => NoneOf(K!Icons!Alone(list, k, c), x)
  <1> DEFINE next == K!Icons!Looked(list, k, c)
             z == K!Looked(s, k, c)
  <1>1. /\ K!Hit(s, k, c) <=> K!Icons!Good(list, k, c)
        /\ Shows(z, next, IconRoom)
        /\ ~K!Icons!Good(list, k, c) => NoneOf(next, k)
        /\ \A x : NoneOf(list, x) => NoneOf(next, x)
    BY LookedKeeps
  <1>2. CASE K!Icons!Good(list, k, c)
    <2>1. K!Plain(s, k, c) = z /\ K!Icons!Alone(list, k, c) = next
      BY <1>1, <1>2 DEF K!Plain, K!Icons!Alone
    <2> HIDE DEF z, next
    <2> QED
      BY <1>1, <2>1
  <1>3. CASE ~K!Icons!Good(list, k, c)
    <2>1. /\ K!Plain(s, k, c) = K!lrucache_put(z, k, K!Shown(k, c))
          /\ K!Icons!Alone(list, k, c) = K!Icons!Made(next, k, c)
      BY <1>1, <1>3 DEF K!Plain, K!Icons!Alone
    <2> HIDE DEF z, next
    <2>2. NoneOf(next, k)
      BY <1>1, <1>3
    <2>3. Shows(K!lrucache_put(z, k, K!Shown(k, c)), K!Icons!Made(next, k, c), IconRoom)
      BY <1>1, <2>2, MadeKeeps
    <2>4. \A x : x # k /\ NoneOf(next, x) => NoneOf(K!Icons!Made(next, k, c), x)
      BY <1>1, <2>2, MadeKeeps
    <2> QED
      BY <1>1, <2>1, <2>3, <2>4
  <1> QED
    BY <1>2, <1>3

\* objtype_get_icon, as a function of the cache.
Given(s, k, c) ==
  IF K!Hit(s, k, c) \/ k \notin DOMAIN Linked THEN K!Plain(s, k, c)
  ELSE K!lrucache_put(K!Plain(K!Looked(s, k, c), Linked[k], K!Ten), k, K!Shown(k, c))
Answered(list, k, c) ==
  IF K!Icons!Good(list, k, c) \/ k \notin DOMAIN Linked THEN K!Icons!Alone(list, k, c)
  ELSE K!Icons!Made(K!Icons!Alone(K!Icons!Looked(list, k, c), Linked[k], K!Icons!Ten), k, c)

LEMMA GivenKeeps ==
  ASSUME NEW s, NEW list, Shows(s, list, IconRoom), NEW k \in IconIds, NEW c \in IconCounts
  PROVE  Shows(Given(s, k, c), Answered(list, k, c), IconRoom)
  <1>1. K!Hit(s, k, c) <=> K!Icons!Good(list, k, c)
    BY LookedKeeps
  <1>2. CASE K!Icons!Good(list, k, c) \/ k \notin DOMAIN Linked
    <2>1. Given(s, k, c) = K!Plain(s, k, c) /\ Answered(list, k, c) = K!Icons!Alone(list, k, c)
      BY <1>1, <1>2 DEF Given, Answered
    <2>2. Shows(K!Plain(s, k, c), K!Icons!Alone(list, k, c), IconRoom)
      BY PlainKeeps
    <2> QED
      BY <2>1, <2>2
  <1>3. CASE ~(K!Icons!Good(list, k, c) \/ k \notin DOMAIN Linked)
    <2> DEFINE l1 == K!Icons!Looked(list, k, c)
               s1 == K!Looked(s, k, c)
               l2 == K!Icons!Alone(l1, Linked[k], K!Icons!Ten)
               s2 == K!Plain(s1, Linked[k], K!Ten)
    <2>1. /\ Given(s, k, c) = K!lrucache_put(s2, k, K!Shown(k, c))
          /\ Answered(list, k, c) = K!Icons!Made(l2, k, c)
      BY <1>1, <1>3 DEF Given, Answered
    <2>2. Linked[k] \in IconIds /\ Linked[k] # k
      BY <1>3, CacheAssumption DEF K!CacheAssumption
    <2>3. Shows(s1, l1, IconRoom)
      BY LookedKeeps
    <2>4. NoneOf(l1, k)
      BY <1>3, LookedKeeps
    <2>5. K!Icons!Ten = K!Ten
      BY DEF K!Icons!Ten, K!Ten
    <2> HIDE DEF l1, s1
    <2>6. Shows(s2, K!Icons!Alone(l1, Linked[k], K!Ten), IconRoom)
      BY <2>2, <2>3, PlainKeeps
    <2>7. NoneOf(K!Icons!Alone(l1, Linked[k], K!Ten), k)
      BY <2>2, <2>3, <2>4, PlainKeeps
    <2>8. Shows(s2, l2, IconRoom) /\ NoneOf(l2, k)
      BY <2>5, <2>6, <2>7
    <2> HIDE DEF l2, s2
    <2>9. Shows(K!lrucache_put(s2, k, K!Shown(k, c)), K!Icons!Made(l2, k, c), IconRoom)
      BY <2>8, MadeKeeps
    <2> QED
      BY <2>1, <2>9
  <1> QED
    BY <1>2, <1>3

\* Nothing is on the rings of an empty cache.
LEMMA EmptyRings ==
  ASSUME NEW heads, Apart(heads)
  PROVE  Rings(K!Empty(heads), heads, [h \in heads |-> <<>>])
  <1> DEFINE s == [h \in heads |-> <<>>]
             self == [p \in heads \cup Nodes |-> IF p \in heads THEN p ELSE Null]
             r == K!Empty(heads)
  <1>1. r = [next |-> self, prev |-> self]
    BY DEF K!Empty
  <1>2. self \in [heads \cup Nodes -> heads \cup Nodes \cup {Null}]
    OBVIOUS
  <1>3. r \in K!Ring(heads \cup Nodes)
    <2> HIDE DEF r, self
    <2> QED
      BY <1>1, <1>2 DEF K!Ring
  <1>4. \A h \in heads : s[h] = <<>> /\ Len(s[h]) = 0 /\ s[h] \in Seq(Nodes)
    OBVIOUS
  <1>5. s \in [heads -> Seq(Nodes)]
    BY <1>4
  <1> HIDE DEF s
  <1>6. Lists(heads, s)
    BY <1>4, <1>5 DEF Lists
  <1>7. \A h \in heads, i \in Nat : Point(s, h, i) = h
    BY <1>4 DEF Point
  <1>8. \A h \in heads : self[h] = h
    OBVIOUS
  <1>9. \A n \in Nodes : self[n] = Null
    BY DEF Apart
  <1> HIDE DEF r, self
  <1>10. Forward(r, heads, s) /\ Back(r, heads, s)
    BY <1>1, <1>4, <1>7, <1>8 DEF Forward, Back
  <1>11. \A n \in Nodes : r.prev[n] = Null
    BY <1>1, <1>9
  <1> QED
    BY <1>3, <1>6, <1>10, <1>11 DEF Rings, r, s

LEMMA EmptyCache ==
  ASSUME NEW s, s.table = K!Empty(K!Heads), s.history = K!Empty({K!Begin}),
         s \in IconType, s.available = IconRoom
  PROVE  Shows(s, <<>>, IconRoom)
  <1> DEFINE u == [h \in {K!Begin} |-> <<>>]
             t == [h \in K!Heads |-> <<>>]
  <1>1. Rings(s.history, {K!Begin}, u)
    BY CacheFacts, EmptyRings
  <1>2. Rings(s.table, K!Heads, t)
    BY CacheFacts, EmptyRings
  <1>3. u[K!Begin] = <<>> /\ \A h \in K!Heads : t[h] = <<>>
    OBVIOUS
  <1> HIDE DEF u, t
  <1>4. \A n \in Nodes : ~On(t, K!Heads, n)
    BY <1>3 DEF On
  <1>5. s.available + Len(u[K!Begin]) = IconRoom
    BY <1>3, CacheFacts
  <1>6. CacheOf(s, u, t, IconRoom)
    BY <1>1, <1>2, <1>3, <1>4, <1>5 DEF CacheOf
  <1>7. IconList(s, u[K!Begin]) = <<>>
    BY <1>3 DEF IconList
  <1> QED
    BY <1>6, <1>7 DEF Shows

\* K!Used, of a cache.
UsedOf(s) ==
  LET ring == K!Walk(s.history, K!Begin)
  IN  [i \in DOMAIN ring |->
          [key |-> s.key[ring[i]], count |-> s.count[ring[i]],
           current |-> s.table.prev[ring[i]] # Null]]

LEMMA UsedIs ==
  ASSUME NEW s, NEW list, Shows(s, list, IconRoom)
  PROVE  UsedOf(s) = list
  <1>1. PICK u, t : CacheOf(s, u, t, IconRoom) /\ list = IconList(s, u[K!Begin])
    BY DEF Shows
  <1> DEFINE q == u[K!Begin]
  <1>2. Rings(s.history, {K!Begin}, u) /\ q \in Seq(Nodes)
    BY <1>1, CacheFacts DEF CacheOf, Rings, Lists
  <1>3. K!Walk(s.history, K!Begin) = q
    BY <1>2, CacheFacts, WalkIs
  <1>4. DOMAIN q = 1..Len(q)
    BY <1>2
  <1> HIDE DEF q
  <1>5. UsedOf(s) = [i \in 1..Len(q) |->
                       [key |-> s.key[q[i]], count |-> s.count[q[i]],
                        current |-> s.table.prev[q[i]] # Null]]
    BY <1>3, <1>4 DEF UsedOf
  <1> QED
    BY <1>1, <1>5 DEF IconList, IconOf, q

CacheInv == Shows(cache, K!Used, IconRoom)

\* Implementation: the rings of the code are the cache of IconCache, which is
\* in the order in which icons were used, whatever is asked for.
THEOREM RingsAreACache == K!Spec => ImplementsIconCache
  <1>1. K!Init => CacheInv /\ K!Icons!Init
    <2> SUFFICES ASSUME K!Init PROVE CacheInv /\ K!Icons!Init
      OBVIOUS
    <2>1. cache.table = K!Empty(K!Heads) /\ cache.history = K!Empty({K!Begin})
          /\ cache.available = IconRoom
      BY DEF K!Init, K!New
    <2>2. cache \in IconType
      <3>1. K!Min(IconIds) \in IconIds
        BY CacheFacts, LeastOf
      <3>2. K!Empty(K!Heads) \in K!Ring(K!Heads \cup Nodes)
        BY CacheFacts, EmptyRings DEF Rings
      <3>3. K!Empty({K!Begin}) \in K!Ring({K!Begin} \cup Nodes)
        BY CacheFacts, EmptyRings DEF Rings
      <3>4. IconRoom \in 0..IconRoom
        BY CacheFacts
      <3> QED
        BY <3>1, <3>2, <3>3, <3>4 DEF K!Init, K!New, IconType
    <2>3. Shows(cache, <<>>, IconRoom)
      BY <2>1, <2>2, EmptyCache
    <2>4. K!Used = <<>>
      <3>1. K!Used = UsedOf(cache)
        BY DEF K!Used, UsedOf
      <3> QED
        BY <2>3, <3>1, UsedIs
    <2> QED
      BY <2>3, <2>4 DEF CacheInv, K!Icons!Init
  <1>2. CacheInv /\ [K!Next]_cache => CacheInv' /\ [K!Icons!Next]_(K!Used)
    <2> SUFFICES ASSUME CacheInv, [K!Next]_cache
                 PROVE  CacheInv' /\ [K!Icons!Next]_(K!Used)
      OBVIOUS
    <2>1. Shows(cache, K!Used, IconRoom)
      BY DEF CacheInv
    <2>2. K!Used' = UsedOf(cache')
      BY DEF K!Used, UsedOf
    <2>3. ASSUME NEW list, Shows(cache', list, IconRoom)
          PROVE  CacheInv' /\ K!Used' = list
      <3>1. K!Used' = list
        BY <2>2, <2>3, UsedIs
      <3> QED
        BY <2>3, <3>1 DEF CacheInv
    <2>4. CASE K!lrucache_clear
      <3>1. cache' = [K!New EXCEPT !.key = cache.key, !.count = cache.count]
        BY <2>4 DEF K!lrucache_clear
      <3>2. cache'.table = K!Empty(K!Heads) /\ cache'.history = K!Empty({K!Begin})
            /\ cache'.available = IconRoom /\ cache'.key = cache.key /\ cache'.count = cache.count
        BY <3>1 DEF K!New
      <3>3. cache' \in IconType
        <4>1. cache \in IconType
          BY <2>1, ShowsIcons
        <4>2. K!Empty(K!Heads) \in K!Ring(K!Heads \cup Nodes)
          BY CacheFacts, EmptyRings DEF Rings
        <4>3. K!Empty({K!Begin}) \in K!Ring({K!Begin} \cup Nodes)
          BY CacheFacts, EmptyRings DEF Rings
        <4>4. IconRoom \in 0..IconRoom
          BY CacheFacts
        <4> QED
          BY <3>1, <4>1, <4>2, <4>3, <4>4 DEF K!New, IconType
      <3>4. Shows(cache', <<>>, IconRoom)
        BY <3>2, <3>3, EmptyCache
      <3> QED
        BY <2>3, <3>4 DEF K!Icons!Next
    <2>5. CASE \E k \in IconIds, c \in IconCounts : K!objtype_get_icon(k, c)
      <3>1. PICK k \in IconIds, c \in IconCounts : K!objtype_get_icon(k, c)
        BY <2>5
      <3>2. cache' = Given(cache, k, c)
        BY <3>1 DEF K!objtype_get_icon, Given
      <3>3. Shows(cache', Answered(K!Used, k, c), IconRoom)
        BY <2>1, <3>2, GivenKeeps
      <3>4. K!Icons!Asked(k, c) = Answered(K!Used, k, c)
        BY DEF K!Icons!Asked, Answered
      <3>5. CacheInv' /\ K!Used' = K!Icons!Asked(k, c)
        BY <2>3, <3>3, <3>4
      <3> QED
        BY <3>5 DEF K!Icons!Next
    <2>6. CASE cache' = cache
      <3>1. K!Used' = K!Used
        <4>1. K!Used = UsedOf(cache)
          BY DEF K!Used, UsedOf
        <4> QED
          BY <2>2, <2>6, <4>1
      <3> QED
        BY <2>1, <2>6, <3>1 DEF CacheInv
    <2> QED
      BY <2>4, <2>5, <2>6 DEF K!Next
  <1>3. CacheInv => K!TypeOK
    BY ShowsIcons DEF CacheInv, K!TypeOK, IconType
  <1> QED
    BY <1>1, <1>2, <1>3, PTL
       DEF K!Spec, ImplementsIconCache, K!ImplementsIconCache, K!Icons!Spec

===============================================================================
