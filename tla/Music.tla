------------------------------- MODULE Music -------------------------------
(* What is played: the track and the jingles the server asks for, the         *)
(* player's setting and the end of the session (client.c), and the one song   *)
(* and the few effects the sound of the Xbox has room for (platform/xbox.c,   *)
(* xboxaudio.c).  The device takes the sound in a thread of its own; all that *)
(* changes a song or an effect holds its lock, so that a step of it is a step *)
(* between two of the game.                                                   *)
EXTENDS Integers, Sequences

CONSTANTS
    Tracks,    \* the tracks the server asks for
    OnDisc,    \* those whose file is there and sound
    Title,     \* the track of the title screen, "scape_main"
    Effects,   \* effects that play at a time; 4 in the code
    Delay,     \* cycles until the track comes back after a jingle
    MaxWaves   \* effects explored

MusicAssumption ==
    /\ OnDisc \subseteq Tracks \cup {Title}
    /\ Effects \in Nat \ {0} /\ Delay \in Nat \ {0} /\ MaxWaves \in Nat

NoTrack == "none"
Jingle == "jingle"

NamesAssumption == {NoTrack, Jingle} \cap (Tracks \cup {Title}) = {}

VARIABLES
    ingame,
    midiActive,      \* the player wants music
    currentMidi,     \* the track the server asked for last
    nextMusicDelay,  \* cycles until the track comes back; 0: it does not
    font,            \* the instruments are loaded: there can be music
    song,            \* what plays
    effects,         \* effects[i]: the number of the effect at that place, or 0
    waves,           \* effects so far
    ended            \* those that have come to their end

vars == <<ingame, midiActive, currentMidi, nextMusicDelay, font, song, effects,
          waves, ended>>
asked == <<ingame, midiActive, currentMidi, nextMusicDelay>>
sounds == <<font, song, effects, waves, ended>>

TypeOK ==
    /\ ingame \in BOOLEAN /\ midiActive \in BOOLEAN /\ font \in BOOLEAN
    /\ currentMidi \in Tracks \cup {NoTrack}
    /\ nextMusicDelay \in 0..Delay
    /\ song \in Tracks \cup {Title, Jingle, NoTrack}
    /\ effects \in [0..(Effects - 1) -> 0..MaxWaves] /\ waves \in 0..MaxWaves
    /\ ended \subseteq 1..waves

-----------------------------------------------------------------------------
\* xbox_audio_stop_music, which closes the instruments when it cannot have
\* their channels, and xbox_audio_music, which stops first.
stop_music == song' = NoTrack /\ font' \in (IF font THEN BOOLEAN ELSE {FALSE})

music(s) ==
    \/ ~font /\ UNCHANGED <<font, song>>
    \/ font /\ font' = TRUE /\ song' = s
    \/ font /\ font' = FALSE /\ song' = NoTrack

\* platform_set_midi does nothing for a track whose file is missing or spoilt:
\* what plays goes on.
set_midi(track) ==
    IF track \in OnDisc THEN music(track) ELSE UNCHANGED <<font, song>>

Init ==
    /\ ingame = FALSE /\ midiActive = TRUE
    /\ currentMidi = NoTrack /\ nextMusicDelay = 0
    /\ font \in BOOLEAN
    /\ song = IF font /\ Title \in OnDisc THEN Title ELSE NoTrack
    /\ effects = [i \in 0..(Effects - 1) |-> 0] /\ waves = 0 /\ ended = {}

\* client_login.
Login ==
    /\ ~ingame /\ ingame' = TRUE
    /\ UNCHANGED <<midiActive, currentMidi, nextMusicDelay, sounds>>

\* client_logout.
Logout ==
    /\ ingame /\ ingame' = FALSE
    /\ stop_music /\ currentMidi' = NoTrack /\ nextMusicDelay' = 0
    /\ UNCHANGED <<midiActive, effects, waves, ended>>

\* MIDI_SONG: the track, if it is not the one asked for before.  The server
\* does not ask for a track again while it waits behind a jingle.
MidiSong(track) ==
    /\ ingame /\ (nextMusicDelay > 0 => track # currentMidi)
    /\ IF track # currentMidi /\ midiActive THEN set_midi(track)
       ELSE UNCHANGED <<font, song>>
    /\ currentMidi' = track /\ nextMusicDelay' = 0
    /\ UNCHANGED <<ingame, midiActive, effects, waves, ended>>

\* MIDI_JINGLE, whose sound comes with it: sound, no music, or not even whole.
MidiJingle ==
    /\ ingame /\ midiActive
    /\ \/ (music(Jingle) \/ UNCHANGED <<font, song>>) /\ nextMusicDelay' = Delay
       \/ UNCHANGED <<font, song, nextMusicDelay>>
    /\ UNCHANGED <<ingame, midiActive, currentMidi, effects, waves, ended>>

\* Seeded fault: music that is turned off goes on.
RestartOnly(active) == set_midi(currentMidi)

\* updateVarp, the player's setting.
Restart(active) == IF active THEN set_midi(currentMidi) ELSE stop_music

MidiActive(active) ==
    /\ ingame /\ active # midiActive
    /\ midiActive' = active /\ nextMusicDelay' = 0
    /\ Restart(active)
    /\ UNCHANGED <<ingame, currentMidi, effects, waves, ended>>

\* client_update_game: a cycle of the wait behind a jingle.
Waits ==
    /\ ingame /\ nextMusicDelay > 0 /\ nextMusicDelay' = nextMusicDelay - 1
    /\ IF nextMusicDelay' = 0 /\ midiActive THEN set_midi(currentMidi)
       ELSE UNCHANGED <<font, song>>
    /\ UNCHANGED <<ingame, midiActive, currentMidi, effects, waves, ended>>

\* xbox_audio_wave: the effect takes the next place of the ring, used or not.
Wave ==
    /\ waves < MaxWaves /\ waves' = waves + 1
    /\ effects' = [effects EXCEPT ![waves % Effects] = waves + 1]
    /\ UNCHANGED <<asked, font, song, ended>>

\* xbox_audio_render: an effect has come to its end.
EffectEnds ==
    /\ \E i \in DOMAIN effects :
          /\ effects[i] > 0 /\ effects' = [effects EXCEPT ![i] = 0]
          /\ ended' = ended \cup {effects[i]}
    /\ UNCHANGED <<asked, font, song, waves>>

Next ==
    \/ Login \/ Logout \/ MidiJingle \/ Waits \/ Wave \/ EffectEnds
    \/ \E track \in Tracks : MidiSong(track)
    \/ \E active \in BOOLEAN : MidiActive(active)

Spec == Init /\ [][Next]_vars

-----------------------------------------------------------------------------
\* The right sound: a player who wants no music hears none, and one who does
\* hears the track the server asked for last, when no jingle stands before it,
\* if that track is there and the instruments are; through jingles, settings
\* and sessions.  Of the effects the newest play to their end.
RightSound ==
    /\ ~font => song = NoTrack
    /\ ~midiActive /\ ingame => song = NoTrack
    /\ midiActive /\ font /\ nextMusicDelay = 0 /\ currentMidi \in OnDisc
          => song = currentMidi
    /\ \A n \in 1..waves : n > waves - Effects /\ n \notin ended
                             => \E i \in DOMAIN effects : effects[i] = n
=============================================================================
