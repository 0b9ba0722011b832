------------------------------- MODULE Devices -------------------------------
(***************************************************************************)
(* What the client has around the game and the server is told through it:  *)
(* the controller, the tracking of what is done with it, the search for    *)
(* the computer to log in at, the sound, private messages, and the icons   *)
(* that are kept.  They share no state; they are put side by side here,    *)
(* under the names of their parts, so that what is checked of them on an   *)
(* instance (MCDevices) and what is proved of them (Devices_proof) is      *)
(* stated once.                                                            *)
(***************************************************************************)
EXTENDS InputTracking

CONSTANTS
    Pads, NoPad, Cameras, MaxEvents, MaxHeld,               \* Controller
    Xboxes, PCs, MaxFound, MaxLogins, MaxBoots, MaxStarts,  \* Discovery
    Tracks, OnDisc, Title, Effects, Delay, MaxWaves,        \* Music
    Chars, MaxLength, Texts, Remembered, MaxMessages,       \* Chat
    MaxChats,
    IconIds, IconCounts, Counted, Linked, Buckets, IconRoom,  \* Cache
    Nodes, Null

VARIABLES
    attached, events, open, pad, polling, pad_changed, prev_buttons,
    camera_held, action_key, mouse_button, ingame, tracking, told,
    boot, logins, attempt, result, heard, outcome, starts, running, found,
    requests,
    playing, midiActive, currentMidi, nextMusicDelay, font, song, effects,
    waves, ended,
    chatWritten, chatSent, messageIds, privateMessageCount, chatShown,
    cache

C == INSTANCE Controller
D == INSTANCE Discovery
M == INSTANCE Music WITH ingame <- playing
H == INSTANCE Chat WITH
         MaxShown <- MaxChats,
         written <- chatWritten, sent <- chatSent, shown <- chatShown
K == INSTANCE Cache WITH
         Keys <- IconIds, Counts <- IconCounts, Capacity <- IconRoom

ASSUME ControllerAssumption == C!ControllerAssumption
ASSUME DiscoveryAssumption == D!DiscoveryAssumption
ASSUME MusicAssumption == M!MusicAssumption /\ M!NamesAssumption
ASSUME ChatAssumption == H!ChatAssumption
ASSUME CacheAssumption == K!CacheAssumption

controller == <<attached, events, open, pad, polling, pad_changed, prev_buttons,
                camera_held, action_key, mouse_button, ingame, tracking, told>>
discovery == <<boot, logins, attempt, result, heard, outcome, starts, running,
               found, requests>>
music == <<playing, midiActive, currentMidi, nextMusicDelay, font, song,
           effects, waves, ended>>
chat == <<chatWritten, chatSent, messageIds, privateMessageCount, chatShown>>

-----------------------------------------------------------------------------
(* The first property of a part takes its types with it.                     *)

\* Nothing a controller held sticks (Controller!NothingSticks).
NothingSticks == C!TypeOK /\ C!NothingSticks

\* One computer answers for a login (Discovery!OneComputer).
OneComputer == D!TypeOK /\ D!OneComputer

\* The code to approve is the Xbox's (Discovery!CodesAreCurrent).
CodesAreCurrent == D!CodesAreCurrent

\* What is heard is what was asked for (Music!RightSound).
RightSound == M!TypeOK /\ M!RightSound

\* A message reads as it was written (Chat!ReadsAsWritten).
ReadsAsWritten == H!TypeOK /\ H!ReadsAsWritten

\* The rings are a cache (Cache!ImplementsIconCache).
ImplementsIconCache == []K!TypeOK /\ K!ImplementsIconCache
=============================================================================
