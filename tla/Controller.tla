----------------------------- MODULE Controller -----------------------------
(* The game controllers: platform_poll_events of platform/xbox.c, which turns *)
(* what the selected controller holds into keys and mouse buttons of the game *)
(* (key_pressed and key_released of gameshell.c), logs in and out, and lets   *)
(* controllers be taken away, put back and selected with START while things   *)
(* are held.  A poll happens once an update: it takes the events that wait,   *)
(* one by one, and then looks at the controller.  What the player does may    *)
(* come at any time; the end of the session by any other way comes between    *)
(* two polls.                                                                 *)
(*                                                                            *)
(* Of the buttons those that select the cursor's speed, the size of the       *)
(* picture and the display of the speed are left out, and of the four ways of *)
(* the right stick, which are alike, all but Cameras.                         *)
EXTENDS Naturals, Sequences, FiniteSets

CONSTANTS
    Pads,       \* the controllers
    NoPad,
    Cameras,    \* the camera keys, K_LEFT..
    MaxEvents,  \* events that may wait for a poll
    MaxHeld     \* buttons held at a time

Buttons == {"A", "B", "X", "BACK", "START"}
Mouse == {"A", "B"}
Keys == {"control"} \cup Cameras

ControllerAssumption ==
    NoPad \notin Pads /\ Cameras \cap (Mouse \cup {"control"}) = {}

VARIABLES
    attached,      \* the controllers that are plugged in
    events,        \* what SDL has to tell of them
    open,          \* the controllers that are opened
    pad,           \* the one selected
    polling,       \* platform_poll_events takes events
    pad_changed,   \* another one was selected since it began
    prev_buttons,
    camera_held,
    action_key,    \* the keys the game takes for held
    mouse_button,  \* the mouse button it takes for held; "none"
    ingame,
    tracking,      \* _InputTracking.enabled
    told           \* the keys and buttons the server was told are held, since
                   \* it asked

held == <<prev_buttons, camera_held, action_key, mouse_button, told>>
game == <<ingame, tracking>>
vars == <<attached, events, open, pad, polling, pad_changed, held, game>>

Event == [type : {"added", "removed", "start"}, which : Pads]

TypeOK ==
    /\ attached \subseteq Pads /\ open \subseteq Pads
    /\ pad \in Pads \cup {NoPad}
    /\ polling \in BOOLEAN /\ pad_changed \in BOOLEAN
    /\ events \in Seq(Event)
    /\ prev_buttons \subseteq Buttons /\ camera_held \subseteq Cameras
    /\ action_key \subseteq Keys /\ mouse_button \in Mouse \cup {"none"}
    /\ ingame \in BOOLEAN
    /\ tracking \in BOOLEAN /\ told \subseteq Keys \cup Mouse

Init ==
    /\ attached = {} /\ events = <<>> /\ open = {} /\ pad = NoPad
    /\ polling = FALSE /\ pad_changed = FALSE
    /\ prev_buttons = {} /\ camera_held = {}
    /\ action_key = {} /\ mouse_button = "none"
    /\ ingame = FALSE /\ tracking = FALSE /\ told = {}

-----------------------------------------------------------------------------
\* The player, and the rest of the program.
Happens(e) ==
    /\ Len(events) < MaxEvents /\ events' = Append(events, e)
    /\ UNCHANGED <<open, pad, polling, pad_changed, held, game>>

PlugIn(p) ==
    /\ p \notin attached /\ attached' = attached \cup {p}
    /\ Happens([type |-> "added", which |-> p])

Unplug(p) ==
    /\ p \in attached /\ attached' = attached \ {p}
    /\ Happens([type |-> "removed", which |-> p])

\* SDL tells only what happens on an open controller.
PressStart(p) ==
    /\ p \in attached \cap open /\ UNCHANGED attached
    /\ Happens([type |-> "start", which |-> p])

\* LOGOUT, a lost connection, or the logout of the menu.
SessionEnds ==
    /\ ~polling /\ ingame
    /\ ingame' = FALSE /\ tracking' = FALSE /\ told' = {}
    /\ UNCHANGED <<attached, events, open, pad, polling, pad_changed,
                   prev_buttons, camera_held, action_key, mouse_button>>

\* ENABLE_TRACKING and FINISH_TRACKING.
TrackingChanges ==
    /\ ~polling /\ ingame
    /\ tracking' = ~tracking /\ told' = {}
    /\ UNCHANGED <<attached, events, open, pad, polling, pad_changed,
                   prev_buttons, camera_held, action_key, mouse_button, ingame>>

-----------------------------------------------------------------------------
\* The events, one by one.  A controller that is gone again cannot be opened;
\* START selects one that is open.
Added(p) ==
    LET new == IF p \in attached THEN p ELSE NoPad
    IN  /\ open' = open \cup ({new} \ {NoPad})
        /\ IF pad = NoPad
           THEN pad' = new /\ pad_changed' = (new # NoPad)
           ELSE UNCHANGED <<pad, pad_changed>>

Removed(p) ==
    /\ open' = open \ {p}
    /\ IF pad = p THEN pad' = NoPad /\ pad_changed' = TRUE
       ELSE UNCHANGED <<pad, pad_changed>>

Selected(p) ==
    /\ IF p \in open /\ pad # p THEN pad' = p /\ pad_changed' = TRUE
       ELSE UNCHANGED <<pad, pad_changed>>
    /\ UNCHANGED open

TakeEvent ==
    /\ events # <<>> /\ events' = Tail(events) /\ polling' = TRUE
    /\ LET e == Head(events)
       IN  \/ e.type = "added" /\ Added(e.which)
           \/ e.type = "removed" /\ Removed(e.which)
           \/ e.type = "start" /\ Selected(e.which)
    /\ UNCHANGED <<attached, held, game>>

\* The keys and mouse buttons that buttons of the controller stand for.
Meaning(buttons) ==
    (buttons \cap Mouse) \cup (IF "X" \in buttons THEN {"control"} ELSE {})

\* Seeded fault: the ways of the stick are forgotten.
ReleasedButCamera == Meaning(prev_buttons)

\* A controller that was changed: what is held on the old one is released.
Released == Meaning(prev_buttons) \cup camera_held

\* The mouse after the presses and releases, A before B: any release clears it.
MouseAfter(before, now, was) ==
    LET step(m, b) == IF b \in now \ was THEN b
                      ELSE IF b \in was \ now THEN "none" ELSE m
    IN  step(step(before, "A"), "B")

\* What was held, as far as it is not released because of the change.
Freed   == IF pad_changed THEN Released ELSE {}
Was     == IF pad_changed THEN {} ELSE prev_buttons
Turning == IF pad_changed THEN {} ELSE camera_held

\* Keys and buttons that are held, after the releases and the presses.
After(before, current, cameras) ==
    (before \ (Freed \cup Meaning(Was \ current) \cup (Turning \ cameras)))
        \cup Meaning(current \ Was) \cup (cameras \ Turning)

Chord(buttons) == {"BACK", "START"} \subseteq buttons

\* The controller is looked at.  `current` are the buttons and `stick` the ways
\* of the right stick the selected one holds; the buttons first, and with them
\* START, and the stick then, which only moves the camera in the game.
LookAt(current, stick) ==
    LET logout  == Chord(current) /\ ~Chord(Was) /\ ingame
        login   == "START" \in current \ Was /\ "BACK" \notin current /\ ~ingame
        cameras == IF ingame' THEN stick ELSE {}
    IN  /\ pad \notin attached => current = {} /\ stick = {}
        /\ \/ login /\ ingame' \in BOOLEAN
           \/ ~login /\ ingame' = (ingame /\ ~logout)
        /\ tracking' = (tracking /\ ~login /\ ~logout)
        /\ prev_buttons' = current /\ camera_held' = cameras
        /\ action_key' = After(action_key, current, cameras) \cap Keys
        /\ mouse_button' =
              MouseAfter(IF Freed \cap Mouse # {} THEN "none" ELSE mouse_button,
                         current, Was)
        /\ told' = IF tracking' THEN After(told, current, cameras) ELSE {}

\* platform_poll_events, once no event waits.
Poll ==
    /\ events = <<>> /\ polling' = FALSE /\ pad_changed' = FALSE
    /\ \E current \in {b \in SUBSET Buttons : Cardinality(b) <= MaxHeld},
          stick \in SUBSET Cameras : LookAt(current, stick)
    /\ UNCHANGED <<attached, events, open, pad>>

Next ==
    \/ \E p \in Pads : PlugIn(p) \/ Unplug(p) \/ PressStart(p)
    \/ SessionEnds \/ TrackingChanges \/ TakeEvent \/ Poll

Spec == Init /\ [][Next]_vars

-----------------------------------------------------------------------------
\* Nothing sticks: a key or a mouse button the game, or the server, takes for
\* held is held on the selected controller, which is one that is open, however
\* controllers come, go and take over and sessions end while things are held.
NothingSticks ==
    /\ pad # NoPad => pad \in open
    /\ pad = NoPad /\ ~polling => prev_buttons = {}
    /\ "control" \in action_key <=> "X" \in prev_buttons
    /\ action_key \cap Cameras = camera_held
    /\ mouse_button # "none" => mouse_button \in prev_buttons
    /\ told \subseteq action_key \cup (prev_buttons \cap Mouse)
=============================================================================
