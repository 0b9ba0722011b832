# TLA+ models of RS2 for Xbox and RS2 Xbox Connect

The repository is a native C client of a RuneScape-2 server (revision 225) for
the original Xbox, a Windows program (*RS2 Xbox Connect*, C#) that hosts a
world, finds Xboxes and connects friends, and a server package (PowerShell and
TypeScript) that starts and stops the world server. This directory holds TLA+
models of the parts of it that are stateful and hard to test, the TLC runs that
check them, and TLAPS proofs of what matters most. `PROJECT.json` maps every
definition to the lines it models.

Run from this directory: `tlc -config MCRelay.cfg Relay.tla`,
`tlapm Services_proof.tla`; `PROJECT.json` ("runs") names the module of each cfg.

- [1. Inventory](#1-inventory)
- [2. Modules](#2-modules)
- [3. Runs, bounds and fairness](#3-runs-bounds-and-fairness)
- [4. Disagreements found](#4-disagreements-found)
- [5. Proofs](#5-proofs)
- [6. What is not modelled](#6-what-is-not-modelled)
- [7. Outlook](#7-outlook)

## 1. Inventory

How the parts meet:

```
 Xbox                         PC of the player                      elsewhere
 ----                         ----------------                      ---------
 gameshell loop               Connect.App window
   client_update_game           work of a button, status timer
     client_read <- stream        |  starts, stops, checks
     client_login  --UDP 43596--> XboxDiscovery (answers, login bridge)
       stream ------TCP---------> TcpService/Gateway -- pumps --> DirectTunnel (guest)
                                                                      | TLS
                                DirectTunnel (host) <--- router mapping (UPnP)
                                  pumps -> world server (run-local.ts + engine)
                                WorldStore -> Start/Stop/Configure scripts, copies
```

| component | state | operations | what makes it hard | what makes it correct |
|---|---|---|---|---|
| Client stream (`src/clientstream.c`) | socket, `closed`, `buf`, `bufPos`, `bufLen` | available, read_bytes, read_byte, write, close | a poll and a blocking read share one buffer; a poll never reports a close | the game loop never blocks, no byte is lost or read twice |
| Packet framing (`client_read`) | `packet_type`, `packet_size`, incoming keystream | type, size and payload in separate calls | any call may stop anywhere; a new connection may replace the stream in mid-packet | the handlers see what the server sent, in order, once |
| Client session (`client_update_game`, `client_login`, `client_try_reconnect`, `client_logout`) | `ingame`, `stream`, the outgoing buffer and keystream, idle timers | update, login and its replies, reconnect, logout | a login or a logout happens in the middle of an update that then goes on | in game there is a stream; what is written belongs to the connection it is written to; no socket of a game is left open |
| World server control (`server-package/scripts`) | lock file, process record, requests, status files | start, stop, configure, assert stopped | commands are processes that may be closed at any point; identifiers are used again | one server per world; no copy or setup beside a server; "clean" means saved |
| Server wrapper (`run-local.ts`) | `appLoaded`, `stopSent`, status | load, poll for a request, exit | a request before the engine has loaded, a stale request, a torn file | stopped if and only if asked |
| World store (`WorldStore.cs`) | world folders | create, copy, restore, archive | copies beside running commands; partial failure | a copy is of a stopped world |
| Router mapping (`RouterMapping.cs`) | the lease, the router's table | map, renew, remove | calls lost, late or carried out after they were given up; other programs; routers that ignore leases | other programs' mappings are safe; a stop leaves none |
| Sessions (`DirectTunnel.cs`, `Gateway.cs`) | listener, table of sessions, per session two pumps | accept, admit, handshake, bridge, dispose | the accept loop, the sessions and DisposeAsync run on different threads; half-closes and time limits | bounded, quiet after disposal, an end comes after the last byte |
| Direct connection (`DirectConnection.cs`, `MainWindow.xaml.cs`) | the parts of a connection, identity, code, `connectionEpoch`, `busy` | start, stop, rotate, forget, check, close | two activities interleave at their awaits; every part may have failed on its own | no server is forgotten; no wrong code; no old status; a stop works |
| Discovery (`XboxDiscovery.cs`, `xboxconnect.c`) | table of found Xboxes; nonce, selected PC | broadcast, answer, choose, list, forget | lost, late, doubled answers; two PCs; a full table | an Xbox goes on with the one PC that answered this login; the code the player approves is the Xbox's |
| Entities (`client.c`: PLAYER_INFO, NPC_INFO) | lists of ids, slots, appearance buffer, base of the scene | remove, update, add, move everything at REBUILD_NORMAL, reconnect | an entity is named by its place in a list that both sides keep; what is freed must be what left the list | the client has the entities the server tells of, where they are, as they look |
| Movement on the screen (`pathingentity.c`, `updateMovement`) | route of ten tiles, fine position, facing, forced movement, animation | step, teleport, slide, cycle | packets come at any point of a walk; four writers of one position | nobody leaves the route, everybody arrives |
| Scene updates (`client.c`: zones, locs, things on the ground) | the scene, spawned and merged locs, stacks | change, delete, merge, rebuild, map files, put, take, count | changes come before, between and after the files they change; everything is shifted in place | the scene shows what the server has |
| Collision and walking (`collisionmap.c`, `client_try_move`) | flags of the tiles | add and remove walls, corners, objects; search a way | neighbours share sides; an add at the edge is cut in the middle | a wall stops, a gap lets through; the way told to the server is a shortest one |
| Input tracking (`inputtracking.c`) | two buffers, the time of the last event | track, put aside, send, stop | the buffer fills in the middle of an update | nothing tracked is lost or sent twice |
| Controllers (`platform/xbox.c`) | open controller, previous buttons, keys and mouse buttons of the game | attach, remove, select, poll | taken away or swapped while held; the session ends between two polls | each press has its release |
| Music and effects (`client.c`, `platform/xbox.c`, `xboxaudio.c`) | wanted track, delay of a jingle, the song, four effects | play, jingle, setting, logout, render on the sound thread | each event starts or stops the one song, in any order | what is heard is what was asked for last |
| Private messages (`wordpack.c`, `client.c`) | ids of the last 100 messages | pack, unpack, recognise a repeat | half bytes; repeats | it reads as it was written, once |
| Icon cache (`lrucache.c`, `objtype_get_icon`) | two rings threaded through the same nodes | put, get, evict, unlink one of the two rings | a node that is in one ring only | no icon of another count, the most recent are kept |
| Game loop (`gameshell.c`) | times of ten updates | poll, update, sleep | the tick count wraps | the loop keeps its pace |

`PROJECT.json` lists these and the rest (rendering, definitions, relay mode,
settings, build tools, other platforms, vendored code) with their reasons, and
every hazard at its line with the properties that would catch it.

## 2. Modules

| module | models | remarks |
|---|---|---|
| `ClientStream` | `clientstream.c`: socket, kernel buffer, `buf`, polls and the blocking read, one step per `recv` | used by `PacketReader`; a write is whole or fails |
| `PacketReader` | `client_read` up to the dispatch, from the login exchange to the next connection | the stages are its own `pc`; byte base, size table, keystream, the type that logs out and the types without a handler (which log out too) are constants |
| `PacketChannel` | what the packet layer promises | abstract specification; `ImplementsChannel` is the refinement `session <- conn, handled <- dispatched`, checked and proved |
| `ClientSession` | the session above it: one update as reads, silence, input, flush; the login with all replies | opcodes are records of the connection and the keystream word they were enciphered with; what was received before a server went can still be read |
| `ServerControl` | the scripts, the wrapper, the checks of WorldStore's copies | its specification has names of its own (`ControlSpec`, ...), as `Relay`'s; one window per element of `Commands`; `Close` of a window at any step; identifiers used again by `foreign` programs; torn files |
| `RouterMapping` | `UpnpRouter` and `RouterLease`, used as StartDirect, StopDirect and CheckDirectStatus use them | a call may be lost before the router saw it, or be carried out later as a `stray` |
| `TcpService` | the accept loop, table of sessions and DisposeAsync of `TcpService` and of `Gateway` | `idempotent` says which of the two (a second DisposeAsync of a Gateway runs again) |
| `Relay` | one session: the pumps of `Forward` and `Bridge` with half-close, time limit and cancellation | its specification has names of its own (`RelaySpec`, ...), so that one module of proofs extends the three; bytes are counted; `Secure` directions end with a TLS message |
| `Connection` | the window: start, stop, rotation, forgetting, status check, closing | composes the others at their interfaces: a part is up, broken (its loop ended with an exception) or spent; `lease` and `server` are RouterMapping's and ServerControl's results |
| `Entities` | the players, or the npcs, of the client and of the server, and the packet between them | removal, arrival, look and base in one packet, as the code reads it; what the loops over the list leave is said of all entries at once (`Kept`, `AfterRemoval`); a freed slot is `"freed"`; a login puts the player on tile 0 until the server's first placement (`placed`) |
| `PathingEntity` | one entity on the screen, one `Cycle` per client cycle | tiles lie on a line, so the one turn is the longest; REBUILD_NORMAL may move the window at any time, and an entity outside it is put back; a target to look at only says that turning does not slow it down |
| `SceneLocs` | map files, zones, changes and merges of locs, the build | the window of the scene moves over the doors; its edge tiles have no locs of the map (`Inner`); what is loaded is dropped at each move; the records of changed tiles are a set, one for a tile, since their order does not matter |
| `ObjStacks` | the stacks of things, their shift, the thing on top | the server keeps its own list of each tile, in its own order |
| `Walking` | the flags and the search | `Needed` by what stands there is the reference for the flags, `Within` over the things themselves for the search |
| `Controller` | `platform_poll_events` | the events between two polls are taken one by one, in any order |
| `InputTracking` | the tracked events and both buffers | an event is its number |
| `Discovery` | several Xboxes and computers over UDP | a request is late or lost, or both that a login sends are answered |
| `Music` | song, jingle, setting, session, the ring of effects | the device is an actor of its own |
| `Chat` | a message from the writer's keyboard to the reader's screen | the bytes are modelled: the property is about the conversion |
| `Cache` | the rings as the code threads them, `next` and `prev` of every node | a ring is walked by a recursive function of the number of steps |
| `IconCache` | what a cache of icons promises | abstract specification of `Cache` |
| `MCPacketReader`, `MCServerControl` | constants and symmetry for TLC | |
| `World` | `Entities`, `PathingEntity`, `Walking`, `SceneLocs` and `ObjStacks` side by side, under the names of their parts | states the properties once, for the run and for the proofs |
| `Devices` | `InputTracking`, `Controller`, `Discovery`, `Music`, `Chat` and `Cache` side by side | the same |
| `MCWorld`, `MCDevices` | `World` and `Devices` on one small instance each | one part, chosen in the first state, moves and the others stand, so the states of the parts add up instead of multiplying |
| `*_proof` | the theorems of their modules; `Services_proof` has those of `ServerControl`, `TcpService` and `Relay`, `Game_proof` those of `ClientSession` and of `World` but for its `Walking`, which are in `Walking_proof` | section 5 |
| `Induction` | induction over numbers and over the steps of a recursive function, for `Game_proof`, `Walking_proof` and `Devices_proof` | lemmas only |

Correspondence. Variables keep the names of the program where it has them
(`packet_type`, `idle_net_cycles`, `stopSent`, ...). An action is a handler or,
where the handler waits (an `await`, a blocking read, a call to a process), the
part of it between two waits; the `pc`, `at`, `main`, `check`, `step` variables
name the waits. External actors (the network, other programs on the router,
users closing windows, processes that reuse an identifier) are actions of
their own. Operators before a definition that are commented *Seeded fault* are
plausible bugs of it; `PROJECT.json` ("mutants") says which property each breaks.

## 3. Runs, bounds and fairness

| run | shows | bounds | distinct states |
|---|---|---|---|
| `packet_reader` | no blocking, keystream in step, refinement of `PacketChannel`, every packet handled | 5-valued bytes, sizes fixed, 1- and 2-byte, payloads up to 5, so that a length needs its high byte; 2 packets on each of 2 connections, any chunking, a logout and an unknown type | 491 thousand |
| `client_session` | no leak, opcodes in step; a loss is noticed, a login returns if the server lets it | 3 sockets in use, silence limit 1, grace 2, 2 reads, 1 left unread, 2 words | 189 thousand |
| `server_control` | one server, copies of stopped worlds, clean means saved | 2 windows, 2 launches, 2 identifiers, 1 closing, 1 setup | 532 thousand (symmetry) |
| `server_control_live` | the lock is released, a request is honoured | the same with 1 launch, no symmetry | 66 thousand |
| `router_mapping` | others are safe, a quiet stop unmaps | 2 ports, 2 attempts, 2 starts, one each of renewal, lost call, forgetting, crash | 23 thousand |
| `tcp_service` | quiet after disposal, places come back, disposal ends | 3 connections, 2 places, 3 attempts, 1 new window, failing accepts | 43 thousand |
| `relay` | the end comes last, half-close preserved, all is carried | 2 chunks each way, failing sockets, TLS on one side | 30 thousand |
| `connection` | no server forgotten, codes have the host's secret, forgotten Xboxes are out, status current | both modes, every part may fail, 2 starts, 1 rotation, 1 script failure, 1 check | 348 thousand |
| `connection_stop` | violation of `StopWorks` | 1 start | |
| `world` | entities in step and in looks; on the route, and arriving; locs and things as told; flags match, routes are shortest | 2 entities, 2 places, 2 bases; 2 tiles nine apart, route of 3, 3 packets, windows a tile further; 1 door in 4 windows over 2 map files, 1 merge; 2 kinds on 1 tile, 3 things; 3 of 7 walls and objects on 5 by 5 tiles, 2 waypoints, a detour of 4 | 669 thousand |
| `entities` | violation of `EntriesAreAlive` | 3 players | |
| `devices` | nothing tracked is lost, nothing sticks, one computer, codes are current, the right sound, messages read as written, the cache of icons is one | 10 bytes and 6 events; 2 controllers and 2 buttons; 2 Xboxes, 2 computers, a list of 1; 2 tracks and one that is missing, 2 effects; all texts of 1 and 2 of 7 characters, some of 3; 3 things, 2 buckets, 3 nodes, room for 2 | 574 thousand (symmetry of the controllers) |

The type invariant of a module is proved where there is a proof, and is otherwise
part of the first property of its part in `World` and `Devices`, where
a proof of that property proves it too.

Why the bounds are enough. Each is the smallest that lets the hazardous
interleavings happen: a second connection (what is left of the first), a second
launch beside an unrecorded first, one more client than places, a start after a
stop, and one of every kind of failure at every point. Limits of the program
(750 silent cycles, 64 sessions, 120 attempts a minute, 5 ports, payloads) are
constants of the modules; they are small in the runs and arbitrary in the
proofs. Of the client's world two of a thing suffice where the hazard is a pair (two
entities of a list, two things that share a side, two computers that answer); the windows
of the scene overlap, so that what stays is shifted in place; of those of `SceneLocs` two have the door
inside, one at its edge and one not at all, so that it leaves the scene and comes back.
`RouteTiles` are too far apart to walk, so that an entity is sent beyond the eight tiles it
walks, and slides of every pair of times up to two cycles meet each of these packets.
A route of three tiles and a search with two waypoints overflow, and a tile beside the target can be further than a detour of 4 (100 in the code); a cache of two evicts, and three nodes let one that was
freed be handed out again. `MaxWords` and the other counters named *bound* cut the environment
off, not the program: a run ends where the environment stops acting, and
the modules stutter there (`Rest`, `TitleScreen`) instead of deadlocking. `MaxSockets` bounds the
sockets that carry a game, not the attempts: a refused attempt gives its number back, and a
server that answers "log in again" is asked again without end, as in the code.

`router_mapping` sets `Interference = FALSE`: other programs act between, not
within, Connect's short sequences of calls. With interference
`OthersAreSafe` cannot hold of any program, since the protocol has no atomic
test-and-delete.

Fairness and what justifies it:

- `PacketReader`: the game loop goes on calling `client_read`, and bytes that are
  on the wire arrive.
- `ClientSession`: the game loop runs; a login's reads end after their 5 s.
  Nothing is assumed of the server, the player or the network. But `client_login` calls
  itself at the reply 1 without any limit (client.c:7563), so a login does not return
  while a server keeps giving it: `LoginReturns` says that it returns or that reply 1 comes for ever.
- `ServerControl`: a command that was not closed takes its next step and its
  deadline passes (`GiveUp` is strongly fair because its wait alternates between
  looking and sleeping). What the server must do is not assumed but is the
  hypothesis of `RequestIsHonoured`: it boots, loads, its interval fires, a process that
  was asked to exit exits.
- `TcpService`: the thread pool runs what is ready, a handshake ends by its time limit, a
  cancelled session ends. A session that plays may play for ever.
- `Relay`: the pool runs what is ready and the timer fires. Weak fairness of `Write` says
  that a destination's buffer gets room again, that is, the program at the other end
  keeps reading; nothing is assumed of what either program sends.
- `MCWorld`: the cycles of the client go on and an animation ends (weak fairness of both in
  the part that moves). The server and its packets are assumed nothing of; `Arrives` holds because
  packets are bounded, that is, of an entity that is told nothing more. An entity that a slide left off
  its tile (section 4) stays there, and `Arrives` says so.
- `RouterMapping` and the parts of `MCDevices` have safety properties only.
- `Connection`: every await of the work and of the check ends (the calls have time limits),
  and a user who wants the connection stopped presses the button again
  (strong fairness of `BeginStop`). `StopWorks` is violated even so.

## 4. Disagreements found

Two are runs that TLC ends with a counterexample; `PROJECT.json` quotes the text.

- **A failed discovery loop makes every Stop fail** (`connection_stop`).
  `XboxDiscovery.Receive` lets a SocketException end the loop when it is not being
  stopped; `DisposeAsync` awaits the loop first, so `StopConnection` throws at its
  first part each time, and the sessions, the mapping and the server cannot be stopped
  from the window. A failed accept loop of a `TcpService` costs one failed Stop only.
- **A player who leaves frees another one's memory** (`entities`). `getPlayer` drops the
  player with the id `index` and frees `players[i]`, where `i` counts the removals of
  the packet. `getNpcPos` frees the right one.

Three more are properties of the modules that no standing run checks. Each is false of the
model: named as the invariant of `MCConnection.cfg`, `MCServerControl.cfg` and
`MCRouterMapping.cfg` in turn, TLC refutes it.

- **A new invitation may name a certificate the host does not present**
  (`Connection!CodeOpensHost`). `RotateDirect` takes the code's
  certificate from `Identity`, which renews it in its last seven days, and starts the host
  with the one the connection began with. That the *secret* fits is proved.
- **A server can be started beside the setup helper** (`ServerControl!SetupOfStoppedWorld`).
  The lock is the window's; the helper outlives the window.
- **A stop does not wait for a renewal** (`RouterMapping!StopUnmaps`), which then maps the
  port again, unreported.

Four more are cases the code does not get right and no document speaks of. The properties name them and
leave them out, each only for as long as its trace lasts:

- **A slide is not moved with the window.** REBUILD_NORMAL shifts the place and the route of every entity
  but not the tiles of a slide under way (client.c:4991-5012), and a far teleport does
  not end one either (pathingentity.c:38): the entity ends where the slide ends and not on its tile, until it is
  told of again. The same goes for a slide whose packet gives it an end before its begin. (`OnRoute` and `Arrives`; `lost`.)
- **The first change of a loc at the edge of the scene records nothing to go back to**, since no loc of the map is
  shown there (world.c:421), and `addLoc` changes nothing there; so does one that
  comes before the files of the map. Once the window has moved and the zone is told anew, the door the map has is not
  put back. A server that only tells of zones near the player seldom gets there. (`LocsAsTold`; `Spoilt`, `Inner`, `Missing`.)
- **`addLoc` returns in the middle at the edge** (client.c:6654), and two things on one face share
  a flag that the first to go clears. (`FlagsMatch`; `off`.)
- **A login that is answered 1 for ever does not return**, and each of its calls is one deeper. (`LoginReturns`.)

## 5. Proofs

All theorems hold for every value of the constants that meets the named
assumptions of the module. Most of them (`BoundsAssumption`, `CapAssumption`, ...) say that bounds are
natural numbers and that sentinels are not members. These say more, and each is so in the code:

| assumption | says | because |
|---|---|---|
| `PayloadAssumption`, `SizesAssumption` | the length of a payload fits two bytes | psize2 writes two; the buffer of 5000 bytes is taken to hold each packet |
| `TypesAssumption` | logging out has a handler | opcode 142 |
| `SceneLocsAssumption`, `ObjStacksAssumption` | windows and their moves are of whole zones | REBUILD_NORMAL gives its place in zones |
| `InputTrackingAssumption` | one update tracks less than a buffer | the controller makes a few events an update, the buffer has 500 bytes |
| `CacheAssumption` | more nodes than room; certificates are drawn with things that are none | icons are allocated; the item definitions |

- `PacketReader_proof`: `TypeOK`, `GameLoopNeverBlocks`, `BufferHoldsOneField`,
  `KeystreamInStep`, for every size table, keystream, byte base and chunking, and every length one or two bytes can say. None of them
  is inductive: that a read does not block rests on the poll of the *same* length
  before it, so the invariant says for each point of `client_read` what the
  buffer and the last read hold (`GameInv`), that a login polls nothing
  (`LoginInv`) and that an open stream has its socket and no hole at the front of the buffer
  (`StreamInv`). The lemma `PollAndReadEffect` is the heart: a poll for exactly `len` bytes that
  says yes, then a read of them, leaves the buffer empty. `ImplementsChannel` needs more, namely which
  bytes these are: those that are sent and not yet read are a *cut* of the packets, the rest of the one in
  progress and the whole of those after it (`CutInv`; `LoginCut` and `GameCut` say for each point how much of the
  packet is left and that what is decoded of it is what the server put there). From it each step of the reader is
  a step of the channel or a stutter (`StepSimulation`).
- `Game_proof`, the session: `TypeOK`, `InGameHasStream`, `NoGameSocketLeaks`,
  `OutgoingInStep`, `UpdateWithoutSessionIsMute`. A login works on a fresh socket,
  which is not the one the reconnect will close (`LoginInv`, `SocketInv`); sockets of past games
  are closed but for that one (`ClosedInv`); in game the buffer continues the wire of
  the stream (`OutInv`), which the flush turns into `OutgoingInStep`.
- `Services_proof`, of `ServerControl`: `ControlTypeOK`, `OneServer`, `CopyOfStoppedWorld`, `CleanMeansSaved` for
  any number of windows, launches and identifiers. The lock is held from the look-up on
  (`LockInv`), so that "no server" stays true while a command holds it (`NoneInv`);
  the server alive is the last one launched (`LatestInv`, `OrderInv`), also one whose
  launcher was closed before it wrote the record.
- `Services_proof`, of `TcpService`: `TypeOK`, `Bounded`, `Quiet`. Every session at work is in the table or about
  to be stored (`Accounted`), and DisposeAsync has waited for those it saw
  (`DisposeInv`).
- `Services_proof`, of `Relay`: `RelayTypeOK`, `EndIsTheEnd`, `HalfCloseIsPreserved`. A pump that
  has reached the end has written everything and its source sends nothing more (`EndInv`);
  without a stop, the pair is cancelled on behalf of a failure only (`CutInv`).

- `RouterMapping_proof`: `TypeOK`, `QuietStopUnmaps`, and `OthersAreSafe` under `~Interference`, for any
  ports and bounds. Two arguments share the fact that every call under way or given up names
  a mapping that was handed out (`NamedInv`): no deletion that is under way, or that the router may still carry
  out, points at another program's entry (`SafeInv`), and without losses, renewals and crashes
  Connect's only entry is the one Map is confirming or the lease names (`QuietInv`).

- `Connection_proof`: `TypeOK`, `NoServerForgotten`, `SecretOpensHost`, `ForgottenAreOut`,
  `StatusIsCurrent`, for any number of starts, rotations, failures and checks and any set of parts
  that may break. Which step belongs to which work (`WorkInv`) is what the four arguments
  share. `WorldInv`: the world is remembered before its server may run. `SecretInv`: there is a
  mapping only between its making and its removal, so at each step of a start the host's secret is
  the identity's or there is no code. `ForgottenInv`: discovery and its login service come and go
  together. `StatusInv`: the steps behind discovery find it gone, so a status of a former
  connection is left only by a stop that failed.
- `Game_proof` and, for *Walking*, `Walking_proof`, the world: one argument for each part of `World`.
  - *Entities*, `InStep` and `LooksRight`, for any ids, places and bases, and any removals, walks,
    arrivals and appearances in one packet. `InStep` says that the server's list is a beginning of the
    client's, which is too little to go on from: it is all of it, or nothing after a reconnect
    (`ListInv`). `LooksRight` speaks of the entities on the list; what carries it across their absence is that
    a look that need not be told again is in the buffer, and in the slot if there is one (`LookInv`). Both hold
    as long as no freed entity is on the list (`Defined`); beyond that the program is undefined.
  - *Movement*, `OnRoute`, for any tiles, size, width of a tile, length of the route, speed and slide.
    What a packet puts in front of a route changes neither the waypoint that was reached nor the next one
    (`RouteTold`, `StaysOn`); a step does not pass its waypoint (`TowardsIt`); and a slide, during which `OnRoute`
    says nothing, ends exactly on its tile, since its last cycle divides what it multiplied
    (`DivCancels`), and that tile is the end of the route it left behind (`SlideInv`), unless the window moved,
    the entity was sent far away or the slide was to end before it began: such a slide is `lost` until the entity
    reaches a waypoint or is put on a tile.
  - *Walking*, `FlagsMatch`, for a map of any size and any walls and objects: inside the map an addition and
    a removal touch the same flags (`Marks`), those that `off` names excepted.
  - *Walking*, `RoutesAreShortest`, for a map of any size, any walls and objects, any number of waypoints in a packet and
    any detour. By `FlagsMatch` and a closed edge (`EdgeInv`) the search may step just where a walker among the things
    themselves may (`StepsAreWalks`). Its queue has each tile once, behind the one it was found from and no nearer
    than it (`Sound`), which each look at a tile keeps; once all of it was looked at from, the tiles found within k
    steps are those a walker is at within k (`LayersAreFound`, by induction over k), so the first of the tiles aimed at is
    at the least distance there is (`EndIsClosest`). The way back from it is a walk of as many steps (`WayIsThere`), and who
    makes for the next turning point takes the steps of that way (`StraightOn`, `WalkGoesOn`), to its end or, where the packet
    is full, to the last point told. It says nothing of a map on which `off` names a flag.
  - *Locs*, `LocsAsTold`, for any windows, doors, map files and merges. The property compares the scene with the
    server; the invariant compares each with the records. A record has what the map has at its tile and, in a zone
    that is told, what the server has (`RecordInv`); without a record the server has what the map has
    (`UnrecordedInv`); the scene shows the map with the records (`ShownInv`), and a merge puts back
    what stood there (`MergeInv`). That a record has the *map's* loc is what lets a zone be undone and told anew
    (`UndoneIsMap`), and what fails at the tiles in `off`. Inside the scene only (`Inner`): at its edge the
    map shows nothing, and a window that moves makes an edge tile an inner one with the record it had. A window consists of whole zones, as in the code
    (`SceneLocsAssumption`): a zone in it is in it with all of its tiles (`WholeZones`), so that a move of
    the window cannot drop a record and keep the zone.
  - *Things on the ground*, `ThingsAsTold`, for any windows of whole zones, tiles, costs and number of things. What
    sorting a stack and the shift of all stacks in one array do is said of every thing at once: each is on the
    list as often as before (`SortedKeeps`), each stack that stays is at its new place and was not overwritten before it
    was moved (`MovedInPlace`). A count names a thing by its id and its old number, a removal by its id alone, and
    each takes the first that fits; it is the right one because a tile has one pile of an id (`OnePileInv`). That windows
    begin at zones is an assumption of the code's REBUILD_NORMAL (`ObjStacksAssumption`); the move of the window
    was found to rest on it when it was proved.

- `Devices_proof`: one argument for each part of `Devices`.
  - *Input tracking*, `TypeOK` and `NoneIsLost`, for any buffer and sizes of events as long as one update
    tracks fewer bytes than the buffer holds (`InputTrackingAssumption`; the controller makes
    a few events an update, the buffer has 500 bytes). While a buffer is put aside, the other
    one holds what the same update tracked and no more (`AsideInv`).
  - *Controllers*, `NothingSticks`, for any number of controllers and keys. With the types it is inductive
    (`PadInv`); the step that matters is the poll's look at the selected controller, which releases what it
    does not hold (`LookAtKeeps`).
  - *Discovery*, `OneComputer` and `CodesAreCurrent`, for any number of Xboxes, computers, logins and
    restarts. An Xbox that asks has heard its last answer's computer only (`AskInv`); what is on its way was
    asked since the Xbox was started (`RequestInv`), so that no list has another code of it (`CodeInv`).
    The sets of Xboxes and computers are finite.
  - *Music*, `RightSound`, for any disc and number of effects: what plays was asked for last while there
    is a disc and the player wants it (`SilentInv`, `SongInv`), and the newest effects are where the ring
    put them (`RingInv`).
  - *Private messages*, `ReadsAsWritten`, for any characters and texts of the table, and any number of
    messages that are remembered. A text is packed as half bytes and bytes; after each character the bytes so far,
    with the half that is carried, read as the text so far (`Reads`, one more character: `ReadsMore`), and a half
    left at the end reads as a blank (`LastHalf`). The numbers remembered are those of the last messages shown,
    each at its place in the ring (`RememberedInv`), so that a repeat is recognised.
  - *Icon cache*, `ImplementsIconCache`, for any icons, counts, certificates, number of buckets, capacity and nodes. A
    ring goes through the nodes of a list forth and back (`Rings`); to take a node off and to put one at the end
    are the list's operations (`UnlinkTakesOff`, `PushPutsAtEnd`), in whatever order the code assigns the
    links. The table has some of the nodes of the history, at most one of a key, each in the bucket of its key
    (`CacheOf`), so that a look-up finds the icon there is (`FoundIsCurrent`). Each step is then one of the list of icons
    in the order of their use, or a stutter (`LookedKeeps`, `RoomKeeps`, `NewKeeps`).

What a loop of the code computes is a recursive *function* of the number of its steps in these modules, and is proved
for every number of steps. The library's induction theorems cannot be used, since they take an operator as a parameter;
`Induction` gets the same from one that does not, the well-foundedness of "is a strict subset of" on finite
sets: of a set of numbers one is the least (`LeastNumber`), so a set that has 0 and with each number the
next has all of them (`AllNumbers`); and for any first value and any step there is a function that runs through
them (`Recursion`), so that what a recursive definition says of its steps holds of the function it chooses.

Proved and not among the runs' properties, since the proof says more than the instance:
`TypeOK` of the modules with proofs, `BufferHoldsOneField`, `InGameHasStream`,
`UpdateWithoutSessionIsMute`, `Bounded`.

Only model-checked are the liveness properties (`EveryPacketHandled`, `LossIsNoticed`, `LoginReturns`, `LockIsReleased`,
  `RequestIsHonoured`, `PlaceComesBack`, `DisposeEnds`, `AllIsCarried`, `Arrives`), since fairness and ENABLED are beyond the prover. Every invariant, every action property and both
refinements that a run checks are proved.

## 6. What is not modelled

Of the modelled components: opening a socket is one step; a partial `send` is
whole or failed (the code drops what was not taken, client.c:4640); each handler of a packet but those that end the session is
one step to the framing; RSA, TLS, XML and HTTP
are steps that succeed or fail; the preparation of a
copied world, a restore that fails half-way (WorldStore.cs:137) and the archive format
are not part of `ServerControl`; the relay mode (frpc) is not part of `Connection`.
`client_try_reconnect` without a stream (`::clientdrop` after a logout in the same update,
client.c:3878) is undefined in C and is an end state (`undefined`) of the model, as is
the use of a freed entity in `Entities`. A packet of more than 5000 bytes would overrun `in` (no check in
`client_read`); the server's are taken to be shorter.

Of the client's world: two dimensions are one line where the axes are treated alike
(`Entities`, `PathingEntity`, `SceneLocs`, `ObjStacks`); one level and one layer;
of the masks of an update the appearance and the forced movement; projectiles and spot
animations, which live for some cycles and are only drawn; wall decorations, the
range flags, which nobody reads, and the sides a loc cannot be used from (`forceapproach`).
A file of the map is there or not: its chunks are not told apart. A slide that takes no time divides by
zero (client.c:2112) and is left out. That an animation with a delay or of the walk-merging kinds holds an entity is one
choice of the environment. The server is taken to place the local player in its first packet after a login. The search keeps the tiles it
has not yet looked at from in a ring of 4000 places, which is taken to be long enough.

Of the things around the game: a finish of the tracking in the very update that put a
buffer aside drops that buffer (client.c:5249; `NoneIsLost` exempts it), and a session resumed in the update
that has written one into `out` (reply 15 sets `pos` to 0, client.c:7712) loses it; a jingle
with delay 0 never gives way to the track (client.c:5350), and MIDI_SONG of the track that waits behind a
jingle cancels its return (client.c:5108), both taken not to be sent; a model that is missing, for which the outlined
icon is not made after one of another count has left the table (objtype.c:129-139); icons that leave the cache
and the nodes of `linklist_free` are not freed (memory is not counted); the cursor's position and
the on-screen keyboard; the key ring of `gameshell.c`, which an Xbox without
a keyboard cannot fill; the pace of the loop (arithmetic over a clock).

Not modelled at all: rendering and scene geometry (arithmetic over large
arrays), decoders of archive records (data that is only read), interfaces and menus (each packet
assigns what it carries), sound synthesis, the chat filter and the base-37
names (pure string functions, applied alike on both sides), settings and profiles (one
writer), build and release tools, the back ends of other platforms, vendored
libraries. These are by far most of the lines of the repository, the rasteriser,
the decoders and the third-party headers above all, so the share of lines the map names is small
by nature; what has state, actors and an order of events is modelled.

## 7. Outlook

Done: the transport (ClientStream, PacketReader, PacketChannel, ClientSession), the
server's control, the network of Connect (RouterMapping, TcpService, Relay,
Connection, Discovery), the client's world (Entities, PathingEntity, SceneLocs,
ObjStacks, Walking) and what is around it (Controller, InputTracking, Music, Chat, Cache).

What a change of the code should bring with it: when `getPlayer` frees the player it
drops, `MCEntities.cfg` becomes a passing run; when `XboxDiscovery.DisposeAsync` no
longer passes on the failure of its loop, `StopWorks` holds and
`ForgottenAreOut` loses its exceptions. Worth adding then: FrpProcess beside `Connection`, a restore
that crashes half-way beside `ServerControl`. What is left to prove is liveness, with a prover that knows ENABLED; the invariants
it would start from are those of section 5.
