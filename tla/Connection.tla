------------------------------ MODULE Connection ------------------------------
(***************************************************************************)
(* The connection the window of Connect starts, watches and stops:         *)
(* StartDirect, StopDirect, RotateDirect, ForgetXboxes, CheckDirectStatus  *)
(* (connect/src/Connect.App/DirectConnection.cs), Work, StopConnection,    *)
(* CheckStatus and ClosingWindow                                           *)
(* (connect/src/Connect.App/MainWindow.xaml.cs).                           *)
(*                                                                         *)
(* One user-interface thread runs two activities that interleave at their  *)
(* awaits: the work of a button (busy allows one at a time) and the check  *)
(* of the status timer.  The parts of the connection run by themselves; a  *)
(* part whose loop has ended with an exception passes it on to whoever     *)
(* disposes of it (module TcpService), a router mapping is RouterMapping,  *)
(* the server of the world is ServerControl.                               *)
(***************************************************************************)
EXTENDS Integers, FiniteSets

CONSTANTS
  Breakable,         \* parts whose loop the network may make fail
  Expiring,          \* the certificate may come close to its end meanwhile
  MaxStarts,         \* bound: connections started
  MaxRotations,      \* bound: invitations replaced
  MaxWorldFailures,  \* bound: failures of the server scripts
  MaxChecks          \* bound: status checks

Parts == {"discovery", "login", "guest", "host", "gateway"}

ASSUME PartsAssumption == Breakable \subseteq Parts /\ Expiring \in BOOLEAN
ASSUME BoundsAssumption == {MaxStarts, MaxRotations, MaxWorldFailures, MaxChecks} \subseteq Nat

VARIABLES
  hosting,   \* a world is hosted here; otherwise a friend's is joined
  part,      \* of every part: "none", "inert" (made, not running), "up",
             \* "broken" (its loop has failed), "spent" (has thrown once)
  world,     \* runningWorld is set
  server,    \* the server of the world runs
  lease,     \* the router mapping
  healthy,   \* mappingHealthy
  identity,  \* the saved identity: its secret and its certificate
  hostKey,   \* what directHost was made with
  code,      \* what directInvitation tells a friend
  aged,      \* the certificate of the identity ends within seven days
  approved,  \* some Xbox is approved
  bridged,   \* an approved Xbox is logged in through the login bridge: "no", "yes"
             \* or, of a bridge that was dropped at work, "orphaned"
  job,       \* the work of a button: idle, start, stop or rotate
  step,      \* where it is
  closing,   \* the work was begun to close the window
  gone,      \* the window is closed
  check,     \* where the status check is
  current,   \* the connectionEpoch the check has read is still the present one
  told,      \* what directStatus tells about: the "present" connectionEpoch, a
             \* "former" one, or a "probe" that was begun in a former one
  counts     \* of every bounded kind of event, how many there were

keys == <<identity, hostKey, code, aged>>
xbox == <<approved, bridged>>
work == <<job, step, closing, gone>>
checking == <<check, current>>
vars == <<hosting, part, world, server, lease, healthy, keys, xbox, work, checking, told, counts>>

NoKey == [secret |-> 0, certificate |-> 0]
Active == world \/ \E p \in {"discovery", "guest", "host", "gateway"} : part[p] # "none"

Init ==
  /\ hosting \in BOOLEAN
  /\ part = [p \in Parts |-> "none"]
  /\ world = FALSE /\ server = FALSE /\ lease = FALSE /\ healthy = FALSE
  /\ identity = [secret |-> 1, certificate |-> 1] /\ hostKey = NoKey /\ code = NoKey
  /\ aged = FALSE /\ approved = FALSE /\ bridged = "no"
  /\ job = "idle" /\ step = "none" /\ closing = FALSE /\ gone = FALSE
  /\ check = "idle" /\ current = FALSE /\ told = "present"
  /\ counts = [starts |-> 0, rotations |-> 0, failures |-> 0, checks |-> 0]

Happens(event, max) ==
  /\ counts[event] < max
  /\ counts' = [counts EXCEPT ![event] = @ + 1]

(***************************************************************************)
(* What happens to the parts by themselves.                                *)
(***************************************************************************)

\* An accept or a receive throws although nobody is stopping.
Break(p) ==
  /\ p \in Breakable /\ part[p] = "up"
  /\ part' = [part EXCEPT ![p] = "broken"]
  /\ UNCHANGED <<hosting, world, server, lease, healthy, keys, xbox, work, checking, told, counts>>

\* The settings of an active connection cannot be changed.
ChooseMode ==
  /\ job = "idle" /\ ~gone /\ ~Active
  /\ hosting' = ~hosting
  /\ UNCHANGED <<part, world, server, lease, healthy, keys, xbox, work, checking, told, counts>>

\* An Xbox is approved (PairXbox), and logs in and out.
Pair ==
  /\ job = "idle" /\ ~gone /\ part["discovery"] # "none" /\ ~approved
  /\ approved' = TRUE
  /\ UNCHANGED <<hosting, part, world, server, lease, healthy, keys, bridged, work, checking, told, counts>>

XboxLogin ==
  /\ approved /\ part["login"] = "up" /\ bridged # "yes"
  /\ bridged' = "yes"
  /\ UNCHANGED <<hosting, part, world, server, lease, healthy, keys, approved, work, checking, told, counts>>

XboxLogout ==
  /\ bridged # "no"
  /\ bridged' = "no"
  /\ UNCHANGED <<hosting, part, world, server, lease, healthy, keys, approved, work, checking, told, counts>>

\* Bound: once.
Age ==
  /\ Expiring /\ ~aged /\ identity.certificate = 1
  /\ aged' = TRUE
  /\ UNCHANGED <<hosting, part, world, server, lease, healthy, identity, hostKey, code, xbox, work, checking, told, counts>>

(***************************************************************************)
(* The work of a button.                                                   *)
(***************************************************************************)

\* The Notice is an error, or that all is well; the parts stay as they are.
EndWork == job' = "idle" /\ step' = "none" /\ closing' = FALSE /\ UNCHANGED gone

Goto(next) == step' = next /\ UNCHANGED <<job, closing, gone>>

\* connectionEpoch++: what was read of it, or written of it, is old.
NewEpoch == current' = FALSE /\ told' = "former"

\* The catch of StartDirect: StopConnection, then the exception goes on.
Recover ==
  /\ job' = "stop" /\ step' = "discovery" /\ NewEpoch
  /\ UNCHANGED <<check, closing, gone>>

BeginStart ==
  /\ job = "idle" /\ ~gone /\ ~Active /\ Happens("starts", MaxStarts)
  /\ NewEpoch
  /\ job' = "start" /\ step' = IF hosting THEN "world" ELSE "probe"
  /\ world' = hosting
  /\ UNCHANGED <<hosting, part, server, lease, healthy, keys, xbox, closing, gone, check>>

\* Seeded fault: the world is remembered when its start has succeeded.
StartWorldUnremembered ==
  /\ step = "world"
  /\ \/ /\ server' = TRUE /\ world' = TRUE
        /\ \E s \in {"up", "inert"} : part' = [part EXCEPT !["gateway"] = s]
        /\ IF part'["gateway"] = "up" THEN Goto("discover") /\ UNCHANGED <<checking, told>> ELSE Recover
        /\ UNCHANGED counts
     \/ /\ Happens("failures", MaxWorldFailures) /\ server' \in BOOLEAN /\ world' = FALSE
        /\ Recover /\ UNCHANGED part
  /\ UNCHANGED <<hosting, lease, healthy, keys, xbox>>

\* store.Start, which may fail with or without a server, then the gateway, whose
\* port may be taken.
StartWorld ==
  /\ step = "world"
  /\ \/ /\ server' = TRUE
        /\ \E s \in {"up", "inert"} : part' = [part EXCEPT !["gateway"] = s]
        /\ IF part'["gateway"] = "up" THEN Goto("discover") /\ UNCHANGED <<checking, told>> ELSE Recover
        /\ UNCHANGED counts
     \/ /\ Happens("failures", MaxWorldFailures) /\ server' \in BOOLEAN
        /\ Recover /\ UNCHANGED part
  /\ UNCHANGED <<hosting, world, lease, healthy, keys, xbox>>

\* The way to the friend's world is tried before it is offered to the Xboxes.
StartProbe ==
  /\ step = "probe"
  /\ \/ /\ part' = [part EXCEPT !["guest"] = "up"] /\ told' = "present"
        /\ Goto("discover") /\ UNCHANGED checking
     \/ /\ part' \in {part, [part EXCEPT !["guest"] = "inert"]}
        /\ Recover
  /\ UNCHANGED <<hosting, world, server, lease, healthy, keys, xbox, counts>>

\* Discovery listens for the Xboxes; a connection that does not go to the
\* internet is complete.
StartDiscovery ==
  /\ step = "discover"
  /\ \/ /\ part' = [part EXCEPT !["discovery"] = "up", !["login"] = "up"]
        /\ UNCHANGED checking
        /\ \/ EndWork /\ told' = "present"
           \/ hosting /\ Goto("router") /\ UNCHANGED told
     \/ /\ part' = [part EXCEPT !["discovery"] = "inert", !["login"] = "inert"]
        /\ Recover
  /\ UNCHANGED <<hosting, world, server, lease, healthy, keys, xbox, counts>>

\* Identity: a certificate that ends within seven days is replaced, with its
\* secret.
Renewed == IF aged THEN [secret |-> identity.secret + 1, certificate |-> 2] ELSE identity

\* directHost listens behind the router; or its port is taken, or no router is
\* found, and the world remains available on the local network; or something
\* else goes wrong, and the whole connection with it.
StartRouter ==
  /\ step = "router"
  /\ \/ /\ identity' = Renewed /\ aged' = FALSE /\ hostKey' = Renewed
        /\ \E s \in {"up", "inert"} : part' = [part EXCEPT !["host"] = s]
        /\ IF part'["host"] = "up" THEN Goto("map") /\ UNCHANGED told ELSE EndWork /\ told' = "present"
        /\ UNCHANGED checking
     \/ /\ UNCHANGED <<identity, aged, hostKey, part>>
        /\ \/ EndWork /\ told' = "present" /\ UNCHANGED checking
           \/ Recover
  /\ UNCHANGED <<hosting, world, server, lease, healthy, code, xbox, counts>>

\* The mapping is made, unless it fails; an invitation that cannot be used (its
\* address is not public) ends the whole connection.
StartMapping ==
  /\ step = "map"
  /\ \/ lease' = TRUE /\ healthy' = TRUE /\ code' = identity /\ EndWork /\ told' = "present" /\ UNCHANGED checking
     \/ UNCHANGED <<lease, healthy, code>> /\ EndWork /\ told' = "present" /\ UNCHANGED checking
     \/ lease' = TRUE /\ code' = identity /\ UNCHANGED healthy /\ Recover
  /\ UNCHANGED <<hosting, part, world, server, identity, hostKey, aged, xbox, counts>>

(***************************************************************************)
(* StopConnection.                                                         *)
(***************************************************************************)

\* The Stop button, the window that closes, or ForgetXboxes, which has cleared
\* the approvals before.
BeginStop ==
  /\ job = "idle" /\ ~gone /\ Active
  /\ job' = "stop" /\ step' = "discovery" /\ NewEpoch /\ UNCHANGED <<check, gone>>
  /\ \/ closing' \in BOOLEAN /\ UNCHANGED approved
     \/ part["discovery"] # "none" /\ approved' = FALSE /\ closing' = FALSE
  /\ UNCHANGED <<hosting, part, world, server, lease, healthy, keys, bridged, counts>>

\* Seeded fault: the bridge of the Xboxes is left to end by itself.
StopDiscoveryKeepingLogin ==
  /\ job = "stop" /\ step = "discovery"
  /\ IF part["discovery"] = "broken"
     THEN EndWork /\ UNCHANGED <<part, bridged>>
     ELSE part' = [part EXCEPT !["discovery"] = "none", !["login"] = "none"] /\ UNCHANGED bridged /\ Goto("guest")
  /\ UNCHANGED <<hosting, world, server, lease, healthy, keys, approved, checking, told, counts>>

\* XboxDiscovery.DisposeAsync: the exception of the receive loop comes first,
\* every time; the login service throws once.
StopDiscovery ==
  /\ job = "stop" /\ step = "discovery"
  /\ \/ /\ part["discovery"] = "broken"
        /\ EndWork /\ UNCHANGED <<part, bridged>>
     \/ /\ part["discovery"] # "broken" /\ part["login"] = "broken"
        /\ part' = [part EXCEPT !["login"] = "spent"]
        /\ bridged' \in {bridged, "no"} /\ EndWork
     \/ /\ part["discovery"] # "broken" /\ part["login"] # "broken"
        /\ part' = [part EXCEPT !["discovery"] = "none", !["login"] = "none"]
        /\ bridged' = IF part["login"] = "spent" /\ bridged = "yes" THEN "orphaned" ELSE "no"
        /\ Goto("guest")
  /\ UNCHANGED <<hosting, world, server, lease, healthy, keys, approved, checking, told, counts>>

\* directGuest and directHost: a TcpService throws once.
StopService(p, next) ==
  /\ job = "stop" /\ step = p
  /\ \/ part[p] = "broken" /\ part' = [part EXCEPT ![p] = "spent"] /\ EndWork
     \/ part[p] # "broken" /\ part' = [part EXCEPT ![p] = "none"] /\ Goto(next)
  /\ UNCHANGED <<hosting, world, server, lease, healthy, keys, xbox, checking, told, counts>>

\* The router mapping; that its removal was not confirmed is only a note.
StopMapping ==
  /\ step = "lease"
  /\ lease' = FALSE /\ healthy' = FALSE /\ code' = NoKey /\ hostKey' = NoKey /\ told' = "present"
  /\ Goto("gateway")
  /\ UNCHANGED <<hosting, part, world, server, identity, aged, xbox, checking, counts>>

\* A Gateway whose loop has failed throws every time.
StopGateway ==
  /\ job = "stop" /\ step = "gateway"
  /\ \/ part["gateway"] = "broken" /\ UNCHANGED part /\ EndWork
     \/ part["gateway"] # "broken" /\ part' = [part EXCEPT !["gateway"] = "none"] /\ Goto("server")
  /\ UNCHANGED <<hosting, world, server, lease, healthy, keys, xbox, checking, told, counts>>

\* store.Stop, when a world is running here; all other parts are gone, and a
\* window that was to be closed is closed.
StopWorld ==
  /\ step = "server"
  /\ \/ world /\ server' = FALSE /\ world' = FALSE /\ UNCHANGED counts
     \/ world /\ Happens("failures", MaxWorldFailures) /\ UNCHANGED <<world, server>>
     \/ ~world /\ UNCHANGED <<world, server, counts>>
  /\ job' = "idle" /\ step' = "none" /\ closing' = FALSE /\ gone' = (closing /\ ~world')
  /\ UNCHANGED <<hosting, part, lease, healthy, keys, xbox, checking, told>>

(***************************************************************************)
(* RotateDirect.                                                           *)
(***************************************************************************)

BeginRotate ==
  /\ job = "idle" /\ ~gone /\ hosting /\ Happens("rotations", MaxRotations)
  /\ identity' = [Renewed EXCEPT !.secret = @ + 1] /\ aged' = FALSE
  /\ job' = "rotate" /\ step' = "rotate" /\ UNCHANGED <<closing, gone>>
  /\ UNCHANGED <<hosting, part, world, server, lease, healthy, hostKey, code, xbox, checking, told>>

\* Seeded fault: the code that is shown stays what it was.
RotateHostKeepingCode ==
  /\ step = "rotate"
  /\ \/ part["host"] = "none" /\ UNCHANGED <<part, hostKey, code>>
     \/ part["host"] = "broken" /\ part' = [part EXCEPT !["host"] = "spent"] /\ UNCHANGED <<hostKey, code>>
     \/ /\ part["host"] \in {"up", "inert", "spent"}
        /\ hostKey' = [hostKey EXCEPT !.secret = identity.secret]
        /\ part' = [part EXCEPT !["host"] = "up"] /\ UNCHANGED code
  /\ EndWork
  /\ UNCHANGED <<hosting, world, server, lease, healthy, identity, aged, xbox, checking, told, counts>>

\* The old host goes, with the sessions of the old secret; the new one has the
\* new secret and the certificate the connection was started with.
RotateHost ==
  /\ step = "rotate"
  /\ \/ part["host"] = "none" /\ UNCHANGED <<part, hostKey, code>>
     \/ part["host"] = "broken" /\ part' = [part EXCEPT !["host"] = "spent"] /\ UNCHANGED <<hostKey, code>>
     \/ /\ part["host"] \in {"up", "inert", "spent"}
        /\ hostKey' = [hostKey EXCEPT !.secret = identity.secret]
        /\ \/ part' = [part EXCEPT !["host"] = "up"] /\ code' = IF lease THEN identity ELSE code
           \/ part' = [part EXCEPT !["host"] = "inert"] /\ UNCHANGED code
  /\ EndWork
  /\ UNCHANGED <<hosting, world, server, lease, healthy, identity, aged, xbox, checking, told, counts>>

(***************************************************************************)
(* CheckStatus and CheckDirectStatus.                                      *)
(***************************************************************************)

\* The timer finds nothing under way.  A PC address that is gone is noticed at
\* once; then the lease is renewed when it is time.
BeginCheck ==
  /\ job = "idle" /\ ~gone /\ Active /\ check = "idle" /\ Happens("checks", MaxChecks)
  /\ current' = TRUE
  /\ \/ UNCHANGED <<healthy, told>>
     \/ healthy' = FALSE /\ told' = "present"
  /\ \/ lease /\ healthy' /\ check' = "renew"
     \/ check' = IF hosting THEN "game" ELSE "probe"
     \/ ~hosting /\ check' = "idle"                   \* not time to probe yet
  /\ UNCHANGED <<hosting, part, world, server, lease, keys, xbox, work>>

\* Seeded fault: a renewal of an earlier connection speaks for this one.
CheckRenewalUntested ==
  /\ check = "renew"
  /\ \/ check' = "game" /\ UNCHANGED <<healthy, told>>
     \/ check' = "game" /\ healthy' = FALSE /\ told' = IF current THEN "present" ELSE "former"
  /\ UNCHANGED <<hosting, part, world, server, lease, keys, xbox, work, current, counts>>

CheckRenewal ==
  /\ check = "renew"
  /\ \/ check' = "game" /\ UNCHANGED <<healthy, told>>
     \/ ~current /\ check' = "idle" /\ UNCHANGED <<healthy, told>>
     \/ current /\ check' = "game" /\ healthy' = FALSE /\ told' = "present"
  /\ UNCHANGED <<hosting, part, world, server, lease, keys, xbox, work, current, counts>>

\* The game answers or not; of a connection that is still the same, the window
\* shows it.
CheckGame ==
  /\ check = "game"
  /\ check' = "idle" /\ told' = IF current THEN "present" ELSE told
  /\ UNCHANGED <<hosting, part, world, server, lease, healthy, keys, xbox, work, current, counts>>

\* The friend's world answers or not; what directStatus says of it is written
\* before the epoch is looked at.
CheckProbe ==
  /\ check = "probe"
  /\ check' = "idle" /\ told' = IF current THEN "present" ELSE "probe"
  /\ UNCHANGED <<hosting, part, world, server, lease, healthy, keys, xbox, work, current, counts>>

StartSteps == StartWorld \/ StartProbe \/ StartDiscovery \/ StartRouter \/ StartMapping
StopSteps ==
  \/ StopDiscovery \/ StopService("guest", "host") \/ StopService("host", "lease")
  \/ StopMapping \/ StopGateway \/ StopWorld
CheckSteps == CheckRenewal \/ CheckGame \/ CheckProbe

\* ClosingWindow of an application without a connection.
Close ==
  /\ job = "idle" /\ ~gone /\ ~Active
  /\ gone' = TRUE
  /\ UNCHANGED <<hosting, part, world, server, lease, healthy, keys, xbox, job, step, closing, checking, told, counts>>

\* The window is closed, or the connection runs and nobody does anything.
Rest == (gone \/ Active) /\ UNCHANGED vars

Next ==
  \/ (\E p \in Parts : Break(p))
  \/ ChooseMode
  \/ Pair \/ XboxLogin \/ XboxLogout \/ Age
  \/ BeginStart \/ BeginStop \/ BeginRotate
  \/ StartSteps \/ StopSteps \/ RotateHost
  \/ BeginCheck \/ CheckSteps
  \/ Close \/ Rest

Spec == Init /\ [][Next]_vars

\* Every await of the work and of the check ends: the calls have time limits.
\* Whoever wants the connection stopped presses the button as often as it takes.
FairSpec ==
  /\ Spec
  /\ WF_vars(StartSteps) /\ WF_vars(StopSteps) /\ WF_vars(RotateHost) /\ WF_vars(CheckSteps)
  /\ SF_vars(BeginStop)

(***************************************************************************)
(* Properties.                                                             *)
(***************************************************************************)

Keys == [secret : Nat, certificate : {0, 1, 2}]

\* The variables have their types; only a TcpService can be spent, and the window
\* is busy exactly while a button's work is at one of its steps.
TypeOK ==
  /\ part \in [Parts -> {"none", "inert", "up", "broken", "spent"}]
  /\ \A p \in {"discovery", "gateway"} : part[p] # "spent"
  /\ {hosting, world, server, lease, healthy, aged, approved, closing, gone} \subseteq BOOLEAN
  /\ bridged \in {"no", "yes", "orphaned"}
  /\ {identity, hostKey, code} \subseteq Keys
  /\ job \in {"idle", "start", "stop", "rotate"} /\ (job = "idle" <=> step = "none")
  /\ step \in {"none", "world", "probe", "discover", "router", "map", "rotate"}
           \cup {"discovery", "guest", "host", "lease", "gateway", "server"}
  /\ check \in {"idle", "renew", "game", "probe"}
  /\ current \in BOOLEAN /\ told \in {"present", "former", "probe"}

\* No server runs that the application does not know of, and none outlives its
\* window, whatever fails while it is started or stopped.
NoServerForgotten == (server => world) /\ (gone => ~server)

CanCopy == job = "idle" /\ code # NoKey /\ lease /\ healthy

\* "Copy the new invitation for friends" (DirectConnection.cs:143): a code that
\* can be copied is not one that the host, when it listens, refuses.
CodeOpensHost == CanCopy /\ part["host"] = "up" => hostKey = code

\* Its secret, at least, is the one the host knows, whatever was rotated, renewed or
\* failed before (DirectConnection.cs:126-137).
SecretOpensHost == CanCopy /\ part["host"] = "up" => hostKey.secret = code.secret

\* "Forget allowed Xboxes clears approvals and stops existing sessions"
\* (docs/ONLINE-DIRECT.md:64), unless the loop of discovery or of the login service
\* has failed.
ForgottenAreOut ==
  job = "idle" /\ ~approved /\ part["discovery"] # "broken" /\ part["login"] # "spent"
    => bridged # "yes"

Intact == part["discovery"] = "up" /\ \A p \in Parts : part[p] \notin {"broken", "spent"}

\* Once a button's work is done, directStatus tells of the present connection and
\* not of a former one, unless a part has failed or a stop has; only the result of
\* a probe that a former connection began may overwrite it
\* (DirectConnection.cs:163-165).
StatusIsCurrent == job = "idle" /\ Active /\ Intact => told # "former"

\* "Use Stop and save [...] Connect closes sessions, removes its own router
\* mapping, and uses the existing server save/shutdown mechanism"
\* (docs/ONLINE-DIRECT.md:69): who asks often enough gets it stopped.
StopWorks == Active ~> ~Active

=============================================================================
