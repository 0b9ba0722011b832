---------------------------- MODULE ServerControl ---------------------------
(***************************************************************************)
(* Control of the world server: the commands that start it, stop it,       *)
(* configure it and copy it, and the wrapper the server runs under         *)
(* (src/server-package/scripts, Server225/run-local.ts, and the copies     *)
(* made by connect/src/Connect.Core/WorldStore.cs).                        *)
(*                                                                         *)
(* The commands are processes of their own that any user may open, close   *)
(* or kill at any time.  They agree through files in the runtime folder    *)
(* only: a lock file, the record of the server's process, and of every run *)
(* its stop request and its status.  The lock dies with its command, the   *)
(* other files do not, and a write of them may be cut short.               *)
(***************************************************************************)
EXTENDS Integers, FiniteSets

CONSTANTS
  Commands,      \* windows in which a command can run
  NoOne,         \* nobody holds the lock
  Pids,          \* process identifiers of the system
  MaxRuns,       \* bound: servers ever launched
  MaxCrashes,    \* bound: commands closed before their end
  MaxSetups      \* bound: setup helpers at a time

ASSUME ConstantsAssumption ==
  /\ NoOne \notin Commands
  /\ MaxRuns \in Nat /\ MaxCrashes \in Nat /\ MaxSetups \in Nat

Runs == 1..MaxRuns      \* in the order of their launch: a run's start time

VARIABLES
  op,         \* of each command: what it is
  at,         \* of each command: how far it is
  mine,       \* of each command: the record it works with
  said,       \* what the command that ended last reported
  lock,       \* server-control.lock: who has it open
  record,     \* server-process.json
  request,    \* of each run: server-<run>.stop-request
  status,     \* of each run: server-<run>.status.json
  server,     \* of each run: its process
  pid,        \* of each run: its process identifier
  stopSent,   \* of each run: stopSent of run-local.ts
  asked,      \* of each run: the engine's SIGTERM handler was called
  saved,      \* of each run: it was asked to stop and then exited with code 0
  foreign,    \* identifiers in use by other programs
  setups,     \* initialize-server.mjs helpers running
  crashes     \* commands closed so far

files == <<record, request>>
run == <<status, server, pid, stopSent, asked, saved>>
world == <<foreign, setups, crashes>>
command == <<op, at, mine, said, lock>>
controlVars == <<command, files, run, world>>

NoRecord == [run |-> 0, pid |-> 0]
Torn == [run |-> -1, pid |-> 0]        \* a file that was being written
Absent == "none"

Ops == {"start", "stop", "configure", "assert", "backup"}

ControlInit ==
  /\ op = [c \in Commands |-> Absent] /\ at = [c \in Commands |-> "idle"]
  /\ mine = [c \in Commands |-> NoRecord]
  /\ said = Absent
  /\ lock = NoOne /\ record = NoRecord
  /\ request = [r \in Runs |-> Absent] /\ status = [r \in Runs |-> Absent]
  /\ server = [r \in Runs |-> "unborn"] /\ pid = [r \in Runs |-> 0]
  /\ stopSent = [r \in Runs |-> FALSE] /\ asked = [r \in Runs |-> FALSE]
  /\ saved = [r \in Runs |-> FALSE]
  /\ foreign = {} /\ setups = 0 /\ crashes = 0

(***************************************************************************)
(* What the commands ask of the system.                                    *)
(***************************************************************************)

Alive == {r \in Runs : server[r] \notin {"unborn", "gone"}}

FreePids == Pids \ (foreign \cup {pid[r] : r \in Alive})

\* Seeded fault: a process is recognised by its identifier alone.
RecordedProcessByPid(rec) ==
  \/ rec.pid \in foreign
  \/ \E r \in Alive : pid[r] = rec.pid

\* Get-RS2RecordedProcess: identifier, start time and paths must agree, and
\* two processes with one identifier never have one start time.
RecordedProcess(rec) == \E r \in Alive : r = rec.run /\ pid[r] = rec.pid

\* Get-RS2WrapperProcesses: every bun that runs this folder's run-local.ts.
WrapperProcesses == Alive

(***************************************************************************)
(* Steps that the commands share.                                          *)
(***************************************************************************)

Goto(c, where) == at' = [at EXCEPT ![c] = where]

\* The end of a command: the finally blocks dispose of the lock.
Return(c, what) ==
  /\ Goto(c, "idle")
  /\ op' = [op EXCEPT ![c] = Absent] /\ mine' = [mine EXCEPT ![c] = NoRecord]
  /\ said' = what
  /\ lock' = NoOne

\* Open-RS2ControlLock.  A command that finds the file open throws: it has
\* then done nothing.  A backup opens the lock twice: its first check runs in
\* a helper (Assert-Stopped.ps1) that lets the lock go again.
OpenLock(c) ==
  /\ lock = NoOne
  /\ lock' = c
  /\ Goto(c, "lookup")
  /\ said' = Absent
  /\ mine' = [mine EXCEPT ![c] = NoRecord]
  /\ \/ /\ at[c] = "idle"
        /\ \E o \in Ops \ {"backup"} : op' = [op EXCEPT ![c] = o]
     \/ /\ at[c] = "asserted"
        /\ op' = [op EXCEPT ![c] = "backup"]
  /\ UNCHANGED <<files, run, world>>

\* The copy's own Lock finds the file open: its constructor throws.
LockDenied(c) ==
  /\ at[c] = "asserted" /\ lock # NoOne
  /\ Goto(c, "idle")
  /\ op' = [op EXCEPT ![c] = Absent]
  /\ UNCHANGED <<mine, said, lock, files, run, world>>

\* Read-RS2Record and Get-RS2RecordedProcess.  A record cut short either
\* cannot be parsed, and the command throws, or reads as no record.
LookUp(c) ==
  /\ at[c] = "lookup"
  /\ \/ /\ record # Torn
        /\ mine' = [mine EXCEPT ![c] = record]
        /\ Goto(c, IF RecordedProcess(record) THEN "found" ELSE "orphans")
        /\ UNCHANGED <<op, said, lock>>
     \/ /\ record = Torn
        /\ Goto(c, "orphans")
        /\ UNCHANGED <<op, mine, said, lock>>
     \/ /\ record = Torn
        /\ Return(c, "failed")
  /\ UNCHANGED <<files, run, world>>

\* Seeded fault: a server without a record is not looked for.
LookForOrphansNever(c) ==
  /\ at[c] = "orphans"
  /\ Goto(c, "none")
  /\ UNCHANGED <<op, mine, said, lock, files, run, world>>

\* A server without a matching record makes every command throw.
LookForOrphans(c) ==
  /\ at[c] = "orphans"
  /\ \/ /\ WrapperProcesses = {}
        /\ Goto(c, "none")
        /\ UNCHANGED <<op, mine, said, lock>>
     \/ /\ WrapperProcesses # {}
        /\ Return(c, "failed")
  /\ UNCHANGED <<files, run, world>>

\* The window is closed: the system closes the lock file with it.
Crash(c) ==
  /\ at[c] # "idle" /\ crashes < MaxCrashes
  /\ crashes' = crashes + 1
  /\ Goto(c, "idle")
  /\ op' = [op EXCEPT ![c] = Absent] /\ mine' = [mine EXCEPT ![c] = NoRecord]
  /\ lock' = IF lock = c THEN NoOne ELSE lock
  /\ UNCHANGED <<said, files, run, foreign, setups>>

(***************************************************************************)
(* Start-RS2-Server.ps1                                                    *)
(***************************************************************************)

Launch(c, r, p) ==
  /\ op[c] = "start" /\ at[c] = "none"
  /\ server[r] = "unborn" /\ \A q \in Runs : q < r => server[q] # "unborn"
  /\ p \in FreePids
  /\ server' = [server EXCEPT ![r] = "booting"]
  /\ pid' = [pid EXCEPT ![r] = p]
  /\ mine' = [mine EXCEPT ![c] = [run |-> r, pid |-> p]]
  /\ Goto(c, "launched")
  /\ UNCHANGED <<op, said, lock, files, status, stopSent, asked, saved, world>>

BeginRecord(c) ==
  /\ at[c] = "launched"
  /\ record' = Torn
  /\ Goto(c, "recording")
  /\ UNCHANGED <<op, mine, said, lock, request, run, world>>

EndRecord(c) ==
  /\ at[c] = "recording"
  /\ record' = mine[c]
  /\ Goto(c, "starting")
  /\ UNCHANGED <<op, mine, said, lock, request, run, world>>

StartFound(c) ==
  /\ op[c] = "start" /\ at[c] = "found"
  /\ Goto(c, "starting")
  /\ UNCHANGED <<op, mine, said, lock, files, run, world>>

\* One round of the wait: the process, its status, a connection to it.
StartLooks(c) ==
  /\ at[c] = "starting"
  /\ \/ RecordedProcess(mine[c]) /\ Goto(c, "status") /\ UNCHANGED <<op, mine, said, lock>>
     \/ ~RecordedProcess(mine[c]) /\ Return(c, "failed")
  /\ UNCHANGED <<files, run, world>>

StartReadsStatus(c) ==
  /\ at[c] = "status"
  /\ LET seen == status[mine[c].run]
     IN  \/ seen = "stopping" /\ Return(c, "failed")
         \/ /\ seen # "stopping"
            /\ Goto(c, IF seen = "ready" THEN "probe" ELSE "late")
            /\ UNCHANGED <<op, mine, said, lock>>
  /\ UNCHANGED <<files, run, world>>

\* Test-RS2GameReady: whoever listens on the port answers eight bytes in time,
\* or the wait goes on.
StartProbes(c) ==
  /\ at[c] = "probe"
  /\ \/ (\E r \in Alive : server[r] = "loaded") /\ Return(c, "ready")
     \/ Goto(c, "late") /\ UNCHANGED <<op, mine, said, lock>>
  /\ UNCHANGED <<files, run, world>>

\* The deadline is looked at after each round: another one, or give up.
Retry(c) ==
  /\ at[c] = "late"
  /\ Goto(c, IF op[c] = "start" THEN "starting" ELSE "stopping")
  /\ UNCHANGED <<op, mine, said, lock, files, run, world>>

\* Seeded fault: a stop waits until the server is gone, however long it takes.
GiveUpOfStart(c) ==
  /\ at[c] = "late" /\ op[c] = "start"
  /\ Return(c, "failed")
  /\ UNCHANGED <<files, run, world>>

GiveUp(c) ==
  /\ at[c] = "late"
  /\ Return(c, "failed")
  /\ UNCHANGED <<files, run, world>>

(***************************************************************************)
(* Stop-RS2-Server.ps1                                                     *)
(***************************************************************************)

StopNothing(c) ==
  /\ op[c] = "stop" /\ at[c] = "none"
  /\ Return(c, "notRunning")
  /\ UNCHANGED <<files, run, world>>

BeginRequest(c) ==
  /\ op[c] = "stop" /\ at[c] = "found"
  /\ request' = [request EXCEPT ![mine[c].run] = "torn"]
  /\ Goto(c, "requesting")
  /\ UNCHANGED <<op, mine, said, lock, record, run, world>>

EndRequest(c) ==
  /\ at[c] = "requesting"
  /\ request' = [request EXCEPT ![mine[c].run] = "full"]
  /\ Goto(c, "late")
  /\ UNCHANGED <<op, mine, said, lock, record, run, world>>

StopLooks(c) ==
  /\ at[c] = "stopping"
  /\ Goto(c, IF RecordedProcess(mine[c]) THEN "late" ELSE "stopped")
  /\ UNCHANGED <<op, mine, said, lock, files, run, world>>

StopReports(c) ==
  /\ at[c] = "stopped"
  /\ Return(c, IF status[mine[c].run] = "stopped" THEN "clean" ELSE "failed")
  /\ UNCHANGED <<files, run, world>>

(***************************************************************************)
(* Configure-Server.ps1: the setup helper writes keys, options and the     *)
(* database of the world.  A helper past its time is killed by the command *)
(* that waits for it; if the command is gone, nobody does.                 *)
(***************************************************************************)

ConfigureRefused(c) ==
  /\ op[c] = "configure" /\ at[c] = "found"
  /\ Return(c, "failed")
  /\ UNCHANGED <<files, run, world>>

BeginSetup(c) ==
  /\ op[c] = "configure" /\ at[c] = "none" /\ setups < MaxSetups
  /\ setups' = setups + 1
  /\ Goto(c, "setup")
  /\ UNCHANGED <<op, mine, said, lock, files, run, foreign, crashes>>

\* A check before the helper fails, or the helper cannot be started.
SetupFails(c) ==
  /\ op[c] = "configure" /\ at[c] = "none"
  /\ Return(c, "failed")
  /\ UNCHANGED <<files, run, world>>

EndSetup(c) ==
  /\ at[c] = "setup"
  /\ setups' = setups - 1
  /\ Return(c, "configured")
  /\ UNCHANGED <<files, run, foreign, crashes>>

\* A helper whose command was closed comes to its end.
OrphanedSetupEnds ==
  /\ setups > Cardinality({c \in Commands : at[c] = "setup"})
  /\ setups' = setups - 1
  /\ UNCHANGED <<command, files, run, foreign, crashes>>

(***************************************************************************)
(* WorldStore.Create and Backup: ask, lock, ask again, copy.               *)
(***************************************************************************)

CopyRefused(c) ==
  /\ op[c] \in {"assert", "backup"} /\ at[c] = "found"
  /\ Return(c, "failed")
  /\ UNCHANGED <<files, run, world>>

\* Seeded fault: the answer of the first check is still good enough.
AssertedCopies(c) ==
  /\ op[c] = "assert" /\ at[c] = "none"
  /\ op' = [op EXCEPT ![c] = "backup"]
  /\ Goto(c, "copy")
  /\ lock' = NoOne
  /\ UNCHANGED <<mine, said, files, run, world>>

Asserted(c) ==
  /\ op[c] = "assert" /\ at[c] = "none"
  /\ Goto(c, "asserted")
  /\ lock' = NoOne
  /\ UNCHANGED <<op, mine, said, files, run, world>>

BeginCopy(c) ==
  /\ op[c] = "backup" /\ at[c] = "none"
  /\ Goto(c, "copy")
  /\ UNCHANGED <<op, mine, said, lock, files, run, world>>

EndCopy(c) ==
  /\ at[c] = "copy"
  /\ Return(c, "copied")
  /\ UNCHANGED <<files, run, world>>

(***************************************************************************)
(* run-local.ts, and the engine inside it.                                 *)
(***************************************************************************)

Boot(r) ==
  /\ server[r] = "booting"
  /\ server' = [server EXCEPT ![r] = "loading"]
  /\ status' = [status EXCEPT ![r] = "starting"]
  /\ UNCHANGED <<command, files, pid, stopSent, asked, saved, world>>

\* The import of app.ts returns: it has registered its SIGTERM handler.
Load(r) ==
  /\ server[r] = "loading"
  /\ server' = [server EXCEPT ![r] = "loaded"]
  /\ status' = [status EXCEPT ![r] = "ready"]
  /\ UNCHANGED <<command, files, pid, stopSent, asked, saved, world>>

\* process.emit('SIGTERM'): heard only if a handler is registered.
Emit(r) == asked' = [asked EXCEPT ![r] = server[r] = "loaded"]

\* Seeded fault: requests are looked for before the engine has loaded.
CheckStopRequestEarly(r) ==
  /\ server[r] \in {"loading", "loaded"} /\ ~stopSent[r] /\ request[r] = "full"
  /\ stopSent' = [stopSent EXCEPT ![r] = TRUE]
  /\ status' = [status EXCEPT ![r] = "stopping"]
  /\ Emit(r)
  /\ UNCHANGED <<command, files, server, pid, saved, world>>

\* checkStopRequest, once after the load and then every half second.
CheckStopRequest(r) ==
  /\ server[r] = "loaded" /\ ~stopSent[r] /\ request[r] = "full"
  /\ stopSent' = [stopSent EXCEPT ![r] = TRUE]
  /\ status' = [status EXCEPT ![r] = "stopping"]
  /\ Emit(r)
  /\ UNCHANGED <<command, files, server, pid, saved, world>>

\* The exit handler: of the engine's own accord, after a failure, or at the
\* end of its shutdown.  The process is still there when the status is written.
Exit(r) ==
  /\ server[r] \in {"loading", "loaded"}
  /\ \E code \in 0..1 :
       /\ status' = [status EXCEPT ![r] = IF stopSent[r] /\ code = 0 THEN "stopped" ELSE "exited"]
       /\ saved' = [saved EXCEPT ![r] = asked[r] /\ code = 0]
  /\ server' = [server EXCEPT ![r] = "exiting"]
  /\ UNCHANGED <<command, files, pid, stopSent, asked, world>>

\* The process is gone: after its exit handler, or killed without it.
Gone(r) ==
  /\ r \in Alive
  /\ server' = [server EXCEPT ![r] = "gone"]
  /\ pid' = [pid EXCEPT ![r] = 0]
  /\ UNCHANGED <<command, files, status, stopSent, asked, saved, world>>

\* Other programs come and go, and get identifiers that are free; bound: the
\* last free one is left to a server.
Others ==
  /\ \/ \E p, q \in FreePids : p # q /\ foreign' = foreign \cup {p}
     \/ \E p \in foreign : foreign' = foreign \ {p}
  /\ UNCHANGED <<command, files, run, setups, crashes>>

CommandSteps(c) ==
  \/ LookUp(c) \/ LookForOrphans(c) \/ LockDenied(c)
  \/ (\E r \in Runs, p \in Pids : Launch(c, r, p))
  \/ BeginRecord(c) \/ EndRecord(c) \/ StartFound(c)
  \/ StartLooks(c) \/ StartReadsStatus(c) \/ StartProbes(c)
  \/ Retry(c) \/ GiveUp(c)
  \/ StopNothing(c) \/ BeginRequest(c) \/ EndRequest(c) \/ StopLooks(c) \/ StopReports(c)
  \/ ConfigureRefused(c) \/ BeginSetup(c) \/ SetupFails(c) \/ EndSetup(c)
  \/ CopyRefused(c) \/ Asserted(c) \/ BeginCopy(c) \/ EndCopy(c)

ServerSteps(r) == Boot(r) \/ Load(r) \/ CheckStopRequest(r) \/ Exit(r) \/ Gone(r)

\* Bound: no run is left to launch, the command goes no further.
OutOfRuns(c) ==
  /\ op[c] = "start" /\ at[c] = "none" /\ \A r \in Runs : server[r] # "unborn"
  /\ Return(c, "failed")
  /\ UNCHANGED <<files, run, world>>

ControlNext ==
  \/ \E c \in Commands : OpenLock(c) \/ CommandSteps(c) \/ OutOfRuns(c) \/ Crash(c)
  \/ \E r \in Runs : ServerSteps(r)
  \/ OrphanedSetupEnds \/ Others

ControlSpec == ControlInit /\ [][ControlNext]_controlVars

\* A command goes on by itself and the clock passes its deadline; a backup may
\* also throw where another holds the lock.
CommandFairness ==
  \A c \in Commands :
    /\ WF_controlVars(CommandSteps(c) \/ OutOfRuns(c) \/ (at[c] = "asserted" /\ OpenLock(c)))
    /\ SF_controlVars(GiveUp(c))

\* The interval of run-local.ts fires (and does not meet a request that is just
\* being written again each time), a process that has run its exit handler
\* ends, and of the engine: its load ends, and so does a shutdown it was asked for.
ServerFairness ==
  \A r \in Runs :
    /\ WF_controlVars(Boot(r)) /\ WF_controlVars(Load(r)) /\ SF_controlVars(CheckStopRequest(r))
    /\ WF_controlVars(asked[r] /\ Exit(r))
    /\ WF_controlVars(server[r] = "exiting" /\ Gone(r))

ControlFairSpec == ControlSpec /\ CommandFairness

(***************************************************************************)
(* Properties.                                                             *)
(***************************************************************************)

Records == [run : Runs, pid : Pids] \cup {NoRecord, Torn}

Stages ==
  {"idle", "lookup", "found", "orphans", "none", "launched", "recording", "starting",
   "status", "probe", "late", "requesting", "stopping", "stopped", "setup", "asserted", "copy"}

\* The variables have the values the files, processes and commands can have.
ControlTypeOK ==
  /\ op \in [Commands -> Ops \cup {Absent}] /\ at \in [Commands -> Stages]
  /\ mine \in [Commands -> Records \ {Torn}]
  /\ said \in {Absent, "ready", "clean", "notRunning", "configured", "copied", "failed"}
  /\ lock \in Commands \cup {NoOne} /\ record \in Records
  /\ request \in [Runs -> {Absent, "torn", "full"}]
  /\ status \in [Runs -> {Absent, "starting", "ready", "stopping", "stopped", "exited"}]
  /\ server \in [Runs -> {"unborn", "booting", "loading", "loaded", "exiting", "gone"}]
  /\ pid \in [Runs -> Pids \cup {0}]
  /\ stopSent \in [Runs -> BOOLEAN] /\ asked \in [Runs -> BOOLEAN] /\ saved \in [Runs -> BOOLEAN]
  /\ foreign \in SUBSET Pids /\ setups \in 0..MaxSetups

\* The world has at most one server, whatever commands are closed at whatever
\* moment: the database of a world is never opened by two engines
\* (Start-RS2-Server.ps1:15-33).
OneServer == \A r, s \in Alive : r = s

\* While a world is copied no server runs in it ("Do not copy a running SQLite
\* database as a backup", docs/ONLINE.md:49; WorldStore.cs:58-59, 117-119).
CopyOfStoppedWorld == (\E c \in Commands : at[c] = "copy") => Alive = {}

\* "RS2 server stopped cleanly" is said only if the last server there was had
\* been asked to stop and has saved, and no other is running
\* (Stop-RS2-Server.ps1:25-31).
CleanMeansSaved ==
  [][said' = "clean" /\ said # "clean" =>
       /\ Alive = {}
       /\ \E r \in Runs : saved[r] /\ \A q \in Runs : q > r => server[q] = "unborn"]_controlVars

\* "Server already running. Stop it before applying options."
\* (Configure-Server.ps1:11): the setup helper writes the database of the world
\* only while no server runs on it.
SetupOfStoppedWorld == setups > 0 => Alive = {}

\* No command holds the control lock for ever: every wait has its deadline
\* (Start-RS2-Server.ps1:60-79, Stop-RS2-Server.ps1:22-34).
LockIsReleased == \A c \in Commands : lock = c ~> lock # c

\* A stop request is honoured, also one that was written before the engine had
\* loaded (run-local.ts:33-43, 58-59), unless a second stop command truncated
\* it and was closed before it had written it again.
RequestIsHonoured ==
  ServerFairness =>
    \A r \in Runs : []<>(request[r] = "full") => <>(server[r] = "gone")

=============================================================================
