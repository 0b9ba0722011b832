---------------------------- MODULE Services_proof -----------------------------
(***************************************************************************)
(* The programs on the computer: the control of the server, and the        *)
(* sessions of Connect.                                                    *)
(*                                                                         *)
(* A world has at most one server, copies are of stopped worlds, and a     *)
(* stop that calls itself clean was, for any number of windows, launches,  *)
(* crashes and process identifiers.  What makes it inductive: whoever is   *)
(* past the look-up of a command holds the lock; whoever has seen no       *)
(* process still has none around, because only a holder of the lock starts *)
(* one; and whoever has seen one works on the latest there was.            *)
(*                                                                         *)
(* Bounded and Quiet hold for every number of connections and of places.   *)
(* What both rest on: a session at work is in the table, but for the one   *)
(* the loop is about to put there (Accounted).                             *)
(*                                                                         *)
(* The order of the ends of a session holds for any number of chunks, with *)
(* failing sockets, and with or without TLS on either side (RelayInv).     *)
(***************************************************************************)
EXTENDS ServerControl, TcpService, Relay, FiniteSetTheorems, TLAPS

-------------------------------------------------------------------------------
(***************************************************************************)
(* ServerControl: one server of a world.                                   *)
(***************************************************************************)

Unlocked == {"idle", "asserted"}
Working ==
  {"found", "launched", "recording", "starting", "status", "probe", "late",
   "requesting", "stopping", "stopped"}

\* The lock is held from the look-up of the record to the end of the command.
LockInv == \A c \in Commands : at[c] \notin Unlocked => lock = c

\* A command that has seen no server is right about it as long as it runs.
NoneInv == \A c \in Commands : at[c] \in {"none", "copy"} => Alive = {}

\* The server that is alive is the one that was launched last.
LatestInv == \A r \in Alive, q \in Runs : q > r => server[q] = "unborn"

\* Runs are launched in their order.
OrderInv ==
  \A q, r \in Runs : q < r /\ server[r] # "unborn" => server[q] # "unborn"

\* A command that works on a server works on the last one, and knows its
\* identifier.
WorkInv ==
  \A c \in Commands : at[c] \in Working =>
    /\ mine[c].run \in Runs
    /\ Alive \subseteq {mine[c].run}
    /\ mine[c].run \in Alive => pid[mine[c].run] = mine[c].pid
    /\ server[mine[c].run] # "unborn"
    /\ \A q \in Runs : q > mine[c].run => server[q] = "unborn"

\* It is gone where the command has seen that it is gone.
GoneInv == \A c \in Commands : at[c] = "stopped" => mine[c].run \notin Alive

\* A status file says "stopped" only of a server that has saved.
SavedInv ==
  \A r \in Runs :
    /\ stopSent[r] => asked[r]
    /\ status[r] = "stopped" => saved[r]

\* The helper of a command that configures is running.
SetupInv == \A c \in Commands : at[c] = "setup" => setups >= 1

Parts == LockInv /\ NoneInv /\ LatestInv /\ OrderInv /\ WorkInv /\ GoneInv /\ SavedInv /\ SetupInv
Inv == ControlTypeOK /\ Parts

USE ConstantsAssumption
\* At most one helper has a command that waits for it.
LEMMA SetupsLeft ==
  ASSUME ControlTypeOK, LockInv, SetupInv, OrphanedSetupEnds
  PROVE  /\ setups - 1 \in Nat
         /\ \A c \in Commands : at[c] = "setup" => setups - 1 >= 1
<1>1. CASE \E c \in Commands : at[c] = "setup"
  <2>1. PICK c \in Commands : at[c] = "setup"
    BY <1>1
  <2>2. {d \in Commands : at[d] = "setup"} = {c}
    BY <2>1 DEF LockInv, Unlocked
  <2>3. Cardinality({c}) = 1
    BY FS_Singleton
  <2>4. setups > 1
    BY <2>2, <2>3 DEF OrphanedSetupEnds
  <2>5. setups \in Nat
    BY DEF ControlTypeOK
  <2> QED BY <2>4, <2>5
<1>2. CASE ~ \E c \in Commands : at[c] = "setup"
  <2>1. {d \in Commands : at[d] = "setup"} = {}
    BY <1>2
  <2>2. Cardinality({}) = 0
    BY FS_EmptySet
  <2>3. setups > 0
    BY <2>1, <2>2 DEF OrphanedSetupEnds
  <2>4. setups \in Nat
    BY DEF ControlTypeOK
  <2> QED BY <1>2, <2>3, <2>4
<1> QED BY <1>1, <1>2

LEMMA InitInv == ControlInit => Inv
<1> SUFFICES ASSUME ControlInit PROVE Inv
  OBVIOUS
<1> USE DEF ControlInit
<1>1. ControlTypeOK
  BY DEF ControlTypeOK, Records, Stages, NoRecord, Runs, Ops, Absent, Torn
<1>2. Alive = {}
  BY DEF Alive, Runs
<1>3. Parts
  BY <1>2 DEF Parts, LockInv, NoneInv, LatestInv, OrderInv, WorkInv, GoneInv, SavedInv, SetupInv,
    Unlocked, Working, Absent
<1> QED BY <1>1, <1>3 DEF Inv

\* The end of a command keeps the types of what it changes, and so does a step
\* to the next stage.
LEMMA ReturnType ==
  ASSUME ControlTypeOK, NEW c \in Commands,
         NEW w \in {"ready", "clean", "notRunning", "configured", "copied", "failed"},
         Return(c, w), UNCHANGED <<files, run, world>>
  PROVE  ControlTypeOK'
<1>1. mine' \in [Commands -> Records \ {Torn}]
  BY DEF Return, ControlTypeOK, Records, NoRecord, Torn
<1>2. op' \in [Commands -> Ops \cup {Absent}] /\ at' \in [Commands -> Stages]
  BY DEF Return, Goto, ControlTypeOK, Stages
<1> QED BY <1>1, <1>2 DEF Return, ControlTypeOK, files, run, world

LEMMA GotoType ==
  ASSUME ControlTypeOK, NEW c \in Commands, NEW s \in Stages,
         Goto(c, s), UNCHANGED <<op, mine, said, lock, files, run, world>>
  PROVE  ControlTypeOK'
BY DEF Goto, ControlTypeOK, files, run, world

LEMMA TypeNext == Inv /\ [ControlNext]_controlVars => ControlTypeOK'
<1> SUFFICES ASSUME Inv, [ControlNext]_controlVars PROVE ControlTypeOK'
  OBVIOUS
<1> USE DEF Inv
<1>0. CASE UNCHANGED controlVars
  BY <1>0 DEF ControlTypeOK, Alive, controlVars, command, files, run, world
<1>1. ASSUME NEW c \in Commands, OpenLock(c) \/ CommandSteps(c) \/ OutOfRuns(c) \/ Crash(c)
      PROVE  ControlTypeOK'
  <2>1. CASE OpenLock(c)
    <3>1. at' \in [Commands -> Stages] /\ said' = Absent /\ lock' = c
      BY <2>1 DEF OpenLock, Goto, ControlTypeOK, Stages
    <3>2. mine' \in [Commands -> Records \ {Torn}]
      BY <2>1 DEF OpenLock, ControlTypeOK, Records, NoRecord, Torn
    <3>3. op' \in [Commands -> Ops \cup {Absent}]
      BY <2>1 DEF OpenLock, ControlTypeOK, Ops
    <3> QED BY <2>1, <3>1, <3>2, <3>3 DEF OpenLock, ControlTypeOK, files, run, world
  <2>2. CASE OutOfRuns(c)
    BY <2>2 DEF OutOfRuns, ControlTypeOK, Parts, SetupInv, Records, Stages, Ops, Absent, Runs, Goto, Return, NoRecord, Torn, controlVars, command, files, run, world
  <2>3. CASE Crash(c)
    BY <2>3 DEF Crash, ControlTypeOK, Parts, SetupInv, Records, Stages, Ops, Absent, Runs, Goto, Return, NoRecord, Torn, controlVars, command, files, run, world
  <2>4. CASE LookUp(c)
    <3>1. CASE Return(c, "failed")
      BY <2>4, <3>1, ReturnType DEF LookUp
    <3>2. CASE ~Return(c, "failed")
      <4>1. /\ mine' = mine \/ (record # Torn /\ mine' = [mine EXCEPT ![c] = record])
            /\ \E s \in {"found", "orphans"} : at' = [at EXCEPT ![c] = s]
            /\ UNCHANGED <<op, said, lock, files, run, world>>
        BY <2>4, <3>2 DEF LookUp, Goto
      <4>2. at' \in [Commands -> Stages]
        BY <4>1 DEF ControlTypeOK, Stages
      <4>3. mine' \in [Commands -> Records \ {Torn}]
        BY <4>1 DEF ControlTypeOK
      <4> QED BY <4>1, <4>2, <4>3 DEF ControlTypeOK, files, run, world
    <3> QED BY <3>1, <3>2
  <2>5. CASE LookForOrphans(c)
    <3>1. \/ Return(c, "failed") \/ Return(c, "ready")
          \/ (\E s \in Stages : Goto(c, s)) /\ UNCHANGED <<op, mine, said, lock>>
      BY <2>5 DEF LookForOrphans, Stages
    <3>2. UNCHANGED <<files, run, world>>
      BY <2>5 DEF LookForOrphans
    <3> QED BY <3>1, <3>2, ReturnType, GotoType
  <2>6. CASE LockDenied(c)
    BY <2>6 DEF LockDenied, ControlTypeOK, Parts, SetupInv, Records, Stages, Ops, Absent, Runs, Goto, Return, NoRecord, Torn, controlVars, command, files, run, world
  <2>7. CASE BeginRecord(c)
    BY <2>7 DEF BeginRecord, ControlTypeOK, Parts, SetupInv, Records, Stages, Ops, Absent, Runs, Goto, Return, NoRecord, Torn, controlVars, command, files, run, world
  <2>8. CASE EndRecord(c)
    BY <2>8 DEF EndRecord, ControlTypeOK, Parts, SetupInv, Records, Stages, Ops, Absent, Runs, Goto, Return, NoRecord, Torn, controlVars, command, files, run, world
  <2>9. CASE StartFound(c)
    <3>1. "starting" \in Stages
      BY DEF Stages
    <3> QED BY <2>9, <3>1, GotoType DEF StartFound
  <2>10. CASE StartLooks(c)
    <3>1. \/ Return(c, "failed") \/ Return(c, "ready")
          \/ (\E s \in Stages : Goto(c, s)) /\ UNCHANGED <<op, mine, said, lock>>
      BY <2>10 DEF StartLooks, Stages
    <3>2. UNCHANGED <<files, run, world>>
      BY <2>10 DEF StartLooks
    <3> QED BY <3>1, <3>2, ReturnType, GotoType
  <2>11. CASE StartReadsStatus(c)
    <3>1. \/ Return(c, "failed") \/ Return(c, "ready")
          \/ (\E s \in Stages : Goto(c, s)) /\ UNCHANGED <<op, mine, said, lock>>
      BY <2>11 DEF StartReadsStatus, Stages
    <3>2. UNCHANGED <<files, run, world>>
      BY <2>11 DEF StartReadsStatus
    <3> QED BY <3>1, <3>2, ReturnType, GotoType
  <2>12. CASE StartProbes(c)
    <3>1. \/ Return(c, "failed") \/ Return(c, "ready")
          \/ (\E s \in Stages : Goto(c, s)) /\ UNCHANGED <<op, mine, said, lock>>
      BY <2>12 DEF StartProbes, Stages
    <3>2. UNCHANGED <<files, run, world>>
      BY <2>12 DEF StartProbes
    <3> QED BY <3>1, <3>2, ReturnType, GotoType
  <2>13. CASE Retry(c)
    BY <2>13 DEF Retry, ControlTypeOK, Parts, SetupInv, Records, Stages, Ops, Absent, Runs, Goto, Return, NoRecord, Torn, controlVars, command, files, run, world
  <2>14. CASE GiveUp(c)
    BY <2>14 DEF GiveUp, ControlTypeOK, Parts, SetupInv, Records, Stages, Ops, Absent, Runs, Goto, Return, NoRecord, Torn, controlVars, command, files, run, world
  <2>15. CASE StopNothing(c)
    BY <2>15 DEF StopNothing, ControlTypeOK, Parts, SetupInv, Records, Stages, Ops, Absent, Runs, Goto, Return, NoRecord, Torn, controlVars, command, files, run, world
  <2>16. CASE BeginRequest(c)
    BY <2>16 DEF BeginRequest, ControlTypeOK, Parts, SetupInv, Records, Stages, Ops, Absent, Runs, Goto, Return, NoRecord, Torn, controlVars, command, files, run, world
  <2>17. CASE EndRequest(c)
    BY <2>17 DEF EndRequest, ControlTypeOK, Parts, SetupInv, Records, Stages, Ops, Absent, Runs, Goto, Return, NoRecord, Torn, controlVars, command, files, run, world
  <2>18. CASE StopLooks(c)
    BY <2>18 DEF StopLooks, ControlTypeOK, Parts, SetupInv, Records, Stages, Ops, Absent, Runs, Goto, Return, NoRecord, Torn, controlVars, command, files, run, world
  <2>19. CASE StopReports(c)
    BY <2>19 DEF StopReports, ControlTypeOK, Parts, SetupInv, Records, Stages, Ops, Absent, Runs, Goto, Return, NoRecord, Torn, controlVars, command, files, run, world
  <2>20. CASE ConfigureRefused(c)
    BY <2>20 DEF ConfigureRefused, ControlTypeOK, Parts, SetupInv, Records, Stages, Ops, Absent, Runs, Goto, Return, NoRecord, Torn, controlVars, command, files, run, world
  <2>21. CASE BeginSetup(c)
    BY <2>21 DEF BeginSetup, ControlTypeOK, Parts, SetupInv, Records, Stages, Ops, Absent, Runs, Goto, Return, NoRecord, Torn, controlVars, command, files, run, world
  <2>22. CASE SetupFails(c)
    BY <2>22 DEF SetupFails, ControlTypeOK, Parts, SetupInv, Records, Stages, Ops, Absent, Runs, Goto, Return, NoRecord, Torn, controlVars, command, files, run, world
  <2>23. CASE EndSetup(c)
    BY <2>23 DEF EndSetup, ControlTypeOK, Parts, SetupInv, Records, Stages, Ops, Absent, Runs, Goto, Return, NoRecord, Torn, controlVars, command, files, run, world
  <2>24. CASE CopyRefused(c)
    BY <2>24 DEF CopyRefused, ControlTypeOK, Parts, SetupInv, Records, Stages, Ops, Absent, Runs, Goto, Return, NoRecord, Torn, controlVars, command, files, run, world
  <2>25. CASE Asserted(c)
    BY <2>25 DEF Asserted, ControlTypeOK, Parts, SetupInv, Records, Stages, Ops, Absent, Runs, Goto, Return, NoRecord, Torn, controlVars, command, files, run, world
  <2>26. CASE BeginCopy(c)
    BY <2>26 DEF BeginCopy, ControlTypeOK, Parts, SetupInv, Records, Stages, Ops, Absent, Runs, Goto, Return, NoRecord, Torn, controlVars, command, files, run, world
  <2>27. CASE EndCopy(c)
    BY <2>27 DEF EndCopy, ControlTypeOK, Parts, SetupInv, Records, Stages, Ops, Absent, Runs, Goto, Return, NoRecord, Torn, controlVars, command, files, run, world
  <2>28. ASSUME NEW r \in Runs, NEW p \in Pids, Launch(c, r, p) PROVE ControlTypeOK'
    BY <2>28 DEF Launch, ControlTypeOK, FreePids, Records, Stages, Runs, Goto, NoRecord, Torn, controlVars, command, files, run, world
  <2> QED BY <2>1, <2>2, <2>3, <2>4, <2>5, <2>6, <2>7, <2>8, <2>9, <2>10, <2>11, <2>12, <2>13, <2>14, <2>15, <2>16, <2>17, <2>18, <2>19, <2>20, <2>21, <2>22, <2>23, <2>24, <2>25, <2>26, <2>27, <2>28, <1>1 DEF CommandSteps
<1>2. ASSUME NEW r \in Runs, ServerSteps(r) PROVE ControlTypeOK'
  <2>1. CASE Boot(r)
    BY <2>1 DEF Boot, ControlTypeOK, Absent, controlVars, command, files, run, world
  <2>2. CASE Load(r)
    BY <2>2 DEF Load, ControlTypeOK, Absent, controlVars, command, files, run, world
  <2>3. CASE CheckStopRequest(r)
    BY <2>3 DEF CheckStopRequest, ControlTypeOK, Absent, Emit, controlVars, command, files, run, world
  <2>4. CASE Exit(r)
    BY <2>4 DEF Exit, ControlTypeOK, Absent, controlVars, command, files, run, world
  <2>5. CASE Gone(r)
    BY <2>5 DEF Gone, ControlTypeOK, Absent, controlVars, command, files, run, world
  <2> QED BY <2>1, <2>2, <2>3, <2>4, <2>5, <1>2 DEF ServerSteps
<1>3. CASE OrphanedSetupEnds
  <2>1. setups - 1 >= 0 /\ setups - 1 \in Nat
    BY <1>3, SetupsLeft DEF Parts, LockInv, SetupInv
  <2> QED BY <1>3, <2>1 DEF OrphanedSetupEnds, ControlTypeOK, controlVars, command, files, run, world
<1>4. CASE Others
  BY <1>4 DEF Others, FreePids, ControlTypeOK, controlVars, command, files, run, world
<1> QED BY <1>0, <1>1, <1>2, <1>3, <1>4 DEF ControlNext

LEMMA PartsNext == Inv /\ [ControlNext]_controlVars => Parts'
<1> SUFFICES ASSUME Inv, [ControlNext]_controlVars PROVE Parts'
  OBVIOUS
<1> USE DEF Inv, Parts
<1>0. CASE UNCHANGED controlVars
  BY <1>0 DEF LockInv, NoneInv, LatestInv, OrderInv, WorkInv, GoneInv, SavedInv, SetupInv, Alive, controlVars, command, files, run, world
<1>1. ASSUME NEW c \in Commands, OpenLock(c) \/ CommandSteps(c) \/ OutOfRuns(c) \/ Crash(c)
      PROVE  Parts'
  <2> USE DEF ControlTypeOK, LockInv, NoneInv, LatestInv, OrderInv, WorkInv, GoneInv, SavedInv, SetupInv, Goto, Unlocked, Working, Alive, controlVars, command, files, run, world
  <2>1. CASE OpenLock(c)
    BY <2>1 DEF OpenLock, Return
  <2>2. CASE OutOfRuns(c)
    BY <2>2 DEF OutOfRuns, Return
  <2>3. CASE Crash(c)
    BY <2>3 DEF Crash, Return
  <2>4. CASE LookUp(c)
    <3>1. /\ at[c] = "lookup" /\ lock = c /\ Alive' = Alive
          /\ UNCHANGED <<server, pid, status, stopSent, asked, saved, setups>>
      BY <2>4 DEF LookUp
    <3>2. CASE at' = [at EXCEPT ![c] = "found"] /\ mine' = [mine EXCEPT ![c] = record]
               /\ RecordedProcess(record) /\ lock' = lock
      <4>1. record.run \in Alive /\ pid[record.run] = record.pid
        BY <3>2 DEF RecordedProcess
      <4>2. Alive \subseteq {record.run} /\ \A q \in Runs : q > record.run => server[q] = "unborn"
        BY <4>1 DEF Runs
      <4>3. WorkInv'
        BY <3>1, <3>2, <4>1, <4>2
      <4> QED BY <3>1, <3>2, <4>3
    <3>3. CASE at' = [at EXCEPT ![c] = "orphans"] /\ lock' = lock
               /\ \A d \in Commands : d # c => mine'[d] = mine[d]
      BY <3>1, <3>3
    <3>4. CASE Return(c, "failed")
      BY <3>1, <3>4 DEF Return
    <3> QED BY <2>4, <3>2, <3>3, <3>4 DEF LookUp
  <2>5. CASE LookForOrphans(c)
    BY <2>5 DEF LookForOrphans, Return, WrapperProcesses
  <2>6. CASE LockDenied(c)
    BY <2>6 DEF LockDenied, Return
  <2>7. CASE BeginRecord(c)
    BY <2>7 DEF BeginRecord, Return
  <2>8. CASE EndRecord(c)
    BY <2>8 DEF EndRecord, Return
  <2>9. CASE StartFound(c)
    BY <2>9 DEF StartFound, Return
  <2>10. CASE StartLooks(c)
    BY <2>10 DEF StartLooks, Return, RecordedProcess, NoRecord, Torn
  <2>11. CASE StartReadsStatus(c)
    BY <2>11 DEF StartReadsStatus, Return
  <2>12. CASE StartProbes(c)
    BY <2>12 DEF StartProbes, Return
  <2>13. CASE Retry(c)
    BY <2>13 DEF Retry, Return
  <2>14. CASE GiveUp(c)
    BY <2>14 DEF GiveUp, Return
  <2>15. CASE StopNothing(c)
    BY <2>15 DEF StopNothing, Return
  <2>16. CASE BeginRequest(c)
    BY <2>16 DEF BeginRequest, Return
  <2>17. CASE EndRequest(c)
    BY <2>17 DEF EndRequest, Return
  <2>18. CASE StopLooks(c)
    BY <2>18 DEF StopLooks, Return, RecordedProcess, NoRecord, Torn
  <2>19. CASE StopReports(c)
    BY <2>19 DEF StopReports, Return
  <2>20. CASE ConfigureRefused(c)
    BY <2>20 DEF ConfigureRefused, Return
  <2>21. CASE BeginSetup(c)
    BY <2>21 DEF BeginSetup, Return
  <2>22. CASE SetupFails(c)
    BY <2>22 DEF SetupFails, Return
  <2>23. CASE EndSetup(c)
    BY <2>23 DEF EndSetup, Return
  <2>24. CASE CopyRefused(c)
    BY <2>24 DEF CopyRefused, Return
  <2>25. CASE Asserted(c)
    BY <2>25 DEF Asserted, Return
  <2>26. CASE BeginCopy(c)
    BY <2>26 DEF BeginCopy, Return
  <2>27. CASE EndCopy(c)
    BY <2>27 DEF EndCopy, Return
  <2>28. ASSUME NEW r \in Runs, NEW p \in Pids, Launch(c, r, p) PROVE Parts'
    <3>1. /\ at[c] = "none" /\ lock = c /\ Alive = {}
          /\ at' = [at EXCEPT ![c] = "launched"] /\ lock' = lock
          /\ mine' = [mine EXCEPT ![c] = [run |-> r, pid |-> p]]
          /\ server' = [server EXCEPT ![r] = "booting"]
          /\ pid' = [pid EXCEPT ![r] = p]
      BY <2>28 DEF Launch
    <3>2. Alive' = {r}
      BY <3>1
    <3>3. \A q \in Runs : q > r => server'[q] = "unborn"
      BY <2>28, <3>1 DEF Launch, Runs
    <3>4. LatestInv'
      BY <3>2, <3>3
    <3>5. LockInv' /\ NoneInv'
      BY <3>1
    <3>6. WorkInv'
      BY <3>1, <3>2, <3>3
    <3>7. OrderInv' /\ GoneInv' /\ SavedInv' /\ SetupInv'
      BY <2>28, <3>1 DEF Launch
    <3> QED BY <3>4, <3>5, <3>6, <3>7
  <2> QED BY <2>1, <2>2, <2>3, <2>4, <2>5, <2>6, <2>7, <2>8, <2>9, <2>10, <2>11, <2>12, <2>13, <2>14, <2>15, <2>16, <2>17, <2>18, <2>19, <2>20, <2>21, <2>22, <2>23, <2>24, <2>25, <2>26, <2>27, <2>28, <1>1 DEF CommandSteps
<1>2. ASSUME NEW r \in Runs, ServerSteps(r) PROVE Parts'
  <2> USE DEF ControlTypeOK, LockInv, NoneInv, LatestInv, OrderInv, WorkInv, GoneInv, SavedInv, SetupInv, Unlocked, Working, Alive, controlVars, command, files, run, world
  <2>1. CASE Boot(r)
    BY <2>1 DEF Boot
  <2>2. CASE Load(r)
    BY <2>2 DEF Load
  <2>3. CASE CheckStopRequest(r)
    <3>1. asked'[r] /\ stopSent'[r] /\ status'[r] = "stopping"
      BY <2>3 DEF CheckStopRequest, Emit
    <3>2. SavedInv'
      BY <2>3, <3>1 DEF CheckStopRequest, Emit
    <3> QED BY <2>3, <3>2 DEF CheckStopRequest
  <2>4. CASE Exit(r)
    BY <2>4 DEF Exit
  <2>5. CASE Gone(r)
    BY <2>5 DEF Gone
  <2> QED BY <2>1, <2>2, <2>3, <2>4, <2>5, <1>2 DEF ServerSteps
<1>3. CASE OrphanedSetupEnds
  <2>1. \A c \in Commands : at[c] = "setup" => setups - 1 >= 1
    BY <1>3, SetupsLeft DEF LockInv, SetupInv
  <2> QED BY <1>3, <2>1 DEF OrphanedSetupEnds, LockInv, NoneInv, LatestInv, OrderInv, WorkInv, GoneInv, SavedInv, SetupInv, Alive, controlVars, command, files, run, world
<1>4. CASE Others
  BY <1>4 DEF Others, LockInv, NoneInv, LatestInv, OrderInv, WorkInv, GoneInv, SavedInv, SetupInv, Alive, controlVars, command, files, run, world
<1> QED BY <1>0, <1>1, <1>2, <1>3, <1>4 DEF ControlNext

THEOREM ControlInvariance == ControlSpec => []Inv
<1>1. ControlInit => Inv
  BY InitInv
<1>2. Inv /\ [ControlNext]_controlVars => Inv'
  BY TypeNext, PartsNext DEF Inv
<1> QED BY <1>1, <1>2, PTL DEF ControlSpec

\* Every variable keeps to its type.
THEOREM ControlTypeCorrect == ControlSpec => []ControlTypeOK
<1>1. Inv => ControlTypeOK
  BY DEF Inv
<1> QED BY <1>1, ControlInvariance, PTL

\* Two servers that are alive would each have been launched after the other
\* (Start-RS2-Server.ps1:15-33).
THEOREM AtMostOneServer == ControlSpec => []OneServer
<1>1. Inv => OneServer
  <2> SUFFICES ASSUME Inv, NEW r \in Alive, NEW s \in Alive PROVE r = s
    BY DEF OneServer
  <2>1. ~ r > s /\ ~ s > r
    BY DEF Inv, Parts, LatestInv, Alive
  <2> QED BY <2>1 DEF Alive, Runs
<1> QED BY <1>1, ControlInvariance, PTL

\* A copy is of a stopped world: the second look at the processes is taken
\* under the lock, and only a holder of the lock starts a server
\* (WorldStore.cs:59, 117-119).
THEOREM CopiesAreOfStoppedWorlds == ControlSpec => []CopyOfStoppedWorld
<1>1. Inv => CopyOfStoppedWorld
  BY DEF Inv, Parts, NoneInv, CopyOfStoppedWorld
<1> QED BY <1>1, ControlInvariance, PTL

\* Only the report of a stop says "clean".
LEMMA SaidClean ==
  ASSUME [ControlNext]_controlVars, said' = "clean", said # "clean"
  PROVE  \E c \in Commands : StopReports(c)
<1>1. CASE UNCHANGED controlVars
  BY <1>1 DEF controlVars, command
<1>2. ASSUME NEW c \in Commands, OpenLock(c) \/ OutOfRuns(c) \/ Crash(c)
      PROVE  FALSE
  BY <1>2 DEF OpenLock, OutOfRuns, Crash, Return, Absent
<1>3. ASSUME NEW c \in Commands, CommandSteps(c)
      PROVE  StopReports(c)
  BY <1>3 DEF CommandSteps, Return, command, LookUp, LookForOrphans, LockDenied, BeginRecord, EndRecord, StartFound, StartLooks, StartReadsStatus, StartProbes, Retry, GiveUp, StopNothing, BeginRequest, EndRequest, StopLooks, ConfigureRefused, BeginSetup, SetupFails, EndSetup, CopyRefused, Asserted, BeginCopy, EndCopy, Launch
<1>4. CASE \E r \in Runs : ServerSteps(r)
  BY <1>4 DEF ServerSteps, Boot, Load, CheckStopRequest, Exit, Gone, command
<1>5. CASE OrphanedSetupEnds \/ Others
  BY <1>5 DEF OrphanedSetupEnds, Others, command
<1> QED BY <1>1, <1>2, <1>3, <1>4, <1>5 DEF ControlNext

\* A stop that says the server stopped cleanly is about the last server there
\* was, which was asked to stop and saved (Stop-RS2-Server.ps1:25-31).
THEOREM CleanStopsSaved == ControlSpec => CleanMeansSaved
<1>1. ASSUME Inv, [ControlNext]_controlVars, said' = "clean", said # "clean"
      PROVE  /\ Alive = {}
             /\ \E r \in Runs : saved[r] /\ \A q \in Runs : q > r => server[q] = "unborn"
  <2>1. PICK c \in Commands : StopReports(c)
    BY <1>1, SaidClean
  <2>2. at[c] = "stopped" /\ status[mine[c].run] = "stopped"
    BY <1>1, <2>1 DEF StopReports, Return
  <2>3. mine[c].run \in Runs /\ Alive = {}
        /\ \A q \in Runs : q > mine[c].run => server[q] = "unborn"
    BY <1>1, <2>2 DEF Inv, Parts, WorkInv, GoneInv, Working
  <2> QED BY <1>1, <2>2, <2>3 DEF Inv, Parts, SavedInv
<1>2. Inv /\ [ControlNext]_controlVars =>
        [said' = "clean" /\ said # "clean" =>
           /\ Alive = {}
           /\ \E r \in Runs : saved[r] /\ \A q \in Runs : q > r => server[q] = "unborn"]_controlVars
  BY <1>1
<1> QED BY <1>2, ControlInvariance, PTL DEF ControlSpec, CleanMeansSaved

-------------------------------------------------------------------------------
(***************************************************************************)
(* TcpService: the accept loop and the table of sessions.                  *)
(***************************************************************************)

Storing == IF accept = "store" THEN {taken} ELSE {}

\* The sessions at work are those of the table and the one the loop is storing.
Accounted == Live \subseteq sessions \cup Storing

\* The loop of a service that does not fail has not failed.
LoopInv == accept = "failed" => AcceptMayFail

\* What DisposeAsync has waited for so far.  A second call that returns at once is
\* harmless unless it was the loop that made the first one throw.
DisposeInv ==
  /\ dispose = "sessions" => accept = "done" /\ Live \subseteq awaited
  /\ dispose = "threw" => accept = "failed" \/ (accept = "done" /\ Live = {})
  /\ dispose = "done" =>
       (Live = {} /\ accept = "done") \/ (accept = "failed" /\ idempotent)

IInv == TypeOK /\ Bounded /\ Accounted /\ LoopInv /\ DisposeInv

\* Connect has a finite number of connections, and so of sessions.
LEMMA LiveFinite == IsFiniteSet(Live)
  <1>1. Live \subseteq Clients
    BY DEF Live
  <1> QED
    BY <1>1, CapAssumption, FS_Subset

\* A step that begins no session keeps the bound.
LEMMA FewerAreBounded ==
  ASSUME Bounded, Live' \subseteq Live
  PROVE  Bounded'
  <1>1. Cardinality(Live') <= Cardinality(Live)
    BY LiveFinite, FS_Subset
  <1>2. Cardinality(Live) \in Nat /\ Cardinality(Live') \in Nat
    BY LiveFinite, FS_Subset, FS_CardinalityType
  <1> QED
    BY <1>1, <1>2, CapAssumption DEF Bounded

LEMMA InitIInv == Init => IInv
  <1> SUFFICES ASSUME Init PROVE IInv
    OBVIOUS
  <1>1. Live = {}
    BY DEF Init, Live
  <1>2. Cardinality({}) = 0
    BY FS_EmptySet
  <1>3. Bounded
    BY <1>1, <1>2, CapAssumption DEF Bounded
  <1>4. TypeOK
    <2>1. <<>> \in Seq(Clients)
      OBVIOUS
    <2>2. 0 \in 0..MaxWindows
      BY BoundsAssumption
    <2> QED
      BY <2>1, <2>2 DEF Init, TypeOK
  <1> QED
    BY <1>1, <1>3, <1>4 DEF Init, IInv, Accounted, LoopInv, DisposeInv

\* The one step that begins a session does so while the table, which holds all
\* that are at work, is not full.
LEMMA AdmitStep ==
  ASSUME IInv, Admit
  PROVE  IInv'
  <1> USE DEF IInv, Admit, listener
  <1>1. accept = "admit" /\ taken \in Clients /\ Live \subseteq sessions /\ taken \notin {Nobody}
    BY NobodyAssumption DEF TypeOK, Accounted, Storing
  <1>2. TypeOK'
    BY <1>1, NobodyAssumption DEF TypeOK
  <1>3. Live' \subseteq Live \cup {taken}
    BY <1>1 DEF Live, TypeOK
  <1>4. IsFiniteSet(sessions) /\ Cardinality(sessions) \in Nat
    BY CapAssumption, FS_Subset, FS_CardinalityType DEF TypeOK
  <1>5. CASE task' = [task EXCEPT ![taken] = "refused"] /\ accept' = "waiting"
    <2>1. Live' \subseteq Live
      BY <1>1, <1>5 DEF Live, TypeOK
    <2>2. Bounded'
      BY <2>1, FewerAreBounded
    <2>3. Accounted' /\ LoopInv'
      BY <1>1, <1>5, <2>1 DEF Accounted, LoopInv
    <2>4. DisposeInv'
      BY <1>1, <1>5, <2>1 DEF DisposeInv
    <2> QED
      BY <1>2, <2>2, <2>3, <2>4
  <1>6. CASE Cardinality(sessions) < Cap /\ accept' = "store" /\ taken' = taken
    <2>1. Cardinality(Live) <= Cardinality(sessions) /\ Cardinality(Live) \in Nat
      BY <1>1, <1>4, FS_Subset, LiveFinite, FS_CardinalityType
    <2>2. /\ Cardinality(Live \cup {taken}) \in Nat
          /\ Cardinality(Live \cup {taken}) <= Cardinality(Live) + 1
          /\ IsFiniteSet(Live \cup {taken})
      <3>1. /\ IsFiniteSet(Live \cup {taken})
            /\ \/ Cardinality(Live \cup {taken}) = Cardinality(Live)
               \/ Cardinality(Live \cup {taken}) = Cardinality(Live) + 1
        BY LiveFinite, FS_AddElement, Zenon
      <3> QED
        BY <2>1, <3>1
    <2>3. Cardinality(Live') <= Cardinality(Live \cup {taken}) /\ Cardinality(Live') \in Nat
      BY <1>3, <2>2, FS_Subset, FS_CardinalityType
    <2>4. Bounded'
      BY <1>4, <1>6, <2>1, <2>2, <2>3, CapAssumption DEF Bounded
    <2>5. Accounted' /\ LoopInv'
      BY <1>1, <1>3, <1>6 DEF Accounted, Storing, LoopInv
    <2>6. DisposeInv'
      BY <1>1, <1>6 DEF DisposeInv
    <2> QED
      BY <1>2, <2>4, <2>5, <2>6
  <1>7. CASE ~(attempts' > MaxAttempts \/ Cardinality(sessions) >= Cap)
    <2>1. Cardinality(sessions) < Cap
      BY <1>4, <1>7, CapAssumption
    <2> QED
      BY <1>6, <1>7, <2>1
  <1> QED
    BY <1>5, <1>7

\* No other step begins one.
LEMMA OtherSteps ==
  ASSUME IInv, [Next]_vars, ~Admit
  PROVE  IInv'
  <1> USE DEF IInv, listener
  <1>1. CASE UNCHANGED vars
    BY <1>1 DEF vars, loop, TypeOK, Bounded, Live, Over, Accounted, Storing, LoopInv, DisposeInv
  <1>2. ASSUME NEW c \in Clients, Arrive(c)
        PROVE  IInv'
    <2>1. TypeOK'
      BY <1>2 DEF Arrive, loop, TypeOK
    <2>2. Live' = Live
      BY <1>2 DEF Arrive, Live, TypeOK
    <2>3. UNCHANGED <<idempotent, sessions, accept, taken, awaited, dispose>>
      BY <1>2 DEF Arrive, loop
    <2> QED
      BY <2>1, <2>2, <2>3 DEF Bounded, Accounted, Storing, LoopInv, DisposeInv
  <1>3. CASE Minute
    <2>1. TypeOK'
      BY <1>3, BoundsAssumption DEF Minute, TypeOK
    <2>2. Live' = Live /\ UNCHANGED <<idempotent, sessions, accept, taken, awaited, dispose>>
      BY <1>3 DEF Minute, Live
    <2> QED
      BY <2>1, <2>2 DEF Bounded, Accounted, Storing, LoopInv, DisposeInv
  <1>4. CASE AcceptClient
    <2>1. TypeOK'
      <3>1. CASE backlog # <<>> /\ taken' = Head(backlog) /\ backlog' = Tail(backlog) /\ accept' = "admit"
        <4>1. Head(backlog) \in Clients /\ Tail(backlog) \in Seq(Clients)
          BY <3>1 DEF TypeOK
        <4> QED
          BY <1>4, <3>1, <4>1, NobodyAssumption DEF AcceptClient, TypeOK
      <3> QED
        BY <1>4, <3>1 DEF AcceptClient, TypeOK
    <2>2. Live' = Live /\ UNCHANGED <<idempotent, sessions, dispose, awaited>>
      BY <1>4 DEF AcceptClient, Live
    <2>3. accept = "waiting" /\ (accept' = "failed" => AcceptMayFail) /\ accept' # "store"
      BY <1>4 DEF AcceptClient
    <2> QED
      BY <2>1, <2>2, <2>3 DEF Bounded, Accounted, Storing, LoopInv, DisposeInv
  <1>5. CASE Store
    BY <1>5 DEF Store, TypeOK, Bounded, Live, Accounted, Storing, LoopInv, DisposeInv
  <1>6. ASSUME NEW c \in Clients, Authenticate(c) \/ FailToAuthenticate(c) \/ EndBridge(c)
        PROVE  IInv'
    <2>1. TypeOK'
      BY <1>6 DEF Authenticate, FailToAuthenticate, EndBridge, loop, TypeOK
    <2>2. Live' \subseteq Live
      BY <1>6 DEF Authenticate, FailToAuthenticate, EndBridge, Live, TypeOK
    <2>3. UNCHANGED <<idempotent, sessions, accept, taken, awaited, dispose>>
      BY <1>6 DEF Authenticate, FailToAuthenticate, EndBridge, loop
    <2>4. Bounded'
      BY <2>2, FewerAreBounded
    <2> QED
      BY <2>1, <2>2, <2>3, <2>4 DEF Accounted, Storing, LoopInv, DisposeInv
  <1>7. ASSUME NEW c \in Clients, Leave(c)
        PROVE  IInv'
    BY <1>7 DEF Leave, loop, TypeOK, Bounded, Live, Over, Accounted, Storing, LoopInv, DisposeInv
  <1>8. CASE BeginDispose
    <2>1. TypeOK'
      <3>1. <<>> \in Seq(Clients)
        OBVIOUS
      <3>2. task' \in [Clients -> {"away", "backlog", "refused", "handshake", "bridge", "ended", "faulted"}]
        BY <1>8 DEF BeginDispose, TypeOK
      <3> QED
        BY <1>8, <3>1, <3>2 DEF BeginDispose, loop, TypeOK
    <2>2. Live' = Live
      BY <1>8 DEF BeginDispose, Live, TypeOK
    <2>3. UNCHANGED <<sessions, accept, taken, awaited>> /\ dispose' = "accept"
      BY <1>8 DEF BeginDispose, loop
    <2> QED
      BY <2>1, <2>2, <2>3 DEF Bounded, Accounted, Storing, LoopInv, DisposeInv
  <1>9. CASE AwaitAccept
    BY <1>9 DEF AwaitAccept, loop, TypeOK, Bounded, Live, Accounted, Storing, LoopInv, DisposeInv
  <1>10. CASE AwaitSessions
    <2>1. Live = {}
      BY <1>10 DEF AwaitSessions, Live, Over, DisposeInv
    <2> QED
      BY <1>10, <2>1 DEF AwaitSessions, loop, TypeOK, Bounded, Live, Accounted, Storing, LoopInv, DisposeInv
  <1>11. CASE DisposeAgain
    BY <1>11
       DEF DisposeAgain, loop, TypeOK, Bounded, Live, Accounted, Storing, LoopInv, DisposeInv
  <1>12. CASE Rest
    BY <1>1, <1>12 DEF Rest
  <1> QED
    BY <1>1, <1>2, <1>3, <1>4, <1>5, <1>6, <1>7, <1>8, <1>9, <1>10, <1>11, <1>12
       DEF Next, AcceptSteps, DisposeSteps

\* The strengthened invariant of the service.
THEOREM Invariance == Spec => []IInv
  <1>1. IInv /\ [Next]_vars => IInv'
    BY AdmitStep, OtherSteps
  <1> QED
    BY InitIInv, <1>1, PTL DEF Spec

\* TypeOK, for every number of connections, places and attempts.
THEOREM TypeCorrect == Spec => []TypeOK
  <1>1. IInv => TypeOK
    BY DEF IInv
  <1> QED
    BY Invariance, <1>1, PTL

\* The listener is bounded (DirectTunnel.cs:11): at most Cap sessions work at a
\* time, however accept, sessions and continuations interleave.
THEOREM NeverTooMany == Spec => []Bounded
  <1>1. IInv => Bounded
    BY DEF IInv
  <1> QED
    BY Invariance, <1>1, PTL

\* When DisposeAsync has returned, no session is at work: of a Gateway whatever
\* happens, of a TcpService unless its loop had failed.
THEOREM DisposedIsQuiet == Spec => []Quiet
  <1>1. IInv => Quiet
    BY DEF IInv, DisposeInv, Quiet
  <1> QED
    BY Invariance, <1>1, PTL

-------------------------------------------------------------------------------
(***************************************************************************)
(* Relay: the two pumps of a session.                                      *)
(***************************************************************************)

\* What RelayTypeOK leaves open: the counters are functions of the directions.
Counters == carried \in [Directions -> Nat] /\ got \in [Directions -> Nat]

\* A pump that is reading has written what it read.  One that has come to the end
\* of its source has written everything, and the source sends nothing more.
EndInv ==
  session = "open" => \A d \in Directions :
    /\ pump[d] = "read" => got[d] = carried[d]
    /\ pump[d] \in {"shutdown", "done"} => got[d] = sent[d] /\ source[d] # "open"
    /\ ending[d] = "eof" =>
         got[d] = sent[d] /\ source[d] # "open" /\ pump[d] \in Finished

\* Without a stop, the pair is cancelled on behalf of a direction that failed.
CutInv ==
  ~stopped =>
    /\ pair = "cancelled" => \E d \in Directions : pump[d] = "faulted"
    /\ \A d \in Directions : pump[d] = "cancelled" => pair \in {"expired", "cancelled"}

RelayInv == RelayTypeOK /\ Counters /\ EndInv /\ CutInv

LEMMA InitRelayInv == RelayInit => RelayInv
  <1> SUFFICES ASSUME RelayInit PROVE RelayInv
    OBVIOUS
  <1>1. 0 \in 0..MaxSent
    BY RelayBounds
  <1>2. RelayTypeOK
    <2>1. sent \in [Directions -> 0..MaxSent]
      BY <1>1 DEF RelayInit
    <2>2. \A d \in Directions : 0 <= got[d] /\ got[d] <= carried[d] /\ carried[d] <= sent[d]
      BY DEF RelayInit
    <2> QED
      BY <2>1, <2>2 DEF RelayInit, RelayTypeOK
  <1>3. Counters
    BY DEF RelayInit, Counters
  <1>4. EndInv /\ CutInv
    BY DEF RelayInit, EndInv, CutInv
  <1> QED
    BY <1>2, <1>3, <1>4 DEF RelayInv

\* The programs on both ends and the service's stop.
LEMMA OutsideStep ==
  ASSUME RelayInv, (\E d \in Directions : Send(d) \/ Close(d) \/ Fail(d)) \/ Stop
  PROVE  RelayInv'
  <1> USE RelayBounds DEF RelayInv
  <1>1. ASSUME NEW d \in Directions, Send(d) PROVE RelayInv'
    <2>1. RelayTypeOK' /\ Counters'
      BY <1>1 DEF Send, RelayTypeOK, Counters
    <2>2. EndInv' /\ CutInv'
      BY <1>1 DEF Send, RelayTypeOK, EndInv, CutInv
    <2> QED
      BY <2>1, <2>2
  <1>2. ASSUME NEW d \in Directions, Close(d) PROVE RelayInv'
    BY <1>2 DEF Close, RelayTypeOK, Counters, EndInv, CutInv
  <1>3. ASSUME NEW d \in Directions, Fail(d) PROVE RelayInv'
    <2>1. Back(d) \in Directions
      BY DEF Back, Directions
    <2> QED
      BY <1>3, <2>1 DEF Fail, RelayTypeOK, Counters, EndInv, CutInv
  <1>4. CASE Stop
    BY <1>4 DEF Stop, RelayTypeOK, Counters, EndInv, CutInv
  <1> QED
    BY <1>1, <1>2, <1>3, <1>4

\* One pump.
LEMMA PumpStep ==
  ASSUME RelayInv, NEW d \in Directions, Read(d) \/ Write(d) \/ Shutdown(d) \/ Cancel(d)
  PROVE  RelayInv'
  <1> USE RelayBounds DEF RelayInv, Finished
  <1>1. CASE Read(d)
    <2>1. RelayTypeOK' /\ Counters'
      BY <1>1 DEF Read, RelayTypeOK, Counters
    <2>2. EndInv'
      BY <1>1 DEF Read, RelayTypeOK, Counters, EndInv
    <2>3. CutInv'
      BY <1>1 DEF Read, RelayTypeOK, CutInv
    <2> QED
      BY <2>1, <2>2, <2>3
  <1>2. CASE Write(d)
    <2>1. RelayTypeOK' /\ Counters'
      BY <1>2 DEF Write, RelayTypeOK, Counters
    <2>2. EndInv'
      BY <1>2 DEF Write, RelayTypeOK, Counters, EndInv
    <2>3. CutInv'
      BY <1>2 DEF Write, RelayTypeOK, CutInv
    <2> QED
      BY <2>1, <2>2, <2>3
  <1>3. CASE Shutdown(d)
    <2>1. RelayTypeOK' /\ Counters'
      BY <1>3 DEF Shutdown, RelayTypeOK, Counters
    <2>2. EndInv'
      BY <1>3 DEF Shutdown, RelayTypeOK, Counters, EndInv
    <2>3. CutInv'
      BY <1>3 DEF Shutdown, RelayTypeOK, CutInv
    <2> QED
      BY <2>1, <2>2, <2>3
  <1>4. CASE Cancel(d)
    <2>1. /\ got' \in [Directions -> Nat]
          /\ got[d] <= got'[d] /\ got'[d] <= carried[d]
          /\ \A e \in Directions \ {d} : got'[e] = got[e]
          /\ pump[d] # "write" => got' = got
      BY <1>4 DEF Cancel, RelayTypeOK, Counters
    <2>2. RelayTypeOK' /\ Counters'
      <3>1. ending' \in [Directions -> {"none", "eof", "reset"}]
        BY <1>4 DEF Cancel, RelayTypeOK
      <3>2. pump' \in [Directions -> {"read", "write", "shutdown"} \cup Finished]
        BY <1>4 DEF Cancel, RelayTypeOK
      <3>3. \A e \in Directions : 0 <= got'[e] /\ got'[e] <= carried[e]
        BY <2>1 DEF RelayTypeOK, Counters
      <3> QED
        BY <1>4, <2>1, <3>1, <3>2, <3>3 DEF Cancel, RelayTypeOK, Counters
    <2>3. EndInv'
      BY <1>4, <2>1 DEF Cancel, RelayTypeOK, Counters, EndInv
    <2>4. CutInv'
      BY <1>4 DEF Cancel, Cancelled, RelayTypeOK, CutInv
    <2> QED
      BY <2>2, <2>3, <2>4
  <1> QED
    BY <1>1, <1>2, <1>3, <1>4

\* Forward's waits.
LEMMA ForwardStep ==
  ASSUME RelayInv, FirstEnds \/ TimeLimit \/ EndSession
  PROVE  RelayInv'
  <1> USE DEF RelayInv, Finished
  <1>1. CASE FirstEnds
    <2>1. PICK d \in Directions :
            pump[d] \in Finished /\ pair' = IF pump[d] = "done" THEN "timed" ELSE "cancelled"
      BY <1>1 DEF FirstEnds
    <2>2. RelayTypeOK' /\ Counters' /\ EndInv'
      BY <1>1, <2>1 DEF FirstEnds, RelayTypeOK, Counters, EndInv
    <2>3. CutInv'
      BY <1>1, <2>1 DEF FirstEnds, CutInv
    <2> QED
      BY <2>2, <2>3
  <1>2. CASE TimeLimit
    BY <1>2 DEF TimeLimit, RelayTypeOK, Counters, EndInv, CutInv
  <1>3. CASE EndSession
    <2>1. ending' \in [Directions -> {"none", "eof", "reset"}]
      BY <1>3 DEF EndSession
    <2> QED
      BY <1>3, <2>1 DEF EndSession, RelayTypeOK, Counters, EndInv, CutInv
  <1> QED
    BY <1>1, <1>2, <1>3

LEMMA NextRelayInv == RelayInv /\ [RelayNext]_relayVars => RelayInv'
  <1> SUFFICES ASSUME RelayInv, [RelayNext]_relayVars PROVE RelayInv'
    OBVIOUS
  <1>1. CASE UNCHANGED relayVars
    BY <1>1 DEF relayVars, RelayInv, RelayTypeOK, Counters, EndInv, CutInv
  <1> QED
    BY <1>1, OutsideStep, PumpStep, ForwardStep DEF RelayNext, RelayRest

\* The inductive invariant of the session.
LEMMA RelayInvariance == RelaySpec => []RelayInv
  BY InitRelayInv, NextRelayInv, PTL DEF RelaySpec

-------------------------------------------------------------------------------

\* The types, and with them that nothing arrives that was not sent, hold for any
\* number of chunks.
THEOREM RelayTypeCorrect == RelaySpec => []RelayTypeOK
  <1>1. RelayInv => RelayTypeOK
    BY DEF RelayInv
  <1> QED
    BY <1>1, RelayInvariance, PTL

\* Whoever reads the end of the stream of an open session has read everything:
\* Pump half-closes only behind the last byte it has written.
THEOREM EndComesLast == RelaySpec => []EndIsTheEnd
  <1>1. RelayInv => EndIsTheEnd
    BY DEF RelayInv, EndInv, EndIsTheEnd
  <1> QED
    BY <1>1, RelayInvariance, PTL

\* Next to a direction that ended in order the other one is cut off by the time
\* limit or a stop only: FirstEnds cancels it on behalf of a failure alone.
THEOREM HalfCloseHolds == RelaySpec => []HalfCloseIsPreserved
  <1>1. ASSUME RelayInv PROVE HalfCloseIsPreserved
    <2> SUFFICES ASSUME NEW d \in Directions, pump[Back(d)] = "done",
                        pump[d] = "cancelled", ~stopped
                 PROVE  pair = "expired"
      BY DEF HalfCloseIsPreserved
    <2>1. pair # "cancelled"
      BY <1>1 DEF RelayInv, CutInv, Directions, Back
    <2> QED
      BY <1>1, <2>1 DEF RelayInv, CutInv
  <1> QED
    BY <1>1, RelayInvariance, PTL
===============================================================================
