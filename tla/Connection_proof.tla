--------------------------- MODULE Connection_proof ---------------------------
(***************************************************************************)
(* The safety of the direct connection for any number of starts, rotations *)
(* and failures, whichever parts may break.                                *)
(*                                                                         *)
(* Four arguments that have little but the types in common; each says what *)
(* holds at the steps of a start and of a stop.                            *)
(***************************************************************************)
EXTENDS Connection, TLAPS

-------------------------------------------------------------------------------

\* While a server may be started its world is remembered, and no work goes on
\* behind a window that is closed.
WorldInv ==
  /\ server => world
  /\ gone => ~server
  /\ step = "world" => world
  /\ job # "idle" => ~gone

\* A mapping is only there between its making and its removal; what the host
\* was made with is then what a friend was told.
SecretInv ==
  /\ lease => world
  /\ step \in {"world", "probe", "discover", "router", "map", "gateway", "server"} => ~lease
  /\ step = "probe" => ~hosting
  /\ step = "discover" /\ hosting => world
  /\ step \in {"router", "map"} => world
  /\ step = "map" => hostKey.secret = identity.secret
  /\ lease /\ part["host"] = "up" => hostKey.secret = code.secret

\* Discovery and its login service come and go together, before the other parts;
\* a forgotten Xbox is only there while a stop is about to begin.
ForgottenInv ==
  /\ part["discovery"] = "none" <=> part["login"] = "none"
  /\ step \in {"world", "probe", "discover"} => part["discovery"] = "none"
  /\ ~approved /\ part["discovery"] # "broken" /\ part["login"] # "spent"
       => bridged # "yes" \/ step = "discovery"

\* The status of a former connection is left by a stop that failed: at discovery
\* itself, or later, when discovery is gone.
StatusInv ==
  /\ step \in {"guest", "host", "lease", "gateway", "server"} => part["discovery"] = "none"
  /\ told = "former" /\ job \in {"idle", "rotate"}
       => part["discovery"] # "up" \/ part["login"] \in {"broken", "spent"}

\* The steps belong to the works.
WorkInv ==
  /\ job = "start" <=> step \in {"world", "probe", "discover", "router", "map"}
  /\ job = "stop" <=> step \in {"discovery", "guest", "host", "lease", "gateway", "server"}
  /\ job = "rotate" <=> step = "rotate"

IInv == TypeOK /\ WorkInv /\ WorldInv /\ SecretInv /\ ForgottenInv /\ StatusInv

-------------------------------------------------------------------------------

\* Everything holds before anything is started.
LEMMA Initially == Init => IInv
<1> SUFFICES ASSUME Init PROVE IInv
  OBVIOUS
<1>a. {identity, hostKey, code} \subseteq Keys
  <2>1. NoKey \in Keys
    BY DEF NoKey, Keys
  <2>2. [secret |-> 1, certificate |-> 1] \in Keys
    BY DEF Keys
  <2> QED
    BY <2>1, <2>2 DEF Init
<1>b. {hosting, world, server, lease, healthy, aged, approved, closing, gone} \subseteq BOOLEAN
  BY DEF Init
<1>1. TypeOK
  BY <1>a, <1>b DEF Init, TypeOK, Parts
<1>2. WorkInv /\ WorldInv /\ SecretInv /\ ForgottenInv /\ StatusInv
  BY DEF Init, WorkInv, WorldInv, SecretInv, ForgottenInv, StatusInv, Parts
<1> QED
  BY <1>1, <1>2 DEF IInv

-------------------------------------------------------------------------------

\* The types, one part of them apart from the others.
KeyTypes == identity \in Keys /\ hostKey \in Keys /\ code \in Keys
FlagTypes ==
  /\ hosting \in BOOLEAN /\ world \in BOOLEAN /\ server \in BOOLEAN /\ lease \in BOOLEAN
  /\ healthy \in BOOLEAN /\ aged \in BOOLEAN /\ approved \in BOOLEAN
  /\ closing \in BOOLEAN /\ gone \in BOOLEAN /\ current \in BOOLEAN
PartTypes ==
  /\ part \in [Parts -> {"none", "inert", "up", "broken", "spent"}]
  /\ \A p \in {"discovery", "gateway"} : part[p] # "spent"
StepTypes ==
  /\ bridged \in {"no", "yes", "orphaned"}
  /\ job \in {"idle", "start", "stop", "rotate"} /\ (job = "idle" <=> step = "none")
  /\ step \in {"none", "world", "probe", "discover", "router", "map", "rotate"}
           \cup {"discovery", "guest", "host", "lease", "gateway", "server"}
  /\ check \in {"idle", "renew", "game", "probe"}
  /\ told \in {"present", "former", "probe"}

LEMMA TypesApart == TypeOK <=> KeyTypes /\ FlagTypes /\ PartTypes /\ StepTypes
BY DEF TypeOK, KeyTypes, FlagTypes, PartTypes, StepTypes

LEMMA KeyTypesStay ==
  ASSUME KeyTypes, FlagTypes, PartTypes, StepTypes, [Next]_vars
  PROVE  KeyTypes'
<1> USE DEF KeyTypes, FlagTypes, Keys, keys, xbox, work, checking
<1>1. ASSUME NEW p \in Parts, Break(p) PROVE KeyTypes'
  BY <1>1 DEF Break
<1>2. CASE ChooseMode
  BY <1>2 DEF ChooseMode, Active
<1>3. CASE Pair
  BY <1>3 DEF Pair
<1>4. CASE XboxLogin
  BY <1>4 DEF XboxLogin
<1>5. CASE XboxLogout
  BY <1>5 DEF XboxLogout
<1>6. CASE Age
  BY <1>6 DEF Age
<1>7. CASE BeginStart
  BY <1>7 DEF BeginStart, NewEpoch, Active
<1>8. CASE BeginStop
  BY <1>8 DEF BeginStop, NewEpoch, Active
<1>9. CASE BeginRotate
  BY <1>9 DEF BeginRotate, Renewed
<1>10. CASE StartWorld
  BY <1>10 DEF StartWorld, Goto, Recover, NewEpoch
<1>11. CASE StartProbe
  BY <1>11 DEF StartProbe, Goto, Recover, NewEpoch
<1>12. CASE StartDiscovery
  BY <1>12 DEF StartDiscovery, Goto, Recover, NewEpoch, EndWork
<1>13. CASE StartRouter
  BY <1>13 DEF StartRouter, Goto, Recover, NewEpoch, EndWork, Renewed
<1>14. CASE StartMapping
  BY <1>14 DEF StartMapping, Recover, NewEpoch, EndWork
<1>15. CASE StopDiscovery
  BY <1>15 DEF StopDiscovery, EndWork, Goto
<1>16. CASE StopService("guest", "host")
  BY <1>16 DEF StopService, EndWork, Goto
<1>17. CASE StopService("host", "lease")
  BY <1>17 DEF StopService, EndWork, Goto
<1>18. CASE StopMapping
  BY <1>18 DEF StopMapping, Goto, NoKey
<1>19. CASE StopGateway
  BY <1>19 DEF StopGateway, EndWork, Goto
<1>20. CASE StopWorld
  BY <1>20 DEF StopWorld
<1>21. CASE RotateHost
  BY <1>21 DEF RotateHost, EndWork
<1>22. CASE BeginCheck
  BY <1>22 DEF BeginCheck
<1>23. CASE CheckRenewal
  BY <1>23 DEF CheckRenewal
<1>24. CASE CheckGame
  BY <1>24 DEF CheckGame
<1>25. CASE CheckProbe
  BY <1>25 DEF CheckProbe
<1>26. CASE Close
  BY <1>26 DEF Close, Active
<1>27. CASE Rest
  BY <1>27 DEF Rest, vars
<1>28. CASE UNCHANGED vars
  BY <1>28 DEF vars
<1> QED
  BY <1>1, <1>2, <1>3, <1>4, <1>5, <1>6, <1>7, <1>8, <1>9, <1>10, <1>11,
     <1>12, <1>13, <1>14, <1>15, <1>16, <1>17, <1>18, <1>19, <1>20, <1>21,
     <1>22, <1>23, <1>24, <1>25, <1>26, <1>27, <1>28
     DEF Next, StartSteps, StopSteps, CheckSteps

LEMMA FlagTypesStay ==
  ASSUME KeyTypes, FlagTypes, PartTypes, StepTypes, [Next]_vars
  PROVE  FlagTypes'
<1> USE DEF FlagTypes, keys, xbox, work, checking
<1>1. ASSUME NEW p \in Parts, Break(p) PROVE FlagTypes'
  BY <1>1 DEF Break
<1>2. CASE ChooseMode
  BY <1>2 DEF ChooseMode, Active
<1>3. CASE Pair
  BY <1>3 DEF Pair
<1>4. CASE XboxLogin
  BY <1>4 DEF XboxLogin
<1>5. CASE XboxLogout
  BY <1>5 DEF XboxLogout
<1>6. CASE Age
  BY <1>6 DEF Age
<1>7. CASE BeginStart
  BY <1>7 DEF BeginStart, NewEpoch, Active
<1>8. CASE BeginStop
  BY <1>8 DEF BeginStop, NewEpoch, Active
<1>9. CASE BeginRotate
  BY <1>9 DEF BeginRotate, Renewed
<1>10. CASE StartWorld
  BY <1>10 DEF StartWorld, Goto, Recover, NewEpoch
<1>11. CASE StartProbe
  BY <1>11 DEF StartProbe, Goto, Recover, NewEpoch
<1>12. CASE StartDiscovery
  BY <1>12 DEF StartDiscovery, Goto, Recover, NewEpoch, EndWork
<1>13. CASE StartRouter
  BY <1>13 DEF StartRouter, Goto, Recover, NewEpoch, EndWork, Renewed
<1>14. CASE StartMapping
  BY <1>14 DEF StartMapping, Recover, NewEpoch, EndWork
<1>15. CASE StopDiscovery
  BY <1>15 DEF StopDiscovery, EndWork, Goto
<1>16. CASE StopService("guest", "host")
  BY <1>16 DEF StopService, EndWork, Goto
<1>17. CASE StopService("host", "lease")
  BY <1>17 DEF StopService, EndWork, Goto
<1>18. CASE StopMapping
  BY <1>18 DEF StopMapping, Goto, NoKey
<1>19. CASE StopGateway
  BY <1>19 DEF StopGateway, EndWork, Goto
<1>20. CASE StopWorld
  BY <1>20 DEF StopWorld
<1>21. CASE RotateHost
  BY <1>21 DEF RotateHost, EndWork
<1>22. CASE BeginCheck
  BY <1>22 DEF BeginCheck
<1>23. CASE CheckRenewal
  BY <1>23 DEF CheckRenewal
<1>24. CASE CheckGame
  BY <1>24 DEF CheckGame
<1>25. CASE CheckProbe
  BY <1>25 DEF CheckProbe
<1>26. CASE Close
  BY <1>26 DEF Close, Active
<1>27. CASE Rest
  BY <1>27 DEF Rest, vars
<1>28. CASE UNCHANGED vars
  BY <1>28 DEF vars
<1> QED
  BY <1>1, <1>2, <1>3, <1>4, <1>5, <1>6, <1>7, <1>8, <1>9, <1>10, <1>11,
     <1>12, <1>13, <1>14, <1>15, <1>16, <1>17, <1>18, <1>19, <1>20, <1>21,
     <1>22, <1>23, <1>24, <1>25, <1>26, <1>27, <1>28
     DEF Next, StartSteps, StopSteps, CheckSteps

LEMMA PartTypesStay ==
  ASSUME KeyTypes, FlagTypes, PartTypes, StepTypes, [Next]_vars
  PROVE  PartTypes'
<1> USE DEF PartTypes, Parts, keys, xbox, work, checking
<1>1. ASSUME NEW p \in Parts, Break(p) PROVE PartTypes'
  BY <1>1 DEF Break
<1>2. CASE ChooseMode
  BY <1>2 DEF ChooseMode, Active
<1>3. CASE Pair
  BY <1>3 DEF Pair
<1>4. CASE XboxLogin
  BY <1>4 DEF XboxLogin
<1>5. CASE XboxLogout
  BY <1>5 DEF XboxLogout
<1>6. CASE Age
  BY <1>6 DEF Age
<1>7. CASE BeginStart
  BY <1>7 DEF BeginStart, NewEpoch, Active
<1>8. CASE BeginStop
  BY <1>8 DEF BeginStop, NewEpoch, Active
<1>9. CASE BeginRotate
  BY <1>9 DEF BeginRotate, Renewed
<1>10. CASE StartWorld
  BY <1>10 DEF StartWorld, Goto, Recover, NewEpoch
<1>11. CASE StartProbe
  BY <1>11 DEF StartProbe, Goto, Recover, NewEpoch
<1>12. CASE StartDiscovery
  BY <1>12 DEF StartDiscovery, Goto, Recover, NewEpoch, EndWork
<1>13. CASE StartRouter
  BY <1>13 DEF StartRouter, Goto, Recover, NewEpoch, EndWork, Renewed
<1>14. CASE StartMapping
  BY <1>14 DEF StartMapping, Recover, NewEpoch, EndWork
<1>15. CASE StopDiscovery
  BY <1>15 DEF StopDiscovery, EndWork, Goto
<1>16. CASE StopService("guest", "host")
  BY <1>16 DEF StopService, EndWork, Goto
<1>17. CASE StopService("host", "lease")
  BY <1>17 DEF StopService, EndWork, Goto
<1>18. CASE StopMapping
  BY <1>18 DEF StopMapping, Goto, NoKey
<1>19. CASE StopGateway
  BY <1>19 DEF StopGateway, EndWork, Goto
<1>20. CASE StopWorld
  BY <1>20 DEF StopWorld
<1>21. CASE RotateHost
  BY <1>21 DEF RotateHost, EndWork
<1>22. CASE BeginCheck
  BY <1>22 DEF BeginCheck
<1>23. CASE CheckRenewal
  BY <1>23 DEF CheckRenewal
<1>24. CASE CheckGame
  BY <1>24 DEF CheckGame
<1>25. CASE CheckProbe
  BY <1>25 DEF CheckProbe
<1>26. CASE Close
  BY <1>26 DEF Close, Active
<1>27. CASE Rest
  BY <1>27 DEF Rest, vars
<1>28. CASE UNCHANGED vars
  BY <1>28 DEF vars
<1> QED
  BY <1>1, <1>2, <1>3, <1>4, <1>5, <1>6, <1>7, <1>8, <1>9, <1>10, <1>11,
     <1>12, <1>13, <1>14, <1>15, <1>16, <1>17, <1>18, <1>19, <1>20, <1>21,
     <1>22, <1>23, <1>24, <1>25, <1>26, <1>27, <1>28
     DEF Next, StartSteps, StopSteps, CheckSteps

LEMMA StepTypesStay ==
  ASSUME KeyTypes, FlagTypes, PartTypes, StepTypes, [Next]_vars
  PROVE  StepTypes'
<1> USE DEF StepTypes, keys, xbox, work, checking
<1>1. ASSUME NEW p \in Parts, Break(p) PROVE StepTypes'
  BY <1>1 DEF Break
<1>2. CASE ChooseMode
  BY <1>2 DEF ChooseMode, Active
<1>3. CASE Pair
  BY <1>3 DEF Pair
<1>4. CASE XboxLogin
  BY <1>4 DEF XboxLogin
<1>5. CASE XboxLogout
  BY <1>5 DEF XboxLogout
<1>6. CASE Age
  BY <1>6 DEF Age
<1>7. CASE BeginStart
  BY <1>7 DEF BeginStart, NewEpoch, Active
<1>8. CASE BeginStop
  BY <1>8 DEF BeginStop, NewEpoch, Active
<1>9. CASE BeginRotate
  BY <1>9 DEF BeginRotate, Renewed
<1>10. CASE StartWorld
  BY <1>10 DEF StartWorld, Goto, Recover, NewEpoch
<1>11. CASE StartProbe
  BY <1>11 DEF StartProbe, Goto, Recover, NewEpoch
<1>12. CASE StartDiscovery
  BY <1>12 DEF StartDiscovery, Goto, Recover, NewEpoch, EndWork
<1>13. CASE StartRouter
  BY <1>13 DEF StartRouter, Goto, Recover, NewEpoch, EndWork, Renewed
<1>14. CASE StartMapping
  BY <1>14 DEF StartMapping, Recover, NewEpoch, EndWork
<1>15. CASE StopDiscovery
  BY <1>15 DEF StopDiscovery, EndWork, Goto
<1>16. CASE StopService("guest", "host")
  BY <1>16 DEF StopService, EndWork, Goto
<1>17. CASE StopService("host", "lease")
  BY <1>17 DEF StopService, EndWork, Goto
<1>18. CASE StopMapping
  BY <1>18 DEF StopMapping, Goto, NoKey
<1>19. CASE StopGateway
  BY <1>19 DEF StopGateway, EndWork, Goto
<1>20. CASE StopWorld
  BY <1>20 DEF StopWorld
<1>21. CASE RotateHost
  BY <1>21 DEF RotateHost, EndWork
<1>22. CASE BeginCheck
  BY <1>22 DEF BeginCheck
<1>23. CASE CheckRenewal
  BY <1>23 DEF CheckRenewal
<1>24. CASE CheckGame
  BY <1>24 DEF CheckGame
<1>25. CASE CheckProbe
  BY <1>25 DEF CheckProbe
<1>26. CASE Close
  BY <1>26 DEF Close, Active
<1>27. CASE Rest
  BY <1>27 DEF Rest, vars
<1>28. CASE UNCHANGED vars
  BY <1>28 DEF vars
<1> QED
  BY <1>1, <1>2, <1>3, <1>4, <1>5, <1>6, <1>7, <1>8, <1>9, <1>10, <1>11,
     <1>12, <1>13, <1>14, <1>15, <1>16, <1>17, <1>18, <1>19, <1>20, <1>21,
     <1>22, <1>23, <1>24, <1>25, <1>26, <1>27, <1>28
     DEF Next, StartSteps, StopSteps, CheckSteps

LEMMA TypesStay ==
  ASSUME IInv, [Next]_vars
  PROVE  TypeOK'
<1>1. KeyTypes /\ FlagTypes /\ PartTypes /\ StepTypes
  BY TypesApart DEF IInv
<1>2. KeyTypes' /\ FlagTypes' /\ PartTypes' /\ StepTypes'
  BY <1>1, KeyTypesStay, FlagTypesStay, PartTypesStay, StepTypesStay
<1> QED
  BY <1>2 DEF TypeOK, KeyTypes, FlagTypes, PartTypes, StepTypes

LEMMA WorksStay ==
  ASSUME IInv, [Next]_vars
  PROVE  WorkInv'
<1> USE DEF IInv, TypeOK, Parts, WorkInv, keys, xbox, work, checking
<1>1. ASSUME NEW p \in Parts, Break(p) PROVE WorkInv'
  BY <1>1 DEF Break
<1>2. CASE ChooseMode
  BY <1>2 DEF ChooseMode, Active
<1>3. CASE Pair
  BY <1>3 DEF Pair
<1>4. CASE XboxLogin
  BY <1>4 DEF XboxLogin
<1>5. CASE XboxLogout
  BY <1>5 DEF XboxLogout
<1>6. CASE Age
  BY <1>6 DEF Age
<1>7. CASE BeginStart
  BY <1>7 DEF BeginStart, NewEpoch, Active
<1>8. CASE BeginStop
  BY <1>8 DEF BeginStop, NewEpoch, Active
<1>9. CASE BeginRotate
  BY <1>9 DEF BeginRotate, Renewed
<1>10. CASE StartWorld
  BY <1>10 DEF StartWorld, Goto, Recover, NewEpoch
<1>11. CASE StartProbe
  BY <1>11 DEF StartProbe, Goto, Recover, NewEpoch
<1>12. CASE StartDiscovery
  BY <1>12 DEF StartDiscovery, Goto, Recover, NewEpoch, EndWork
<1>13. CASE StartRouter
  BY <1>13 DEF StartRouter, Goto, Recover, NewEpoch, EndWork, Renewed
<1>14. CASE StartMapping
  BY <1>14 DEF StartMapping, Recover, NewEpoch, EndWork
<1>15. CASE StopDiscovery
  BY <1>15 DEF StopDiscovery, EndWork, Goto
<1>16. CASE StopService("guest", "host")
  BY <1>16 DEF StopService, EndWork, Goto
<1>17. CASE StopService("host", "lease")
  BY <1>17 DEF StopService, EndWork, Goto
<1>18. CASE StopMapping
  BY <1>18 DEF StopMapping, Goto, NoKey
<1>19. CASE StopGateway
  BY <1>19 DEF StopGateway, EndWork, Goto
<1>20. CASE StopWorld
  BY <1>20 DEF StopWorld
<1>21. CASE RotateHost
  BY <1>21 DEF RotateHost, EndWork
<1>22. CASE BeginCheck
  BY <1>22 DEF BeginCheck
<1>23. CASE CheckRenewal
  BY <1>23 DEF CheckRenewal
<1>24. CASE CheckGame
  BY <1>24 DEF CheckGame
<1>25. CASE CheckProbe
  BY <1>25 DEF CheckProbe
<1>26. CASE Close
  BY <1>26 DEF Close, Active
<1>27. CASE Rest
  BY <1>27 DEF Rest, vars
<1>28. CASE UNCHANGED vars
  BY <1>28 DEF vars
<1> QED
  BY <1>1, <1>2, <1>3, <1>4, <1>5, <1>6, <1>7, <1>8, <1>9, <1>10, <1>11,
     <1>12, <1>13, <1>14, <1>15, <1>16, <1>17, <1>18, <1>19, <1>20, <1>21,
     <1>22, <1>23, <1>24, <1>25, <1>26, <1>27, <1>28
     DEF Next, StartSteps, StopSteps, CheckSteps

LEMMA WorldStays ==
  ASSUME IInv, [Next]_vars
  PROVE  WorldInv'
<1> USE DEF IInv, TypeOK, Parts, WorkInv, WorldInv, keys, xbox, work, checking
<1>1. ASSUME NEW p \in Parts, Break(p) PROVE WorldInv'
  BY <1>1 DEF Break
<1>2. CASE ChooseMode
  BY <1>2 DEF ChooseMode, Active
<1>3. CASE Pair
  BY <1>3 DEF Pair
<1>4. CASE XboxLogin
  BY <1>4 DEF XboxLogin
<1>5. CASE XboxLogout
  BY <1>5 DEF XboxLogout
<1>6. CASE Age
  BY <1>6 DEF Age
<1>7. CASE BeginStart
  BY <1>7 DEF BeginStart, NewEpoch, Active
<1>8. CASE BeginStop
  BY <1>8 DEF BeginStop, NewEpoch, Active
<1>9. CASE BeginRotate
  BY <1>9 DEF BeginRotate, Renewed
<1>10. CASE StartWorld
  BY <1>10 DEF StartWorld, Goto, Recover, NewEpoch
<1>11. CASE StartProbe
  BY <1>11 DEF StartProbe, Goto, Recover, NewEpoch
<1>12. CASE StartDiscovery
  BY <1>12 DEF StartDiscovery, Goto, Recover, NewEpoch, EndWork
<1>13. CASE StartRouter
  BY <1>13 DEF StartRouter, Goto, Recover, NewEpoch, EndWork, Renewed
<1>14. CASE StartMapping
  BY <1>14 DEF StartMapping, Recover, NewEpoch, EndWork
<1>15. CASE StopDiscovery
  BY <1>15 DEF StopDiscovery, EndWork, Goto
<1>16. CASE StopService("guest", "host")
  BY <1>16 DEF StopService, EndWork, Goto
<1>17. CASE StopService("host", "lease")
  BY <1>17 DEF StopService, EndWork, Goto
<1>18. CASE StopMapping
  BY <1>18 DEF StopMapping, Goto, NoKey
<1>19. CASE StopGateway
  BY <1>19 DEF StopGateway, EndWork, Goto
<1>20. CASE StopWorld
  BY <1>20 DEF StopWorld
<1>21. CASE RotateHost
  BY <1>21 DEF RotateHost, EndWork
<1>22. CASE BeginCheck
  BY <1>22 DEF BeginCheck
<1>23. CASE CheckRenewal
  BY <1>23 DEF CheckRenewal
<1>24. CASE CheckGame
  BY <1>24 DEF CheckGame
<1>25. CASE CheckProbe
  BY <1>25 DEF CheckProbe
<1>26. CASE Close
  BY <1>26 DEF Close, Active
<1>27. CASE Rest
  BY <1>27 DEF Rest, vars
<1>28. CASE UNCHANGED vars
  BY <1>28 DEF vars
<1> QED
  BY <1>1, <1>2, <1>3, <1>4, <1>5, <1>6, <1>7, <1>8, <1>9, <1>10, <1>11,
     <1>12, <1>13, <1>14, <1>15, <1>16, <1>17, <1>18, <1>19, <1>20, <1>21,
     <1>22, <1>23, <1>24, <1>25, <1>26, <1>27, <1>28
     DEF Next, StartSteps, StopSteps, CheckSteps

LEMMA SecretStays ==
  ASSUME IInv, [Next]_vars
  PROVE  SecretInv'
<1> USE DEF IInv, TypeOK, Parts, Keys, WorkInv, SecretInv, keys, xbox, work, checking
<1>1. ASSUME NEW p \in Parts, Break(p) PROVE SecretInv'
  BY <1>1 DEF Break
<1>2. CASE ChooseMode
  BY <1>2 DEF ChooseMode, Active
<1>3. CASE Pair
  BY <1>3 DEF Pair
<1>4. CASE XboxLogin
  BY <1>4 DEF XboxLogin
<1>5. CASE XboxLogout
  BY <1>5 DEF XboxLogout
<1>6. CASE Age
  BY <1>6 DEF Age
<1>7. CASE BeginStart
  BY <1>7 DEF BeginStart, NewEpoch, Active
<1>8. CASE BeginStop
  BY <1>8 DEF BeginStop, NewEpoch, Active
<1>9. CASE BeginRotate
  BY <1>9 DEF BeginRotate, Renewed
<1>10. CASE StartWorld
  BY <1>10 DEF StartWorld, WorldInv, Goto, Recover, NewEpoch
<1>11. CASE StartProbe
  BY <1>11 DEF StartProbe, Goto, Recover, NewEpoch
<1>12. CASE StartDiscovery
  BY <1>12 DEF StartDiscovery, Goto, Recover, NewEpoch, EndWork
<1>13. CASE StartRouter
  BY <1>13 DEF StartRouter, Goto, Recover, NewEpoch, EndWork, Renewed
<1>14. CASE StartMapping
  BY <1>14 DEF StartMapping, Recover, NewEpoch, EndWork
<1>15. CASE StopDiscovery
  BY <1>15 DEF StopDiscovery, EndWork, Goto
<1>16. CASE StopService("guest", "host")
  BY <1>16 DEF StopService, EndWork, Goto
<1>17. CASE StopService("host", "lease")
  BY <1>17 DEF StopService, EndWork, Goto
<1>18. CASE StopMapping
  BY <1>18 DEF StopMapping, Goto, NoKey
<1>19. CASE StopGateway
  BY <1>19 DEF StopGateway, EndWork, Goto
<1>20. CASE StopWorld
  BY <1>20 DEF StopWorld
<1>21. CASE RotateHost
  BY <1>21 DEF RotateHost, EndWork
<1>22. CASE BeginCheck
  BY <1>22 DEF BeginCheck
<1>23. CASE CheckRenewal
  BY <1>23 DEF CheckRenewal
<1>24. CASE CheckGame
  BY <1>24 DEF CheckGame
<1>25. CASE CheckProbe
  BY <1>25 DEF CheckProbe
<1>26. CASE Close
  BY <1>26 DEF Close, Active
<1>27. CASE Rest
  BY <1>27 DEF Rest, vars
<1>28. CASE UNCHANGED vars
  BY <1>28 DEF vars
<1> QED
  BY <1>1, <1>2, <1>3, <1>4, <1>5, <1>6, <1>7, <1>8, <1>9, <1>10, <1>11,
     <1>12, <1>13, <1>14, <1>15, <1>16, <1>17, <1>18, <1>19, <1>20, <1>21,
     <1>22, <1>23, <1>24, <1>25, <1>26, <1>27, <1>28
     DEF Next, StartSteps, StopSteps, CheckSteps

LEMMA ForgottenStays ==
  ASSUME IInv, [Next]_vars
  PROVE  ForgottenInv'
<1> USE DEF IInv, TypeOK, Parts, WorkInv, ForgottenInv, keys, xbox, work, checking
<1>1. ASSUME NEW p \in Parts, Break(p) PROVE ForgottenInv'
  BY <1>1 DEF Break
<1>2. CASE ChooseMode
  BY <1>2 DEF ChooseMode, Active
<1>3. CASE Pair
  BY <1>3 DEF Pair
<1>4. CASE XboxLogin
  BY <1>4 DEF XboxLogin
<1>5. CASE XboxLogout
  BY <1>5 DEF XboxLogout
<1>6. CASE Age
  BY <1>6 DEF Age
<1>7. CASE BeginStart
  BY <1>7 DEF BeginStart, NewEpoch, Active
<1>8. CASE BeginStop
  BY <1>8 DEF BeginStop, NewEpoch, Active
<1>9. CASE BeginRotate
  BY <1>9 DEF BeginRotate, Renewed
<1>10. CASE StartWorld
  BY <1>10 DEF StartWorld, Goto, Recover, NewEpoch
<1>11. CASE StartProbe
  BY <1>11 DEF StartProbe, Goto, Recover, NewEpoch
<1>12. CASE StartDiscovery
  BY <1>12 DEF StartDiscovery, Goto, Recover, NewEpoch, EndWork
<1>13. CASE StartRouter
  BY <1>13 DEF StartRouter, Goto, Recover, NewEpoch, EndWork, Renewed
<1>14. CASE StartMapping
  BY <1>14 DEF StartMapping, Recover, NewEpoch, EndWork
<1>15. CASE StopDiscovery
  BY <1>15 DEF StopDiscovery, EndWork, Goto
<1>16. CASE StopService("guest", "host")
  BY <1>16 DEF StopService, EndWork, Goto
<1>17. CASE StopService("host", "lease")
  BY <1>17 DEF StopService, EndWork, Goto
<1>18. CASE StopMapping
  BY <1>18 DEF StopMapping, Goto, NoKey
<1>19. CASE StopGateway
  BY <1>19 DEF StopGateway, EndWork, Goto
<1>20. CASE StopWorld
  BY <1>20 DEF StopWorld
<1>21. CASE RotateHost
  BY <1>21 DEF RotateHost, EndWork
<1>22. CASE BeginCheck
  BY <1>22 DEF BeginCheck
<1>23. CASE CheckRenewal
  BY <1>23 DEF CheckRenewal
<1>24. CASE CheckGame
  BY <1>24 DEF CheckGame
<1>25. CASE CheckProbe
  BY <1>25 DEF CheckProbe
<1>26. CASE Close
  BY <1>26 DEF Close, Active
<1>27. CASE Rest
  BY <1>27 DEF Rest, vars
<1>28. CASE UNCHANGED vars
  BY <1>28 DEF vars
<1> QED
  BY <1>1, <1>2, <1>3, <1>4, <1>5, <1>6, <1>7, <1>8, <1>9, <1>10, <1>11,
     <1>12, <1>13, <1>14, <1>15, <1>16, <1>17, <1>18, <1>19, <1>20, <1>21,
     <1>22, <1>23, <1>24, <1>25, <1>26, <1>27, <1>28
     DEF Next, StartSteps, StopSteps, CheckSteps

LEMMA StatusStays ==
  ASSUME IInv, [Next]_vars
  PROVE  StatusInv'
<1> USE DEF IInv, TypeOK, Parts, WorkInv, StatusInv, keys, xbox, work, checking
<1>1. ASSUME NEW p \in Parts, Break(p) PROVE StatusInv'
  BY <1>1 DEF Break
<1>2. CASE ChooseMode
  BY <1>2 DEF ChooseMode, Active
<1>3. CASE Pair
  BY <1>3 DEF Pair
<1>4. CASE XboxLogin
  BY <1>4 DEF XboxLogin
<1>5. CASE XboxLogout
  BY <1>5 DEF XboxLogout
<1>6. CASE Age
  BY <1>6 DEF Age
<1>7. CASE BeginStart
  BY <1>7 DEF BeginStart, NewEpoch, Active
<1>8. CASE BeginStop
  BY <1>8 DEF BeginStop, NewEpoch, Active
<1>9. CASE BeginRotate
  BY <1>9 DEF BeginRotate, Renewed
<1>10. CASE StartWorld
  BY <1>10 DEF StartWorld, Goto, Recover, NewEpoch
<1>11. CASE StartProbe
  BY <1>11 DEF StartProbe, Goto, Recover, NewEpoch
<1>12. CASE StartDiscovery
  BY <1>12 DEF StartDiscovery, Goto, Recover, NewEpoch, EndWork
<1>13. CASE StartRouter
  BY <1>13 DEF StartRouter, Goto, Recover, NewEpoch, EndWork, Renewed
<1>14. CASE StartMapping
  BY <1>14 DEF StartMapping, Recover, NewEpoch, EndWork
<1>15. CASE StopDiscovery
  BY <1>15 DEF StopDiscovery, EndWork, Goto
<1>16. CASE StopService("guest", "host")
  BY <1>16 DEF StopService, EndWork, Goto
<1>17. CASE StopService("host", "lease")
  BY <1>17 DEF StopService, EndWork, Goto
<1>18. CASE StopMapping
  BY <1>18 DEF StopMapping, Goto, NoKey
<1>19. CASE StopGateway
  BY <1>19 DEF StopGateway, EndWork, Goto
<1>20. CASE StopWorld
  BY <1>20 DEF StopWorld
<1>21. CASE RotateHost
  BY <1>21 DEF RotateHost, EndWork
<1>22. CASE BeginCheck
  BY <1>22 DEF BeginCheck
<1>23. CASE CheckRenewal
  BY <1>23 DEF CheckRenewal
<1>24. CASE CheckGame
  BY <1>24 DEF CheckGame
<1>25. CASE CheckProbe
  BY <1>25 DEF CheckProbe
<1>26. CASE Close
  BY <1>26 DEF Close, Active
<1>27. CASE Rest
  BY <1>27 DEF Rest, vars
<1>28. CASE UNCHANGED vars
  BY <1>28 DEF vars
<1> QED
  BY <1>1, <1>2, <1>3, <1>4, <1>5, <1>6, <1>7, <1>8, <1>9, <1>10, <1>11,
     <1>12, <1>13, <1>14, <1>15, <1>16, <1>17, <1>18, <1>19, <1>20, <1>21,
     <1>22, <1>23, <1>24, <1>25, <1>26, <1>27, <1>28
     DEF Next, StartSteps, StopSteps, CheckSteps

LEMMA Preserved ==
  ASSUME IInv, [Next]_vars
  PROVE  IInv'
<1>1. TypeOK' /\ WorkInv' /\ WorldInv'
  BY TypesStay, WorksStay, WorldStays
<1>2. SecretInv' /\ ForgottenInv' /\ StatusInv'
  BY SecretStays, ForgottenStays, StatusStays
<1> QED
  BY <1>1, <1>2 DEF IInv

LEMMA Invariance == Spec => []IInv
<1>1. IInv /\ [Next]_vars => IInv'
  BY Preserved
<1> QED
  BY Initially, <1>1, PTL DEF Spec

-------------------------------------------------------------------------------

\* The state of the window has its types, and a button's work is always at one
\* of its steps (Work and busy, MainWindow.xaml.cs).
THEOREM TypeCorrect == Spec => []TypeOK
<1>1. IInv => TypeOK
  BY DEF IInv
<1> QED
  BY <1>1, Invariance, PTL

\* A server that was started is remembered until its stop has succeeded, and no
\* window closes before (StartDirect and StopConnection, DirectConnection.cs).
THEOREM NoneIsForgotten == Spec => []NoServerForgotten
<1>1. IInv => NoServerForgotten
  BY DEF IInv, WorldInv, NoServerForgotten
<1> QED
  BY <1>1, Invariance, PTL

\* The invitation a friend can be given has the secret of the host that listens
\* (StartDirect and RotateDirect).
THEOREM SecretFits == Spec => []SecretOpensHost
<1>1. IInv => SecretOpensHost
  BY DEF IInv, SecretInv, SecretOpensHost, CanCopy
<1> QED
  BY <1>1, Invariance, PTL

\* Forgetting the Xboxes ends the session of each of them, unless a loop of
\* discovery or of the login service has failed (ForgetXboxes, StopConnection).
THEOREM ForgottenStayOut == Spec => []ForgottenAreOut
<1>1. IInv => ForgottenAreOut
  BY DEF IInv, WorkInv, ForgottenInv, ForgottenAreOut
<1> QED
  BY <1>1, Invariance, PTL

\* What the window tells of an intact connection is of this connection
\* (connectionEpoch, CheckDirectStatus).
THEOREM StatusTells == Spec => []StatusIsCurrent
<1>1. IInv => StatusIsCurrent
  BY DEF IInv, StatusInv, StatusIsCurrent, Active, Intact, Parts
<1> QED
  BY <1>1, Invariance, PTL

=============================================================================
