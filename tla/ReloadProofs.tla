----------------------------- MODULE ReloadProofs -----------------------------
(* Why a configuration change never ends the process, for any number of    *)
(* changes, rotations and failures.                                        *)
EXTENDS Reload, TLAPS

(* A closed cancelCh means that reloadCh has been filled; a cancelled      *)
(* context has one of three causes, as has the end of Run; a signal is in  *)
(* a channel only after it was sent.                                       *)
CauseKnown ==
    /\ cancelCh \/ bridge = "sent" => reloadCh # None
    /\ sigCh => sigSent
    /\ done \/ main = "select" => sigSent \/ failed \/ reloadCh # None

(* Before the first round, and after the process has exited, there are no  *)
(* goroutines.                                                             *)
Quiet ==
    main \in {"load", "exited"} =>
        ~done /\ ~cancelCh /\ ~sigCh /\ bridge = "none" /\ handler = "off"

ReloadInv == TypeOK /\ CauseKnown /\ Quiet /\ ExitsForCause

-----------------------------------------------------------------------------
(* An empty reloadCh differs from one with a configuration (reloadCh in    *)
(* main.go).                                                               *)
LEMMA NoneIsNoVersion == None \notin Version
  BY ReloadAssumption DEF None, Version

(* The numbers of configurations, certificates and failures.               *)
LEMMA VersionFacts ==
    /\ 0 \in Version
    /\ \A v \in Version : v < MaxEdits => v + 1 \in Version
    /\ {0, 1, MaxRotations} \subseteq 0..MaxRotations
    /\ \A r \in 0..MaxRotations : r < MaxRotations => r + 1 \in 0..MaxRotations
    /\ \A f \in 0..MaxFaults : f < MaxFaults => f + 1 \in 0..MaxFaults
    /\ QueueCap \in Nat
  BY ReloadAssumption DEF Version

(* The two halves of TypeOK.                                               *)
Flags ==
    /\ sigSent \in BOOLEAN /\ cancelCh \in BOOLEAN /\ done \in BOOLEAN
    /\ sigCh \in BOOLEAN /\ certCh \in BOOLEAN
    /\ missed \in BOOLEAN /\ certMissed \in BOOLEAN
    /\ failed \in BOOLEAN /\ reloaded \in BOOLEAN

Values ==
    /\ spec \in Version /\ cert \in 0..MaxRotations /\ tls \in 0..MaxRotations
    /\ faults \in 0..MaxFaults
    /\ stream \in {"off", "down", "up"}
    /\ wire \in Seq(Version) /\ queue \in Seq(Version) /\ Len(queue) <= QueueCap
    /\ main \in {"load", "start", "boot", "run", "select", "exited"}
    /\ cfg \in Version /\ newCfg \in Version /\ reloadCh \in Version \cup {None}
    /\ bridge \in {"none", "wait", "took", "sent"}
    /\ handler \in {"off", "starting", "on", "stopped"}
    /\ certWatch \in {"off", "starting", "on"}
    /\ dot \in {"off", "starting", "serving", "failed"}
    /\ port \in {"free", "current", "stale"} /\ late \in Nat

(* Channels and flags stay Booleans in every step of main.go and Run.      *)
LEMMA FlagsStep ==
    ASSUME Flags, [Next]_vars
    PROVE  Flags'
  <1> USE DEF Flags, vars, envVars, watchVars, bridgeVars, runVars, lnVars, certVars, history
  <1>1. CASE Edit
    BY Zenon, <1>1 DEF Edit
  <1>2. CASE Replace
    BY Zenon, <1>2 DEF Replace
  <1>3. CASE Rotate
    BY Zenon, <1>3 DEF Rotate, NextCert
  <1>4. CASE Connect
    BY Zenon, <1>4 DEF Connect
  <1>5. CASE StreamLost
    BY Zenon, <1>5 DEF StreamLost, Fault
  <1>6. CASE Deliver
    BY Zenon, <1>6 DEF Deliver
  <1>7. CASE BridgeTakes
    BY Zenon, <1>7 DEF BridgeTakes
  <1>8. CASE BridgeTakesCert
    BY Zenon, <1>8 DEF BridgeTakesCert
  <1>9. CASE BridgeEnds
    BY Zenon, <1>9 DEF BridgeEnds
  <1>10. CASE BridgeSends
    BY Zenon, <1>10 DEF BridgeSends
  <1>11. CASE BridgeCancels
    BY Zenon, <1>11 DEF BridgeCancels
  <1>12. CASE CancelSeen
    BY Zenon, <1>12 DEF CancelSeen
  <1>13. CASE Register
    BY Zenon, <1>13 DEF Register
  <1>14. CASE OnSignal
    BY Zenon, <1>14 DEF OnSignal
  <1>15. CASE OnDone
    BY Zenon, <1>15 DEF OnDone
  <1>16. CASE CertWatchStarts
    BY Zenon, <1>16 DEF CertWatchStarts
  <1>17. CASE ServerFails
    BY Zenon, <1>17 DEF ServerFails, Fault
  <1>18. CASE LoadConfig
    BY Zenon, <1>18 DEF LoadConfig
  <1>19. CASE StartRun
    BY Zenon, <1>19 DEF StartRun
  <1>20. CASE LoadTLS
    BY Zenon, <1>20 DEF LoadTLS, loadTLS, Fault
  <1>21. CASE RunReturns
    BY Zenon, <1>21 DEF RunReturns
  <1>22. CASE Reloads
    BY Zenon, <1>22 DEF Reloads
  <1>23. CASE Terminates
    BY Zenon, <1>23 DEF Terminates, Exit
  <1>24. CASE Fatal
    BY Zenon, <1>24 DEF Fatal, Fault, Exit
  <1>25. CASE Signal
    BY Zenon, <1>25 DEF Signal, Exit
  <1>26. CASE Restart
    BY Zenon, <1>26 DEF Restart
  <1>27. CASE UNCHANGED vars
    BY Zenon, <1>27 DEF vars, envVars, watchVars, bridgeVars, runVars, lnVars, certVars, history
  <1>28. CASE DotListens
    BY Zenon, <1>28 DEF DotListens
  <1>29. CASE LateListens
    BY Zenon, <1>29 DEF LateListens
  <1>30. CASE ListenerCloses
    BY Zenon, <1>30 DEF ListenerCloses
  <1>31. CASE RetryTLS
    BY Zenon, <1>31 DEF RetryTLS, loadTLS, Fault
  <1>32. CASE RetryEnds
    BY Zenon, <1>32 DEF RetryEnds
  <1>33. CASE CertWatchFails
    BY Zenon, <1>33 DEF CertWatchFails, Fault
  <1> QED
    BY <1>1, <1>2, <1>3, <1>4, <1>5, <1>6, <1>7, <1>8, <1>9, <1>10, <1>11, <1>12, <1>13, <1>14, <1>15,
       <1>16, <1>17, <1>18, <1>19, <1>20, <1>21, <1>22, <1>23, <1>24, <1>25, <1>26, <1>27, <1>28, <1>29, <1>30,
       <1>31, <1>32, <1>33 DEF Next

(* Versions, queues and goroutine states keep their types, cfgCh and the   *)
(* watch buffer their capacity.                                            *)
LEMMA ValuesStep ==
    ASSUME Values, [Next]_vars
    PROVE  Values'
  <1> USE DEF Values, vars, envVars, watchVars, bridgeVars, runVars, lnVars, certVars, history
  <1>1. CASE Edit
    BY <1>1, VersionFacts DEF Edit
  <1>2. CASE Replace
    BY <1>2, VersionFacts DEF Replace
  <1>3. CASE Rotate
    <2>1. NextCert \in 0..MaxRotations
      BY <1>3, VersionFacts DEF Rotate, NextCert
    <2> QED
      BY <1>3, <2>1 DEF Rotate
  <1>4. CASE Connect
    BY <1>4, VersionFacts DEF Connect
  <1>5. CASE StreamLost
    BY <1>5, VersionFacts DEF StreamLost, Fault
  <1>6. CASE Deliver
    BY <1>6, VersionFacts DEF Deliver
  <1>7. CASE BridgeTakes
    BY <1>7, VersionFacts DEF BridgeTakes
  <1>8. CASE BridgeTakesCert
    BY <1>8, VersionFacts DEF BridgeTakesCert
  <1>9. CASE BridgeEnds
    BY <1>9, VersionFacts DEF BridgeEnds
  <1>10. CASE BridgeSends
    BY <1>10, VersionFacts DEF BridgeSends
  <1>11. CASE BridgeCancels
    BY <1>11, VersionFacts DEF BridgeCancels
  <1>12. CASE CancelSeen
    BY <1>12, VersionFacts DEF CancelSeen
  <1>13. CASE Register
    BY <1>13, VersionFacts DEF Register
  <1>14. CASE OnSignal
    BY <1>14, VersionFacts DEF OnSignal
  <1>15. CASE OnDone
    BY <1>15, VersionFacts DEF OnDone
  <1>16. CASE CertWatchStarts
    BY <1>16, VersionFacts DEF CertWatchStarts
  <1>17. CASE ServerFails
    BY <1>17, VersionFacts DEF ServerFails, Fault
  <1>18. CASE LoadConfig
    BY <1>18, VersionFacts DEF LoadConfig
  <1>19. CASE StartRun
    BY <1>19, VersionFacts DEF StartRun
  <1>20. CASE LoadTLS
    BY <1>20, VersionFacts DEF LoadTLS, loadTLS, Fault
  <1>21. CASE RunReturns
    BY <1>21, VersionFacts DEF RunReturns
  <1>22. CASE Reloads
    BY <1>22, VersionFacts DEF Reloads
  <1>23. CASE Terminates
    BY <1>23, VersionFacts DEF Terminates, Exit
  <1>24. CASE Fatal
    BY <1>24, VersionFacts DEF Fatal, Fault, Exit
  <1>25. CASE Signal
    <2>1. CASE handler = "on"
      BY <1>25, <2>1 DEF Signal
    <2>2. CASE handler # "on"
      BY <1>25, <2>2, VersionFacts DEF Signal, Exit
    <2> QED
      BY <2>1, <2>2
  <1>26. CASE Restart
    BY <1>26, VersionFacts DEF Restart
  <1>27. CASE UNCHANGED vars
    BY <1>27 DEF vars, envVars, watchVars, bridgeVars, runVars, lnVars, certVars, history
  <1>28. CASE DotListens
    BY <1>28, VersionFacts DEF DotListens
  <1>29. CASE LateListens
    BY <1>29, VersionFacts DEF LateListens
  <1>30. CASE ListenerCloses
    BY <1>30, VersionFacts DEF ListenerCloses
  <1>31. CASE RetryTLS
    BY <1>31, VersionFacts DEF RetryTLS, loadTLS, Fault
  <1>32. CASE RetryEnds
    BY <1>32, VersionFacts DEF RetryEnds
  <1>33. CASE CertWatchFails
    BY <1>33, VersionFacts DEF CertWatchFails, Fault
  <1> QED
    BY <1>1, <1>2, <1>3, <1>4, <1>5, <1>6, <1>7, <1>8, <1>9, <1>10, <1>11, <1>12, <1>13, <1>14, <1>15,
       <1>16, <1>17, <1>18, <1>19, <1>20, <1>21, <1>22, <1>23, <1>24, <1>25, <1>26, <1>27, <1>28, <1>29, <1>30,
       <1>31, <1>32, <1>33 DEF Next

(* No step leaves the loop without a cause: reloadCh is filled before      *)
(* cancelCh is closed, and Run ends only when its context does.            *)
LEMMA CauseStep ==
    ASSUME TypeOK, CauseKnown, Quiet, ExitsForCause, [Next]_vars
    PROVE  CauseKnown' /\ Quiet' /\ ExitsForCause'
  <1> USE DEF TypeOK, CauseKnown, Quiet, ExitsForCause, vars, envVars, watchVars, bridgeVars, runVars, lnVars, certVars, history
  <1>1. CASE Edit
    BY <1>1, NoneIsNoVersion DEF Edit
  <1>2. CASE Replace
    BY <1>2, NoneIsNoVersion DEF Replace
  <1>3. CASE Rotate
    BY <1>3, NoneIsNoVersion DEF Rotate, NextCert
  <1>4. CASE Connect
    BY <1>4, NoneIsNoVersion DEF Connect
  <1>5. CASE StreamLost
    BY <1>5, NoneIsNoVersion DEF StreamLost, Fault
  <1>6. CASE Deliver
    BY <1>6, NoneIsNoVersion DEF Deliver
  <1>7. CASE BridgeTakes
    BY <1>7, NoneIsNoVersion DEF BridgeTakes
  <1>8. CASE BridgeTakesCert
    BY <1>8, NoneIsNoVersion DEF BridgeTakesCert
  <1>9. CASE BridgeEnds
    BY <1>9, NoneIsNoVersion DEF BridgeEnds
  <1>10. CASE BridgeSends
    BY <1>10, NoneIsNoVersion DEF BridgeSends
  <1>11. CASE BridgeCancels
    BY <1>11, NoneIsNoVersion DEF BridgeCancels
  <1>12. CASE CancelSeen
    BY <1>12, NoneIsNoVersion DEF CancelSeen
  <1>13. CASE Register
    BY <1>13, NoneIsNoVersion DEF Register
  <1>14. CASE OnSignal
    BY <1>14, NoneIsNoVersion DEF OnSignal
  <1>15. CASE OnDone
    BY <1>15, NoneIsNoVersion DEF OnDone
  <1>16. CASE CertWatchStarts
    BY <1>16, NoneIsNoVersion DEF CertWatchStarts
  <1>17. CASE ServerFails
    BY <1>17, NoneIsNoVersion DEF ServerFails, Fault
  <1>18. CASE LoadConfig
    BY <1>18, NoneIsNoVersion DEF LoadConfig
  <1>19. CASE StartRun
    BY <1>19, NoneIsNoVersion DEF StartRun
  <1>20. CASE LoadTLS
    BY <1>20, NoneIsNoVersion DEF LoadTLS, loadTLS, Fault
  <1>21. CASE RunReturns
    BY <1>21, NoneIsNoVersion DEF RunReturns
  <1>22. CASE Reloads
    BY <1>22, NoneIsNoVersion DEF Reloads
  <1>23. CASE Terminates
    BY <1>23, NoneIsNoVersion DEF Terminates, Exit
  <1>24. CASE Fatal
    BY <1>24, NoneIsNoVersion DEF Fatal, Fault, Exit
  <1>25. CASE Signal
    BY <1>25, NoneIsNoVersion DEF Signal, Exit
  <1>26. CASE Restart
    BY <1>26, NoneIsNoVersion DEF Restart
  <1>27. CASE UNCHANGED vars
    BY <1>27 DEF vars, envVars, watchVars, bridgeVars, runVars, lnVars, certVars, history
  <1>28. CASE DotListens
    BY <1>28, NoneIsNoVersion DEF DotListens
  <1>29. CASE LateListens
    BY <1>29, NoneIsNoVersion DEF LateListens
  <1>30. CASE ListenerCloses
    BY <1>30, NoneIsNoVersion DEF ListenerCloses
  <1>31. CASE RetryTLS
    BY <1>31, NoneIsNoVersion DEF RetryTLS, loadTLS, Fault
  <1>32. CASE RetryEnds
    BY <1>32, NoneIsNoVersion DEF RetryEnds
  <1>33. CASE CertWatchFails
    BY <1>33, NoneIsNoVersion DEF CertWatchFails, Fault
  <1> QED
    BY <1>1, <1>2, <1>3, <1>4, <1>5, <1>6, <1>7, <1>8, <1>9, <1>10, <1>11, <1>12, <1>13, <1>14, <1>15,
       <1>16, <1>17, <1>18, <1>19, <1>20, <1>21, <1>22, <1>23, <1>24, <1>25, <1>26, <1>27, <1>28, <1>29, <1>30,
       <1>31, <1>32, <1>33 DEF Next

LEMMA ReloadKept == Spec => []ReloadInv
  <1>1. Init => ReloadInv
    <2> SUFFICES ASSUME Init PROVE ReloadInv
      OBVIOUS
    <2>1. Flags
      BY DEF Init, Flags
    <2>2. Values
      BY VersionFacts, ReloadAssumption DEF Init, Values
    <2>3. TypeOK
      BY <2>1, <2>2 DEF TypeOK, Flags, Values
    <2>4. CauseKnown /\ Quiet /\ ExitsForCause
      BY DEF Init, CauseKnown, Quiet, ExitsForCause
    <2> QED
      BY <2>3, <2>4 DEF ReloadInv
  <1>2. ReloadInv /\ [Next]_vars => ReloadInv'
    <2> SUFFICES ASSUME ReloadInv, [Next]_vars PROVE ReloadInv'
      OBVIOUS
    <2>1. Flags /\ Values
      BY DEF ReloadInv, TypeOK, Flags, Values
    <2>2. Flags' /\ Values'
      BY <2>1, FlagsStep, ValuesStep
    <2>3. TypeOK'
      BY <2>2 DEF TypeOK, Flags, Values
    <2> QED
      BY <2>3, CauseStep DEF ReloadInv
  <1> QED
    BY <1>1, <1>2, PTL DEF Spec

(* Configurations, certificates, sockets and loops keep their types through *)
(* every reload, rotation and failure (runtime.Run, cmd/*/main.go).         *)
THEOREM TypeCorrect == Spec => []TypeOK
  <1>1. ReloadInv => TypeOK
    BY DEF ReloadInv
  <1> QED
    BY <1>1, ReloadKept, PTL

(* A reload never ends the process (the loops of cmd/*/main.go with        *)
(* runtime.Run): it exits only after a signal or a failure.                *)
THEOREM ReloadSafe == Spec => []ExitsForCause
  <1>1. ReloadInv => ExitsForCause
    BY DEF ReloadInv
  <1> QED
    BY <1>1, ReloadKept, PTL
=============================================================================
