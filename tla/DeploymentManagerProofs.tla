------------------------ MODULE DeploymentManagerProofs ------------------------
(***************************************************************************)
(* Proofs about the deployment manager, for any number of updates, and     *)
(* about the cluster service that runs the managers of all leases, for any *)
(* number of leases, failing calls and restarts.                           *)
(***************************************************************************)
EXTENDS DeploymentManager, Sequences, TLAPS

CONSTANTS Leases, MaxCsFaults

VARIABLES chain, manis, spaces, declared, reserved, service, managers, managed,
          busEvents, pass, own, active, grouped, errs, sent, csFaults

Service == INSTANCE ClusterService

DeployStep(s) == s \in {"check", "reserve", "deploy", "declare", "done"}

\* Which goroutine runs, and which results it may have.
OperationInv ==
  /\ runch = "deploy" => DeployStep(step) /\ (step # "done" => result = "ok")
  /\ runch = "teardown" => step \in {"teardown", "done"} /\ result \in {"ok", "err"}
  /\ runch = "teardown" /\ step = "done" => todo = {}
  /\ retryTeardown => state = "teardown-active" /\ runch = "none"

\* What an undisturbed deploy has written so far is the latest manifest.
DeployInv ==
  runch = "deploy" /\ state = "deploy-active" /\ result = "ok" =>
    /\ step \in {"deploy", "declare", "done"} => reservedFor = deployment
    /\ step \in {"declare", "done"} => cluster["workload"] = deployment
    /\ step = "done" =>
         cluster["hostnames"] = deployment /\ cluster["ips"] = deployment /\ updated = deployment

\* What a teardown without errors has answered for is gone.
TeardownInv ==
  /\ runch = "teardown" /\ result = "ok" => \A h \in Holdings \ todo : cluster[h] = None
  /\ state = "teardown-complete" => runch = "none" /\ \A h \in Holdings : cluster[h] = None

\* The loop is left for a shutdown or after a complete teardown.
EndInv ==
  /\ phase # "loop" /\ ~shutdown => state = "teardown-complete"
  /\ phase = "loop" => state # "teardown-complete"
  /\ phase = "done" => runch = "none"
  /\ unreserved => state = "teardown-complete" /\ phase = "done"

FlagsOK ==
  /\ retryTeardown \in BOOLEAN /\ reclaimch \in BOOLEAN /\ reclaimC \in BOOLEAN
  /\ shutdown \in BOOLEAN /\ unreserved \in BOOLEAN
  /\ due \in BOOLEAN /\ reclaimEvent \in BOOLEAN

LEMMA FlagsNext == FlagsOK /\ [Next]_vars => FlagsOK'
<1> SUFFICES ASSUME FlagsOK, [Next]_vars PROVE FlagsOK'
  OBVIOUS
<1> USE DEF FlagsOK, loopVars, opVars, monitorVars, reclaimVars, endVars, chainVars,
            clusterVars, QueueDeadline
<1>1. CASE Update
  BY <1>1 DEF Update, handleUpdate
<1>2. CASE Teardown
  BY <1>2 DEF Teardown
<1>3. CASE RunResult
  BY <1>3, Zenon DEF RunResult, deployComplete, deployAgain, beginTeardown, teardownFailed,
                      teardownComplete
<1>4. CASE RetryTeardown
  BY <1>4, Zenon DEF RetryTeardown
<1>5. CASE ReclaimDeadline
  BY <1>5, Zenon DEF ReclaimDeadline
<1>6. CASE ReclaimTimer
  BY <1>6, Zenon DEF ReclaimTimer
<1>7. CASE ReclaimResult
  BY <1>7, Zenon DEF ReclaimResult
<1>8. CASE ShutdownRequest
  BY <1>8 DEF ShutdownRequest
<1>9. CASE Drained
  BY <1>9 DEF Drained
<1>10. CASE checkLeaseActive
  BY <1>10, Zenon DEF checkLeaseActive
<1>11. CASE reserveHostnames
  BY <1>11 DEF reserveHostnames
<1>12. CASE deployWorkload
  BY <1>12 DEF deployWorkload
<1>13. CASE declareExposed
  BY <1>13 DEF declareExposed
<1>14. ASSUME NEW h \in Holdings, TeardownSucceeds(h) PROVE FlagsOK'
  BY <1>14 DEF TeardownSucceeds, AnswerTeardown
<1>15. ASSUME NEW h \in Holdings, TeardownFails(h) PROVE FlagsOK'
  BY <1>15 DEF TeardownFails, AnswerTeardown
<1>16. CASE ReclaimSync
  BY <1>16 DEF ReclaimSync
<1>17. CASE ReclaimBroadcast
  BY <1>17 DEF ReclaimBroadcast
<1>18. CASE MonitorDone
  BY <1>18 DEF MonitorDone
<1>19. CASE ReclaimStarted
  BY <1>19, Zenon DEF ReclaimStarted
<1>20. CASE ManagerDone
  BY <1>20 DEF ManagerDone
<1>21. CASE ServiceShutdown
  BY <1>21 DEF ServiceShutdown
<1>22. CASE StartReclamation
  BY <1>22 DEF StartReclamation
<1>23. CASE CloseLease
  BY <1>23 DEF CloseLease
<1>24. CASE DeadlinePasses
  BY <1>24 DEF DeadlinePasses
<1>25. CASE UNCHANGED vars
  BY <1>25 DEF vars
<1> QED
  BY <1>1, <1>2, <1>3, <1>4, <1>5, <1>6, <1>7, <1>8, <1>9, <1>10, <1>11, <1>12, <1>13, <1>14, <1>15, <1>16, <1>17, <1>18, <1>19, <1>20, <1>21, <1>22, <1>23, <1>24, <1>25, Zenon
  DEF Next, Loop, Operation, Reclaimer, Environment

\* The variables whose values are names of states and steps.
ControlOK ==
  /\ state \in DeployStates \cup TeardownStates
  /\ runch \in {"none", "deploy", "teardown"}
  /\ step \in {"check", "reserve", "deploy", "declare", "teardown", "done"}
  /\ result \in {"ok", "err", "inactive"}
  /\ messages \in {"none", "err"}
  /\ monitor \in {"none", "running", "stopping", "done"}
  /\ reclaimer \in {"idle", "sync", "broadcast", "closed", "wait"}
  /\ phase \in {"loop", "drain", "done"}
  /\ lease \in {"active", "reclaiming", "closed"}

LEMMA ControlNext == ControlOK /\ [Next]_vars => ControlOK'
<1> SUFFICES ASSUME ControlOK, [Next]_vars PROVE ControlOK'
  OBVIOUS
<1> USE DEF ControlOK, DeployStates, TeardownStates,
        stopMonitor, startMonitor, startDeploy, startTeardown, startReclaimAttempt, Finish,
        Proceed, loopVars, opVars, monitorVars, reclaimVars, endVars, chainVars
<1>1. CASE Update
  BY <1>1 DEF Update, handleUpdate
<1>2. CASE Teardown
  BY <1>2 DEF Teardown
<1>3. CASE RunResult
  BY <1>3 DEF RunResult, deployComplete, deployAgain, beginTeardown, teardownFailed,
                      teardownComplete
<1>4. CASE RetryTeardown
  BY <1>4 DEF RetryTeardown
<1>5. CASE ReclaimDeadline
  BY <1>5 DEF ReclaimDeadline
<1>6. CASE ReclaimTimer
  BY <1>6 DEF ReclaimTimer
<1>7. CASE ReclaimResult
  BY <1>7 DEF ReclaimResult
<1>8. CASE ShutdownRequest
  BY <1>8 DEF ShutdownRequest
<1>9. CASE Drained
  BY <1>9 DEF Drained
<1>10. CASE checkLeaseActive
  BY <1>10 DEF checkLeaseActive
<1>11. CASE reserveHostnames
  BY <1>11 DEF reserveHostnames
<1>12. CASE deployWorkload
  BY <1>12 DEF deployWorkload
<1>13. CASE declareExposed
  BY <1>13 DEF declareExposed
<1>14. ASSUME NEW h \in Holdings, TeardownSucceeds(h) PROVE ControlOK'
  BY <1>14 DEF TeardownSucceeds, AnswerTeardown
<1>15. ASSUME NEW h \in Holdings, TeardownFails(h) PROVE ControlOK'
  BY <1>15 DEF TeardownFails, AnswerTeardown
<1>16. CASE ReclaimSync
  BY <1>16 DEF ReclaimSync
<1>17. CASE ReclaimBroadcast
  BY <1>17 DEF ReclaimBroadcast
<1>18. CASE MonitorDone
  BY <1>18 DEF MonitorDone
<1>19. CASE ReclaimStarted
  BY <1>19 DEF ReclaimStarted
<1>20. CASE ManagerDone
  BY <1>20 DEF ManagerDone
<1>21. CASE ServiceShutdown
  BY <1>21 DEF ServiceShutdown
<1>22. CASE StartReclamation
  BY <1>22 DEF StartReclamation
<1>23. CASE CloseLease
  BY <1>23 DEF CloseLease
<1>24. CASE DeadlinePasses
  BY <1>24 DEF DeadlinePasses
<1>25. CASE UNCHANGED vars
  BY <1>25 DEF vars
<1> QED
  BY <1>1, <1>2, <1>3, <1>4, <1>5, <1>6, <1>7, <1>8, <1>9, <1>10, <1>11, <1>12, <1>13, <1>14, <1>15, <1>16, <1>17, <1>18, <1>19, <1>20, <1>21, <1>22, <1>23, <1>24, <1>25, Zenon
  DEF Next, Loop, Operation, Reclaimer, Environment

\* The variables that hold versions, sets and counts.
DataOK ==
  /\ todo \in SUBSET Holdings
  /\ deployment \in Versions
  /\ stale \in Nat
  /\ reservedFor \in Versions \cup {None}
  /\ cluster \in [Holdings -> Versions \cup {None}]
  /\ updated \in Versions \cup {None}

LEMMA DataNext == DataOK /\ [Next]_vars => DataOK'
<1> SUFFICES ASSUME DataOK, [Next]_vars PROVE DataOK'
  OBVIOUS
<1> USE MaxVersionAssumption
    DEF DataOK, Versions, Holdings, None,
        startMonitor, startDeploy, startTeardown, Finish,
        Proceed, loopVars, opVars, monitorVars, clusterVars
<1>1. CASE Update
  <2>1. deployment' \in Versions
    BY <1>1 DEF Update, handleUpdate
  <2>2. UNCHANGED <<todo, stale, clusterVars>>
    BY <1>1 DEF Update, handleUpdate
  <2> QED
    BY <2>1, <2>2
<1>2. CASE Teardown
  BY <1>2, Zenon DEF Teardown
<1>3. CASE RunResult
  <2>1. todo' \in {todo, Holdings} /\ stale' \in {stale, stale + 1}
    BY <1>3 DEF RunResult, deployComplete, deployAgain, beginTeardown, teardownFailed,
                      teardownComplete
  <2>2. UNCHANGED <<deployment, clusterVars>>
    BY <1>3 DEF RunResult, deployComplete, deployAgain, beginTeardown, teardownFailed,
                      teardownComplete
  <2> QED
    BY <2>1, <2>2
<1>4. CASE RetryTeardown
  BY <1>4 DEF RetryTeardown
<1>5. CASE ReclaimDeadline
  BY <1>5 DEF ReclaimDeadline
<1>6. CASE ReclaimTimer
  BY <1>6 DEF ReclaimTimer
<1>7. CASE ReclaimResult
  BY <1>7 DEF ReclaimResult
<1>8. CASE ShutdownRequest
  BY <1>8 DEF ShutdownRequest
<1>9. CASE Drained
  BY <1>9 DEF Drained
<1>10. CASE checkLeaseActive
  BY <1>10, Zenon DEF checkLeaseActive
<1>11. CASE reserveHostnames
  BY <1>11, Zenon DEF reserveHostnames
<1>12. CASE deployWorkload
  BY <1>12, ZenonT(40) DEF deployWorkload
<1>13. CASE declareExposed
  BY <1>13, ZenonT(40) DEF declareExposed
<1>14. ASSUME NEW h \in Holdings, TeardownSucceeds(h) PROVE DataOK'
  BY <1>14 DEF TeardownSucceeds, AnswerTeardown
<1>15. ASSUME NEW h \in Holdings, TeardownFails(h) PROVE DataOK'
  BY <1>15 DEF TeardownFails, AnswerTeardown
<1>16. CASE ReclaimSync
  BY <1>16 DEF ReclaimSync
<1>17. CASE ReclaimBroadcast
  BY <1>17 DEF ReclaimBroadcast
<1>18. CASE MonitorDone
  BY <1>18 DEF MonitorDone
<1>19. CASE ReclaimStarted
  BY <1>19 DEF ReclaimStarted
<1>20. CASE ManagerDone
  BY <1>20 DEF ManagerDone
<1>21. CASE ServiceShutdown
  BY <1>21 DEF ServiceShutdown
<1>22. CASE StartReclamation
  BY <1>22 DEF StartReclamation
<1>23. CASE CloseLease
  BY <1>23 DEF CloseLease
<1>24. CASE DeadlinePasses
  BY <1>24 DEF DeadlinePasses
<1>25. CASE UNCHANGED vars
  BY <1>25 DEF vars
<1> QED
  BY <1>1, <1>2, <1>3, <1>4, <1>5, <1>6, <1>7, <1>8, <1>9, <1>10, <1>11, <1>12, <1>13, <1>14, <1>15, <1>16, <1>17, <1>18, <1>19, <1>20, <1>21, <1>22, <1>23, <1>24, <1>25, Zenon
  DEF Next, Loop, Operation, Reclaimer, Environment

ValuesOK == ControlOK /\ DataOK

Core == RunchMatchesState /\ MonitorOnlyWhenComplete /\ OperationInv /\ EndInv

LEMMA CoreNext == FlagsOK /\ ValuesOK /\ Core /\ [Next]_vars => Core'
<1> SUFFICES ASSUME FlagsOK, ValuesOK, Core, [Next]_vars PROVE Core'
  OBVIOUS
<1> USE DEF FlagsOK, ValuesOK, ControlOK, DataOK, Core, RunchMatchesState, MonitorOnlyWhenComplete, OperationInv, EndInv,
        DeployStep, DeployStates, TeardownStates, tearingDown,
        stopMonitor, startMonitor, startDeploy, startTeardown, startReclaimAttempt, Finish,
        Proceed, loopVars, opVars, monitorVars, reclaimVars, endVars, chainVars,
        clusterVars
<1>1. CASE Update
  BY <1>1 DEF Update, handleUpdate
<1>2. CASE Teardown
  BY <1>2 DEF Teardown
<1>3. CASE RunResult
  BY <1>3 DEF RunResult, deployComplete, deployAgain, beginTeardown, teardownFailed,
                      teardownComplete
<1>4. CASE RetryTeardown
  BY <1>4 DEF RetryTeardown
<1>5. CASE ReclaimDeadline
  BY <1>5 DEF ReclaimDeadline
<1>6. CASE ReclaimTimer
  BY <1>6 DEF ReclaimTimer
<1>7. CASE ReclaimResult
  BY <1>7 DEF ReclaimResult
<1>8. CASE ShutdownRequest
  BY <1>8 DEF ShutdownRequest
<1>9. CASE Drained
  BY <1>9 DEF Drained
<1>10. CASE checkLeaseActive
  BY <1>10 DEF checkLeaseActive
<1>11. CASE reserveHostnames
  BY <1>11 DEF reserveHostnames
<1>12. CASE deployWorkload
  BY <1>12 DEF deployWorkload
<1>13. CASE declareExposed
  BY <1>13 DEF declareExposed
<1>14. ASSUME NEW h \in Holdings, TeardownSucceeds(h) PROVE Core'
  BY <1>14 DEF TeardownSucceeds, AnswerTeardown
<1>15. ASSUME NEW h \in Holdings, TeardownFails(h) PROVE Core'
  BY <1>15 DEF TeardownFails, AnswerTeardown
<1>16. CASE ReclaimSync
  BY <1>16 DEF ReclaimSync
<1>17. CASE ReclaimBroadcast
  BY <1>17 DEF ReclaimBroadcast
<1>18. CASE MonitorDone
  BY <1>18 DEF MonitorDone
<1>19. CASE ReclaimStarted
  BY <1>19 DEF ReclaimStarted
<1>20. CASE ManagerDone
  BY <1>20 DEF ManagerDone
<1>21. CASE ServiceShutdown
  BY <1>21 DEF ServiceShutdown
<1>22. CASE StartReclamation
  BY <1>22 DEF StartReclamation
<1>23. CASE CloseLease
  BY <1>23 DEF CloseLease
<1>24. CASE DeadlinePasses
  BY <1>24 DEF DeadlinePasses
<1>25. CASE UNCHANGED vars
  BY <1>25 DEF vars
<1> QED
  BY <1>1, <1>2, <1>3, <1>4, <1>5, <1>6, <1>7, <1>8, <1>9, <1>10, <1>11, <1>12, <1>13, <1>14, <1>15, <1>16, <1>17, <1>18, <1>19, <1>20, <1>21, <1>22, <1>23, <1>24, <1>25, Zenon
  DEF Next, Loop, Operation, Reclaimer, Environment

Progress == UpdateNotLost /\ DeployInv /\ TeardownInv

LEMMA ProgressNext == FlagsOK /\ ValuesOK /\ Core /\ Progress /\ [Next]_vars => Progress'
<1> SUFFICES ASSUME FlagsOK, ValuesOK, Core, Progress, [Next]_vars PROVE Progress'
  OBVIOUS
<1> USE DEF FlagsOK, ValuesOK, ControlOK, DataOK, Core, RunchMatchesState, OperationInv, EndInv, Progress, UpdateNotLost, DeployInv, TeardownInv,
        Versions, None, Holdings,
        DeployStep, DeployStates, TeardownStates, tearingDown,
        stopMonitor, startMonitor, startDeploy, startTeardown, startReclaimAttempt, Finish,
        Proceed, loopVars, opVars, monitorVars, reclaimVars, endVars, chainVars,
        clusterVars
<1>1. CASE Update
  BY <1>1 DEF Update, handleUpdate
<1>2. CASE Teardown
  BY <1>2 DEF Teardown
<1>3. CASE RunResult
  BY <1>3 DEF RunResult, deployComplete, deployAgain, beginTeardown, teardownFailed,
                      teardownComplete
<1>4. CASE RetryTeardown
  BY <1>4 DEF RetryTeardown
<1>5. CASE ReclaimDeadline
  BY <1>5 DEF ReclaimDeadline
<1>6. CASE ReclaimTimer
  BY <1>6 DEF ReclaimTimer
<1>7. CASE ReclaimResult
  BY <1>7 DEF ReclaimResult
<1>8. CASE ShutdownRequest
  BY <1>8 DEF ShutdownRequest
<1>9. CASE Drained
  BY <1>9 DEF Drained
<1>10. CASE checkLeaseActive
  BY <1>10 DEF checkLeaseActive
<1>11. CASE reserveHostnames
  BY <1>11 DEF reserveHostnames
<1>12. CASE deployWorkload
  BY <1>12 DEF deployWorkload
<1>13. CASE declareExposed
  <2>1. CASE result' = "ok"
    <3>1. /\ cluster' = [cluster EXCEPT !["hostnames"] = deployment, !["ips"] = deployment]
          /\ updated' = deployment
      BY <1>13, <2>1 DEF declareExposed
    <3>2. \A h \in Holdings : state = "deploy-active" => cluster'[h] = deployment
      BY <1>13, <2>1, <3>1 DEF declareExposed
    <3> QED
      BY <1>13, <2>1, <3>1, <3>2 DEF declareExposed
  <2>2. CASE result' = "err"
    BY <1>13, <2>2 DEF declareExposed
  <2> QED
    BY <1>13, <2>1, <2>2 DEF declareExposed
<1>14. ASSUME NEW h \in Holdings, TeardownSucceeds(h) PROVE Progress'
  BY <1>14 DEF TeardownSucceeds, AnswerTeardown
<1>15. ASSUME NEW h \in Holdings, TeardownFails(h) PROVE Progress'
  BY <1>15 DEF TeardownFails, AnswerTeardown
<1>16. CASE ReclaimSync
  BY <1>16 DEF ReclaimSync
<1>17. CASE ReclaimBroadcast
  BY <1>17 DEF ReclaimBroadcast
<1>18. CASE MonitorDone
  BY <1>18 DEF MonitorDone
<1>19. CASE ReclaimStarted
  BY <1>19 DEF ReclaimStarted
<1>20. CASE ManagerDone
  BY <1>20 DEF ManagerDone
<1>21. CASE ServiceShutdown
  BY <1>21 DEF ServiceShutdown
<1>22. CASE StartReclamation
  BY <1>22 DEF StartReclamation
<1>23. CASE CloseLease
  BY <1>23 DEF CloseLease
<1>24. CASE DeadlinePasses
  BY <1>24 DEF DeadlinePasses
<1>25. CASE UNCHANGED vars
  BY <1>25 DEF vars
<1> QED
  BY <1>1, <1>2, <1>3, <1>4, <1>5, <1>6, <1>7, <1>8, <1>9, <1>10, <1>11, <1>12, <1>13, <1>14, <1>15, <1>16, <1>17, <1>18, <1>19, <1>20, <1>21, <1>22, <1>23, <1>24, <1>25, Zenon
  DEF Next, Loop, Operation, Reclaimer, Environment

IInv == FlagsOK /\ ControlOK /\ DataOK /\ Core /\ Progress

LEMMA IInvInit == Init => IInv
<1> SUFFICES ASSUME Init PROVE IInv
  OBVIOUS
<1>1. FlagsOK
  BY Zenon DEF Init, FlagsOK
<1>2. ControlOK
  BY DEF Init, ControlOK, DeployStates, TeardownStates
<1>3. DataOK
  BY MaxVersionAssumption DEF Init, DataOK, Versions, Holdings, None
<1>4. Core
  BY DEF Init, Core, RunchMatchesState, MonitorOnlyWhenComplete, OperationInv, EndInv, DeployStep
<1>5. Progress
  BY DEF Init, Progress, UpdateNotLost, DeployInv, TeardownInv
<1> QED
  BY <1>1, <1>2, <1>3, <1>4, <1>5 DEF IInv

LEMMA IInvNext == IInv /\ [Next]_vars => IInv'
  BY FlagsNext, ControlNext, DataNext, CoreNext, ProgressNext DEF IInv, ValuesOK

THEOREM Invariance == Spec => []IInv
  BY IInvInit, IInvNext, PTL DEF Spec

\* Every variable of the manager keeps its type.
THEOREM TypeCorrect == Spec => []TypeOK
<1>1. IInv => TypeOK
  BY DEF IInv, FlagsOK, ControlOK, DataOK, TypeOK
<1> QED
  BY <1>1, Invariance, PTL

\* The panics of run are unreachable, for any number of updates.
THEOREM NoInvalidState == Spec => []RunchMatchesState
<1>1. IInv => RunchMatchesState
  BY DEF IInv, Core
<1> QED
  BY <1>1, Invariance, PTL

\* A manager that rests after a successful deploy has deployed the latest manifest.
THEOREM NoLostUpdate == Spec => []UpdateNotLost
<1>1. IInv => UpdateNotLost
  BY DEF IInv, Progress
<1> QED
  BY <1>1, Invariance, PTL

\* Capacity is given back only after the cluster has been cleaned.
THEOREM CleanBeforeUnreserve == Spec => []ReservedUntilClean
<1>1. IInv => ReservedUntilClean
  BY DEF IInv, Core, EndInv, Progress, TeardownInv, ReservedUntilClean
<1> QED
  BY <1>1, Invariance, PTL

\* No monitor is left running behind a deploy, a teardown or the end.
THEOREM NoForgottenMonitor == Spec => []MonitorOnlyWhenComplete
<1>1. IInv => MonitorOnlyWhenComplete
  BY DEF IInv, Core
<1> QED
  BY <1>1, Invariance, PTL

LEMMA FinalNext ==
  ASSUME IInv, [Next]_vars, tearingDown
  PROVE  tearingDown' /\ \A h \in Holdings : cluster'[h] # None =>
           cluster[h] # None \/ runch = "deploy"
<1> DEFINE Final == tearingDown' /\ \A h \in Holdings : cluster'[h] # None =>
                      cluster[h] # None \/ runch = "deploy"
<1> USE DEF IInv, ControlOK, DataOK, Core, RunchMatchesState, tearingDown, DeployStates, TeardownStates,
        startDeploy, startTeardown, Versions, Holdings, None,
        loopVars, opVars, monitorVars, reclaimVars, endVars, chainVars, clusterVars
<1>1. CASE Update
  BY <1>1 DEF Update, handleUpdate
<1>2. CASE Teardown
  BY <1>2 DEF Teardown
<1>3. CASE RunResult
  BY <1>3 DEF RunResult, deployComplete, deployAgain, beginTeardown, teardownFailed,
                      teardownComplete
<1>4. CASE RetryTeardown
  BY <1>4 DEF RetryTeardown
<1>5. CASE ReclaimDeadline
  BY <1>5 DEF ReclaimDeadline
<1>6. CASE ReclaimTimer
  BY <1>6 DEF ReclaimTimer
<1>7. CASE ReclaimResult
  BY <1>7 DEF ReclaimResult
<1>8. CASE ShutdownRequest
  BY <1>8 DEF ShutdownRequest
<1>9. CASE Drained
  BY <1>9 DEF Drained
<1>10. CASE checkLeaseActive
  BY <1>10 DEF checkLeaseActive
<1>11. CASE reserveHostnames
  BY <1>11 DEF reserveHostnames
<1>12. CASE deployWorkload
  BY <1>12 DEF deployWorkload
<1>13. CASE declareExposed
  BY <1>13 DEF declareExposed
<1>14. ASSUME NEW h \in Holdings, TeardownSucceeds(h) PROVE Final
  BY <1>14 DEF TeardownSucceeds, AnswerTeardown
<1>15. ASSUME NEW h \in Holdings, TeardownFails(h) PROVE Final
  BY <1>15 DEF TeardownFails, AnswerTeardown
<1>16. CASE ReclaimSync
  BY <1>16 DEF ReclaimSync
<1>17. CASE ReclaimBroadcast
  BY <1>17 DEF ReclaimBroadcast
<1>18. CASE MonitorDone
  BY <1>18 DEF MonitorDone
<1>19. CASE ReclaimStarted
  BY <1>19 DEF ReclaimStarted
<1>20. CASE ManagerDone
  BY <1>20 DEF ManagerDone
<1>21. CASE ServiceShutdown
  BY <1>21 DEF ServiceShutdown
<1>22. CASE StartReclamation
  BY <1>22 DEF StartReclamation
<1>23. CASE CloseLease
  BY <1>23 DEF CloseLease
<1>24. CASE DeadlinePasses
  BY <1>24 DEF DeadlinePasses
<1>25. CASE UNCHANGED vars
  BY <1>25 DEF vars
<1> QED
  BY <1>1, <1>2, <1>3, <1>4, <1>5, <1>6, <1>7, <1>8, <1>9, <1>10, <1>11, <1>12, <1>13, <1>14, <1>15, <1>16, <1>17, <1>18, <1>19, <1>20, <1>21, <1>22, <1>23, <1>24, <1>25, Zenon
  DEF Next, Loop, Operation, Reclaimer, Environment

\* Teardown is never undone, and nothing but a deploy already in flight adds to the cluster.
THEOREM TeardownFinal == Spec => TeardownIsFinal
<1>1. IInv /\ [Next]_vars =>
        [tearingDown => tearingDown' /\ \A h \in Holdings : cluster'[h] # None =>
           cluster[h] # None \/ runch = "deploy"]_vars
  BY FinalNext
<1> QED
  BY <1>1, Invariance, PTL DEF Spec, TeardownIsFinal

-----------------------------------------------------------------------------
(***************************************************************************)
(* The cluster service.  A manager comes to tear down, and an event says   *)
(* that a lease closed, only once the chain has closed the lease.          *)
(***************************************************************************)

\* The events of q that report a lease closed are of leases closed in c.
Reported(q, c) ==
  /\ q \in Seq({"closed", "manifest"} \X Leases)
  /\ \A i \in 1..Len(q) : q[i][1] = "closed" => c[q[i][2]] = "closed"

Ending(m, c) ==
  /\ m \in [Leases -> {"none", "deploy", "apply", "pending", "run", "teardown", "done"}]
  /\ \A l \in Leases : m[l] \in {"pending", "teardown"} => c[l] = "closed"

ClosedInv ==
  /\ chain \in [Leases -> {"none", "unknown", "active", "closed"}]
  /\ Reported(busEvents, chain)
  /\ Ending(managers, chain)

LEMMA AppendReported ==
  ASSUME NEW q, NEW c, Reported(q, c), NEW k \in {"closed", "manifest"}, NEW l \in Leases,
         k = "closed" => c[l] = "closed"
  PROVE  Reported(Append(q, <<k, l>>), c)
<1> DEFINE e == <<k, l>>
<1>1. e \in {"closed", "manifest"} \X Leases /\ e[1] = k /\ e[2] = l
  OBVIOUS
<1> HIDE DEF e
<1>2. Append(q, e) \in Seq({"closed", "manifest"} \X Leases) /\ Len(Append(q, e)) = Len(q) + 1
  BY <1>1 DEF Reported
<1>3. ASSUME NEW i \in 1..Len(Append(q, e)), Append(q, e)[i][1] = "closed"
      PROVE  c[Append(q, e)[i][2]] = "closed"
  <2>1. CASE i \in 1..Len(q)
    BY <1>1, <1>3, <2>1 DEF Reported
  <2>2. CASE i = Len(q) + 1
    <3>1. Append(q, e)[i] = e
      BY <1>1, <2>2 DEF Reported
    <3> QED BY <1>1, <1>3, <3>1
  <2> QED BY <1>2, <2>1, <2>2 DEF Reported
<1>4. Reported(Append(q, e), c)
  BY <1>2, <1>3 DEF Reported
<1> QED BY <1>4 DEF e

LEMMA TailReported ==
  ASSUME NEW q, NEW c, Reported(q, c), q # <<>>
  PROVE  /\ Reported(Tail(q), c)
         /\ Head(q)[1] \in {"closed", "manifest"} /\ Head(q)[2] \in Leases
         /\ Head(q)[1] = "closed" => c[Head(q)[2]] = "closed"
<1>1. Head(q) = q[1] /\ 1 \in 1..Len(q) /\ q[1] \in {"closed", "manifest"} \X Leases
  BY DEF Reported
<1>2. Tail(q) \in Seq({"closed", "manifest"} \X Leases) /\ Len(Tail(q)) = Len(q) - 1
  BY DEF Reported
<1>3. \A i \in 1..Len(Tail(q)) : Tail(q)[i] = q[i + 1] /\ i + 1 \in 1..Len(q)
  BY <1>2 DEF Reported
<1> QED BY <1>1, <1>2, <1>3 DEF Reported

\* A lease that is closed stays closed.
LEMMA ClosedStays ==
  ASSUME ClosedInv, NEW l \in Leases, NEW s \in {"active", "closed"}, chain[l] # "closed",
         chain' = [chain EXCEPT ![l] = s]
  PROVE  /\ chain' \in [Leases -> {"none", "unknown", "active", "closed"}]
         /\ Reported(busEvents, chain')
         /\ Ending(managers, chain')
<1>1. /\ chain' \in [Leases -> {"none", "unknown", "active", "closed"}]
      /\ \A k \in Leases : chain[k] = "closed" => chain'[k] = "closed"
  BY DEF ClosedInv
<1>2. \A i \in 1..Len(busEvents) : busEvents[i][2] \in Leases
  <2> DEFINE E == {"closed", "manifest"} \X Leases
  <2>1. \A e \in E : e[2] \in Leases
    OBVIOUS
  <2>2. busEvents \in Seq(E)
    BY DEF ClosedInv, Reported
  <2> HIDE DEF E
  <2> QED BY <2>1, <2>2
<1> QED BY <1>1, <1>2 DEF ClosedInv, Reported, Ending

LEMMA ClosedInvInit == Service!Init => ClosedInv
BY DEF Service!Init, ClosedInv, Reported, Ending

LEMMA ClosedInvStep == ClosedInv /\ [Service!Next]_(Service!csVars) => ClosedInv'
<1> SUFFICES ASSUME ClosedInv, [Service!Next]_(Service!csVars) PROVE ClosedInv'
  OBVIOUS
<1>0. ASSUME UNCHANGED <<chain, busEvents, managers>> PROVE ClosedInv'
  BY <1>0 DEF ClosedInv
<1>1. ASSUME UNCHANGED <<chain, busEvents>>, Ending(managers', chain) PROVE ClosedInv'
  BY <1>1 DEF ClosedInv
<1>2. ASSUME UNCHANGED <<chain, managers>>, NEW k \in {"closed", "manifest"}, NEW l \in Leases,
             k = "closed" => chain[l] = "closed", busEvents' = Append(busEvents, <<k, l>>)
      PROVE  ClosedInv'
  BY <1>2, AppendReported DEF ClosedInv
<1>3. ASSUME NEW l \in Leases, Service!winLease(l) PROVE ClosedInv'
  <2>2. chain' = [chain EXCEPT ![l] = "active"] /\ chain[l] # "closed"
        /\ UNCHANGED <<busEvents, managers>>
    BY <1>3 DEF Service!winLease
  <2>3. /\ chain' \in [Leases -> {"none", "unknown", "active", "closed"}]
        /\ Reported(busEvents, chain') /\ Ending(managers, chain')
    BY <2>2, ClosedStays, Zenon
  <2> QED BY <2>2, <2>3 DEF ClosedInv
<1>4. ASSUME NEW l \in Leases, Service!closeLease(l) PROVE ClosedInv'
  <2>1. chain' = [chain EXCEPT ![l] = "closed"] /\ chain[l] # "closed" /\ UNCHANGED managers
    BY <1>4 DEF Service!closeLease
  <2>2. /\ chain' \in [Leases -> {"none", "unknown", "active", "closed"}]
        /\ Reported(busEvents, chain') /\ Ending(managers, chain')
    BY <2>1, ClosedStays, Zenon
  <2>3. busEvents' = busEvents \/ busEvents' = Append(busEvents, <<"closed", l>>)
    BY <1>4 DEF Service!closeLease
  <2>4. chain'[l] = "closed"
    BY <2>1 DEF ClosedInv
  <2>5. Reported(busEvents', chain')
    BY <2>2, <2>3, <2>4, AppendReported, Zenon
  <2> QED BY <2>1, <2>2, <2>5 DEF ClosedInv
<1>5. ASSUME NEW l \in Leases, Service!receiveManifest(l) PROVE ClosedInv'
  BY <1>2, <1>5 DEF Service!receiveManifest
<1>6. ASSUME NEW l \in Leases, Service!doDeploy(l) PROVE ClosedInv'
  <2>1. UNCHANGED <<chain, busEvents>>
    BY <1>6 DEF Service!doDeploy
  <2>2. \/ managers' = [managers EXCEPT ![l] = "run"]
        \/ managers' = [managers EXCEPT ![l] = "apply"]
        \/ managers' = [managers EXCEPT ![l] = "teardown"] /\ chain[l] = "closed"
    BY <1>6 DEF Service!doDeploy, ClosedInv, Ending
  <2>3. Ending(managers', chain)
    BY <2>2 DEF ClosedInv, Ending
  <2> QED BY <1>1, <2>1, <2>3
<1>7. ASSUME NEW l \in Leases, Service!doTeardown(l) \/ Service!managerDone(l) PROVE ClosedInv'
  <2>1. UNCHANGED <<chain, busEvents>>
    BY <1>7 DEF Service!doTeardown, Service!managerDone
  <2>2. \/ managers' = managers
        \/ managers' = [managers EXCEPT ![l] = "done"]
        \/ managers' = [managers EXCEPT ![l] = "none"]
    BY <1>7 DEF Service!doTeardown, Service!managerDone
  <2>3. Ending(managers', chain)
    BY <2>2 DEF ClosedInv, Ending
  <2> QED BY <1>1, <2>1, <2>3
<1>8. ASSUME Service!startDeploymentManagers PROVE ClosedInv'
  <2>1. UNCHANGED <<chain, busEvents>> /\ Ending(managers', chain)
    BY <1>8 DEF Service!startDeploymentManagers, Ending
  <2> QED BY <1>1, <2>1
<1>9. ASSUME Service!handleEvent PROVE ClosedInv'
  <2> DEFINE k == Head(busEvents)[1]
             l == Head(busEvents)[2]
  <2>1. /\ busEvents # <<>> /\ busEvents' = Tail(busEvents) /\ chain' = chain
        /\ IF k = "manifest" THEN Service!manifestReceived(l) ELSE Service!teardownLease(l)
    BY <1>9 DEF Service!handleEvent
  <2>2. /\ Reported(Tail(busEvents), chain)
        /\ k \in {"closed", "manifest"} /\ l \in Leases /\ (k = "closed" => chain[l] = "closed")
    BY <2>1, TailReported DEF ClosedInv
  <2> HIDE DEF k, l
  <2>3. CASE k = "manifest"
    <3>1. managers' = [managers EXCEPT ![l] = "deploy"] \/ managers' = managers
      BY <2>1, <2>2, <2>3 DEF Service!manifestReceived, ClosedInv, Ending
    <3>2. Ending(managers', chain)
      BY <2>2, <3>1 DEF ClosedInv, Ending
    <3> QED BY <2>1, <2>2, <3>2 DEF ClosedInv
  <2>4. CASE k = "closed"
    <3>1. \/ managers' = [managers EXCEPT ![l] = "pending"]
          \/ managers' = [managers EXCEPT ![l] = "teardown"]
          \/ managers' = managers
      BY <2>1, <2>2, <2>4 DEF Service!teardownLease, ClosedInv, Ending
    <3>2. Ending(managers', chain)
      BY <2>2, <2>4, <3>1 DEF ClosedInv, Ending
    <3> QED BY <2>1, <2>2, <3>2 DEF ClosedInv
  <2> QED BY <2>2, <2>3, <2>4
<1>10. ASSUME Service!crash PROVE ClosedInv'
  <2>1. chain' = chain /\ busEvents' = <<>> /\ managers' = [l \in Leases |-> "none"]
    BY <1>10 DEF Service!crash
  <2>2. Reported(<<>>, chain) /\ Ending([l \in Leases |-> "none"], chain)
    BY DEF Reported, Ending
  <2> QED BY <2>1, <2>2 DEF ClosedInv
<1>11. ASSUME Service!LeaseIDs \/ Service!activeLeases \/ Service!passFails \/ Service!endPass
       PROVE  ClosedInv'
  BY <1>0, <1>11 DEF Service!LeaseIDs, Service!activeLeases, Service!passFails, Service!endPass
<1>12. ASSUME NEW l \in Leases, Service!reconcileLease(l) PROVE ClosedInv'
  <2>1. UNCHANGED <<chain, managers>>
    BY <1>12 DEF Service!reconcileLease
  <2>2. \/ busEvents' = busEvents
        \/ busEvents' = Append(busEvents, <<"closed", l>>) /\ chain[l] = "closed"
    BY <1>12 DEF Service!reconcileLease, Service!closedLease
  <2> QED BY <1>0, <1>2, <2>1, <2>2
<1>13. ASSUME UNCHANGED Service!csVars PROVE ClosedInv'
  BY <1>0, <1>13 DEF Service!csVars
<1> QED
  BY <1>3, <1>4, <1>5, <1>6, <1>7, <1>8, <1>9, <1>10, <1>11, <1>12, <1>13, Zenon
  DEF Service!Next, Service!manager, Service!reconcileLeases

\* What a step takes from the cluster is of a lease that is closed.
LEMMA RemovalStep ==
  ClosedInv /\ [Service!Next]_(Service!csVars) => [Service!OnlyClosedIsRemoved]_(Service!csVars)
<1> SUFFICES ASSUME ClosedInv, Service!Next PROVE Service!OnlyClosedIsRemoved
  OBVIOUS
<1>1. ASSUME manis \subseteq manis', spaces \subseteq spaces', declared \subseteq declared'
      PROVE  Service!OnlyClosedIsRemoved
  BY <1>1 DEF Service!OnlyClosedIsRemoved
<1>2. ASSUME NEW l \in Leases, chain[l] = "closed",
             manis \ {l} \subseteq manis', spaces \ {l} \subseteq spaces',
             declared \ {l} \subseteq declared'
      PROVE  Service!OnlyClosedIsRemoved
  BY <1>2 DEF Service!OnlyClosedIsRemoved
<1>3. ASSUME UNCHANGED Service!cluster PROVE Service!OnlyClosedIsRemoved
  BY <1>1, <1>3 DEF Service!cluster
<1>4. ASSUME NEW l \in Leases,
             Service!winLease(l) \/ Service!closeLease(l) \/ Service!receiveManifest(l)
               \/ Service!managerDone(l)
      PROVE  Service!OnlyClosedIsRemoved
  BY <1>3, <1>4 DEF Service!winLease, Service!closeLease, Service!receiveManifest, Service!managerDone
<1>5. ASSUME NEW l \in Leases, Service!doDeploy(l) PROVE Service!OnlyClosedIsRemoved
  BY <1>1, <1>5 DEF Service!doDeploy, Service!cluster
<1>6. ASSUME NEW l \in Leases, Service!doTeardown(l) PROVE Service!OnlyClosedIsRemoved
  <2>1. chain[l] = "closed"
    BY <1>6 DEF Service!doTeardown, ClosedInv, Ending
  <2>2. manis \ {l} \subseteq manis' /\ spaces \ {l} \subseteq spaces'
        /\ declared \ {l} \subseteq declared'
    BY <1>6 DEF Service!doTeardown
  <2> QED BY <1>2, <2>1, <2>2
<1>7. ASSUME \/ Service!startDeploymentManagers \/ Service!handleEvent \/ Service!crash
             \/ Service!LeaseIDs \/ Service!activeLeases \/ Service!passFails \/ Service!endPass
      PROVE  Service!OnlyClosedIsRemoved
  BY <1>3, <1>7 DEF Service!startDeploymentManagers, Service!handleEvent, Service!crash,
     Service!LeaseIDs, Service!activeLeases, Service!passFails, Service!endPass
<1>8. ASSUME NEW l \in Leases, Service!reconcileLease(l) PROVE Service!OnlyClosedIsRemoved
  <2>1. CASE chain[l] = "closed" /\ Service!removeUnmanagedLease(l)
    <3>1. manis \ {l} \subseteq manis' /\ spaces \ {l} \subseteq spaces'
          /\ declared \ {l} \subseteq declared'
      BY <2>1 DEF Service!removeUnmanagedLease
    <3> QED BY <1>2, <2>1, <3>1
  <2>2. CASE UNCHANGED Service!cluster
    BY <1>3, <2>2
  <2> QED BY <1>8, <2>1, <2>2 DEF Service!reconcileLease, Service!closedLease
<1> QED
  BY <1>4, <1>5, <1>6, <1>7, <1>8, Zenon DEF Service!Next, Service!manager, Service!reconcileLeases

\* No lease loses its manifest, its namespace or its hostnames unless the chain has
\* closed it (deploymentManager.doTeardown, service.reconcileLeases and
\* removeUnmanagedLease): not by a reconciliation that works from an old reading of
\* the chain, nor by an event that is handled late, for any number of leases,
\* failures and restarts.
THEOREM OpenLeaseIsKept == Service!Spec => [][Service!OnlyClosedIsRemoved]_(Service!csVars)
BY ClosedInvInit, ClosedInvStep, RemovalStep, PTL DEF Service!Spec
================================================================================
