------------------------- MODULE ManifestServiceProofs -------------------------
(***************************************************************************)
(* Proofs about ManifestService for any deployments, leases and requests.  *)
(***************************************************************************)
EXTENDS ManifestService, TLAPS

Shape ==
  /\ manager \in [Deployments -> {"none", "running", "stopping", "over"}]
  /\ watchdog \in [Deployments -> Watchdogs]
  /\ call \in [Submits -> {"none", "calling", "held", "returned"}]

\* Everything a step can do to managers, watchdogs and calls, with what it needs.
Inv == Shape /\ HeldByRunning /\ WatchdogHasManager

LEMMA InvInit == Init => Inv
BY NoneAssumption DEF Init, Inv, Shape, HeldByRunning, WatchdogHasManager, NoWatchdog, Watchdogs

LEMMA RemoveWatchdog ==
  ASSUME watchdog \in [Deployments -> Watchdogs], NEW d \in Deployments
  PROVE  /\ maybeRemoveWatchdog(d) \in [Deployments -> Watchdogs]
         /\ \A e \in Deployments :
              /\ maybeRemoveWatchdog(d)[e].step = watchdog[e].step
              /\ e # d => maybeRemoveWatchdog(d)[e] = watchdog[e]
              /\ maybeRemoveWatchdog(d)[e].step # "none" /\ e = d => maybeRemoveWatchdog(d)[e].stop
              /\ watchdog[e].stop => maybeRemoveWatchdog(d)[e].stop
<1>1. CASE watchdog[d].step = "none"
  BY <1>1 DEF maybeRemoveWatchdog
<1>2. CASE watchdog[d].step # "none"
  <2> DEFINE w == [watchdog[d] EXCEPT !.stop = TRUE]
  <2>1. maybeRemoveWatchdog(d) = [watchdog EXCEPT ![d] = w]
    BY <1>2 DEF maybeRemoveWatchdog
  <2>2. watchdog[d] \in Watchdogs
    OBVIOUS
  <2>3. w \in Watchdogs /\ w.step = watchdog[d].step /\ w.stop = TRUE
    BY <2>2, Zenon DEF Watchdogs
  <2>4. w.stop
    BY <2>3
  <2> HIDE DEF w
  <2>5. QED
    BY <2>1, <2>3, <2>4
<1>3. QED
  BY <1>1, <1>2

LEMMA Manager1 ==
  ASSUME Shape, NEW d \in Deployments
  PROVE  /\ WithManager(d) \in [Deployments -> {"none", "running", "stopping", "over"}]
         /\ WithManager(d)[d] # "none"
         /\ \A e \in Deployments : manager[e] # "none" => WithManager(d)[e] = manager[e]
BY DEF Shape, WithManager

LEMMA InvStep == Inv /\ [Next]_vars => Inv'
<1> SUFFICES ASSUME Inv, [Next]_vars PROVE Inv'
  OBVIOUS
<1> USE DeploymentAssumption, NoneAssumption DEF Inv, Loop
<1>1. CASE Environment \/ Shutdown \/ ManagersDrained \/ ShutdownCompleted
  BY <1>1 DEF Environment, LeaseWon, DeploymentClosed, Submit, Shutdown, ManagersDrained,
     ShutdownCompleted, managerVars, Shape, HeldByRunning, WatchdogHasManager
<1>2. ASSUME NEW l \in LeaseIDs, handleLease(l) PROVE Inv'
  <2> DEFINE d == DeploymentOf[l]
             w == [step |-> "waiting", lease |-> l, stop |-> FALSE, late |-> d \in accepted]
  <2>1. d \in Deployments /\ manager' = WithManager(d) /\ UNCHANGED <<svc, call>>
    BY <1>2 DEF handleLease
  <2>2. watchdog' = watchdog \/ watchdog' = [watchdog EXCEPT ![d] = w]
    BY <1>2 DEF handleLease
  <2>3. w \in Watchdogs
    BY DEF Watchdogs
  <2> HIDE DEF d, w
  <2>4. Shape'
    <3>1. watchdog' \in [Deployments -> Watchdogs]
      BY <2>1, <2>2, <2>3 DEF Shape
    <3>2. manager' \in [Deployments -> {"none", "running", "stopping", "over"}]
      BY <2>1, Manager1
    <3>3. QED
      BY <3>1, <3>2, <2>1 DEF Shape
  <2>5. HeldByRunning'
    BY <2>1, Manager1 DEF HeldByRunning, Shape
  <2>6. WatchdogHasManager'
    <3>1. manager'[d] # "none" /\ \A e \in Deployments : manager[e] # "none" => manager'[e] # "none"
      BY <2>1, Manager1 DEF Shape
    <3>2. \A e \in Deployments : e # d => watchdog'[e] = watchdog[e]
      BY <2>2 DEF Shape
    <3>3. QED
      BY <2>1, <3>1, <3>2 DEF WatchdogHasManager
  <2>7. QED
    BY <2>4, <2>5, <2>6
<1>3. ASSUME NEW d \in Deployments, handleDeploymentClosed(d) PROVE Inv'
  BY <1>3 DEF handleDeploymentClosed, Shape, HeldByRunning, WatchdogHasManager
<1>4. ASSUME NEW r \in Submits, handleManifest(r) PROVE Inv'
  <2> DEFINE d == TargetOf[r]
  <2>1. /\ d \in Deployments /\ manager' = WithManager(d) /\ UNCHANGED svc
        /\ watchdog' = maybeRemoveWatchdog(d)
        /\ call' = [call EXCEPT ![r] = IF manager'[d] = "running" THEN "held" ELSE "returned"]
    BY <1>4 DEF handleManifest
  <2>2. Shape'
    BY <2>1, Manager1, RemoveWatchdog DEF Shape
  <2>3. HeldByRunning'
    BY <2>1, Manager1 DEF HeldByRunning, Shape
  <2>4. WatchdogHasManager'
    <3> SUFFICES ASSUME Loop', NEW e \in Deployments, watchdog'[e].step = "waiting",
                        ~watchdog'[e].stop
                 PROVE  manager'[e] # "none"
      BY DEF WatchdogHasManager
    <3>1. watchdog[e].step = "waiting" /\ ~watchdog[e].stop
      BY <2>1, RemoveWatchdog DEF Shape
    <3>2. QED
      BY <3>1, <2>1, Manager1 DEF WatchdogHasManager, Shape
  <2>5. QED
    BY <2>2, <2>3, <2>4
<1>5. ASSUME NEW d \in Deployments, ManagerDone(d) PROVE Inv'
  <2>1. Shape'
    BY <1>5, RemoveWatchdog DEF ManagerDone, Shape
  <2>2. HeldByRunning'
    BY <1>5 DEF ManagerDone, HeldByRunning, Shape
  <2>3. WatchdogHasManager'
    <3> SUFFICES ASSUME Loop', NEW e \in Deployments, watchdog'[e].step = "waiting",
                        ~watchdog'[e].stop
                 PROVE  manager'[e] # "none"
      BY DEF WatchdogHasManager
    <3>1. watchdog' = maybeRemoveWatchdog(d) /\ Loop
      BY <1>5 DEF ManagerDone
    <3>2. watchdog[e].step = "waiting" /\ ~watchdog[e].stop /\ e # d
      BY <3>1, RemoveWatchdog DEF Shape
    <3>3. QED
      BY <3>1, <3>2, <1>5 DEF ManagerDone, WatchdogHasManager, Shape
  <2>4. QED
    BY <2>1, <2>2, <2>3
<1>6. ASSUME NEW d \in Deployments, DrainManager(d) \/ ManagerStops(d) \/ ManagerOver(d) PROVE Inv'
  BY <1>6 DEF DrainManager, ManagerStops, ManagerOver, Shape, HeldByRunning, WatchdogHasManager
<1>7. ASSUME NEW d \in Deployments,
             WatchdogDone(d) \/ Timeout(d) \/ WatchdogStops(d) \/ CloseBidDone(d)
      PROVE  Inv'
  <2>1. UNCHANGED <<svc, manager, call>>
    BY <1>7 DEF WatchdogDone, Timeout, WatchdogStops, CloseBidDone, managerVars
  <2>2. watchdog[d] \in Watchdogs
    BY DEF Shape
  <2>3. PICK w \in Watchdogs : watchdog' = [watchdog EXCEPT ![d] = w] /\ w.step # "waiting"
    <3>1. NoWatchdog \in Watchdogs /\ NoWatchdog.step = "none"
      BY DEF NoWatchdog, Watchdogs
    <3>2. ASSUME NEW s \in {"closing", "over"}
          PROVE  [watchdog[d] EXCEPT !.step = s] \in Watchdogs
                 /\ [watchdog[d] EXCEPT !.step = s].step = s
      BY <2>2 DEF Watchdogs
    <3>3. QED
      BY <1>7, <3>1, <3>2, Zenon DEF WatchdogDone, Timeout, WatchdogStops, CloseBidDone
  <2>4. QED
    BY <2>1, <2>3 DEF Shape, HeldByRunning, WatchdogHasManager
<1>8. ASSUME NEW r \in Submits,
             SubmitNotRunning(r) \/ \E ok \in BOOLEAN : ManagerAnswers(r, ok)
      PROVE  Inv'
  BY <1>8 DEF SubmitNotRunning, ManagerAnswers, managerVars, Shape, HeldByRunning,
     WatchdogHasManager
<1>9. CASE UNCHANGED vars
  BY <1>9 DEF vars, managerVars, Shape, HeldByRunning, WatchdogHasManager
<1>10. QED
  BY <1>1, <1>2, <1>3, <1>4, <1>5, <1>6, <1>7, <1>8, <1>9 DEF Next, Service, Drain, Manager, Watchdog

\* A manager that holds a request is in its loop, so a request that was handed
\* over is answered by the manager or when the manager stops.
THEOREM RequestsAreHeldByRunning == Spec => []HeldByRunning
<1>1. Inv => HeldByRunning
  BY DEF Inv
<1>2. QED
  BY <1>1, InvInit, InvStep, PTL DEF Spec

\* A waiting watchdog guards a deployment that has a manager.
THEOREM WatchdogsHaveManagers == Spec => []WatchdogHasManager
<1>1. Inv => WatchdogHasManager
  BY DEF Inv
<1>2. QED
  BY <1>1, InvInit, InvStep, PTL DEF Spec

-----------------------------------------------------------------------------
(***************************************************************************)
(* Type correctness.                                                       *)
(***************************************************************************)

\* What Shape leaves open, and that a watchdog knows the lease it would close.
RestOK ==
  /\ svc \in {"running", "managers", "watchdogs", "done"}
  /\ bus \in Seq(({"won"} \X LeaseIDs) \cup ({"closed"} \X Deployments))
  /\ won \subseteq LeaseIDs /\ gone \subseteq Deployments
  /\ stop \subseteq Deployments
  /\ accepted \subseteq {d \in Deployments : manager[d] # "none"}
  /\ tried \subseteq LeaseIDs
  /\ \A d \in Deployments : watchdog[d].step # "none" => watchdog[d].lease \in LeaseIDs

LEMMA RemoveKeepsLease ==
  ASSUME watchdog \in [Deployments -> Watchdogs], NEW d \in Deployments, NEW e \in Deployments
  PROVE  maybeRemoveWatchdog(d)[e].lease = watchdog[e].lease
<1>1. CASE watchdog[d].step = "none"
  BY <1>1 DEF maybeRemoveWatchdog
<1>2. CASE watchdog[d].step # "none"
  <2> DEFINE w == [watchdog[d] EXCEPT !.stop = TRUE]
  <2>1. maybeRemoveWatchdog(d) = [watchdog EXCEPT ![d] = w]
    BY <1>2 DEF maybeRemoveWatchdog
  <2>2. w.lease = watchdog[d].lease
    BY DEF Watchdogs
  <2> HIDE DEF w
  <2>3. QED
    BY <2>1, <2>2
<1>3. QED
  BY <1>1, <1>2

\* A watchdog that is asked to stop still has its lease.
LEMMA RemoveKeepsLeases ==
  ASSUME watchdog \in [Deployments -> Watchdogs], NEW d \in Deployments,
         \A e \in Deployments : watchdog[e].step # "none" => watchdog[e].lease \in LeaseIDs
  PROVE  \A e \in Deployments : maybeRemoveWatchdog(d)[e].step # "none" =>
           maybeRemoveWatchdog(d)[e].lease \in LeaseIDs
<1> SUFFICES ASSUME NEW e \in Deployments, maybeRemoveWatchdog(d)[e].step # "none"
             PROVE  maybeRemoveWatchdog(d)[e].lease \in LeaseIDs
  OBVIOUS
<1>1. maybeRemoveWatchdog(d)[e].step = watchdog[e].step
  BY RemoveWatchdog
<1>2. maybeRemoveWatchdog(d)[e].lease = watchdog[e].lease
  BY RemoveKeepsLease
<1>3. QED
  BY <1>1, <1>2

LEMMA RestStep == Inv /\ RestOK /\ [Next]_vars => RestOK'
<1> SUFFICES ASSUME Shape, RestOK, [Next]_vars PROVE RestOK'
  BY DEF Inv
<1> USE DeploymentAssumption DEF RestOK, Loop
<1>1. ASSUME NEW l \in LeaseIDs, LeaseWon(l) PROVE RestOK'
  BY <1>1 DEF LeaseWon, managerVars
<1>2. ASSUME NEW d \in Deployments, DeploymentClosed(d) PROVE RestOK'
  BY <1>2 DEF DeploymentClosed, managerVars
<1>3. ASSUME NEW r \in Submits, Submit(r) \/ SubmitNotRunning(r) PROVE RestOK'
  BY <1>3 DEF Submit, SubmitNotRunning, managerVars
<1>4. CASE Shutdown \/ ManagersDrained \/ ShutdownCompleted
  BY <1>4 DEF Shutdown, ManagersDrained, ShutdownCompleted, managerVars
<1>5. ASSUME NEW l \in LeaseIDs, handleLease(l) PROVE RestOK'
  <2> DEFINE d == DeploymentOf[l]
             w == [step |-> "waiting", lease |-> l, stop |-> FALSE, late |-> d \in accepted]
  <2>1. /\ d \in Deployments /\ manager' = WithManager(d)
        /\ UNCHANGED <<svc, won, gone, stop, accepted, tried>>
        /\ bus # <<>> /\ bus' = Tail(bus)
    BY <1>5 DEF handleLease
  <2>2. watchdog' = watchdog \/ watchdog' = [watchdog EXCEPT ![d] = w]
    BY <1>5 DEF handleLease
  <2>3. w.lease \in LeaseIDs
    OBVIOUS
  <2> HIDE DEF d, w
  <2>4. \A e \in Deployments : watchdog'[e].step # "none" => watchdog'[e].lease \in LeaseIDs
    BY <2>1, <2>2, <2>3, Zenon DEF Shape
  <2>5. accepted' \subseteq {e \in Deployments : manager'[e] # "none"}
    BY <2>1, Manager1
  <2>6. QED
    BY <2>1, <2>4, <2>5
<1>6. ASSUME NEW d \in Deployments, handleDeploymentClosed(d) PROVE RestOK'
  BY <1>6 DEF handleDeploymentClosed
<1>7. ASSUME NEW r \in Submits, handleManifest(r) PROVE RestOK'
  <2>1. PICK d \in Deployments :
          /\ manager' = WithManager(d) /\ watchdog' = maybeRemoveWatchdog(d)
          /\ UNCHANGED <<svc, bus, won, gone, stop, accepted, tried>>
    BY <1>7 DEF handleManifest
  <2>2. \A e \in Deployments : watchdog'[e].step # "none" => watchdog'[e].lease \in LeaseIDs
    BY <2>1, RemoveKeepsLeases DEF Shape
  <2>3. accepted' \subseteq {e \in Deployments : manager'[e] # "none"}
    BY <2>1, Manager1
  <2>4. QED
    BY <2>1, <2>2, <2>3
<1>8. ASSUME NEW d \in Deployments, ManagerDone(d) PROVE RestOK'
  <2>1. \A e \in Deployments : watchdog'[e].step # "none" => watchdog'[e].lease \in LeaseIDs
    <3>1. watchdog' = maybeRemoveWatchdog(d)
      BY <1>8 DEF ManagerDone
    <3>2. QED
      BY <3>1, RemoveKeepsLeases DEF Shape
  <2>2. QED
    BY <1>8, <2>1 DEF ManagerDone, Shape
<1>9. ASSUME NEW d \in Deployments, DrainManager(d) \/ ManagerStops(d) \/ ManagerOver(d)
      PROVE  RestOK'
  BY <1>9 DEF DrainManager, ManagerStops, ManagerOver, Shape
<1>10. ASSUME NEW d \in Deployments,
              WatchdogDone(d) \/ Timeout(d) \/ WatchdogStops(d) \/ CloseBidDone(d)
       PROVE  RestOK'
  <2>1. PICK w : /\ watchdog' = [watchdog EXCEPT ![d] = w]
                 /\ w.step # "none" => watchdog[d].step # "none" /\ w.lease = watchdog[d].lease
    <3>1. watchdog[d] \in Watchdogs
      BY DEF Shape
    <3>2. NoWatchdog.step = "none"
      BY DEF NoWatchdog
    <3>3. ASSUME NEW s PROVE [watchdog[d] EXCEPT !.step = s].lease = watchdog[d].lease
      BY <3>1 DEF Watchdogs
    <3>4. QED
      BY <1>10, <3>2, <3>3, ZenonT(40) DEF WatchdogDone, Timeout, WatchdogStops, CloseBidDone
  <2>2. \A e \in Deployments : watchdog'[e].step # "none" => watchdog'[e].lease \in LeaseIDs
    BY <2>1 DEF Shape
  <2>3. tried' \subseteq LeaseIDs
    BY <1>10 DEF WatchdogDone, Timeout, WatchdogStops, CloseBidDone
  <2>4. QED
    BY <1>10, <2>2, <2>3 DEF WatchdogDone, Timeout, WatchdogStops, CloseBidDone, managerVars
<1>11. ASSUME NEW r \in Submits, NEW ok \in BOOLEAN, ManagerAnswers(r, ok) PROVE RestOK'
  BY <1>11 DEF ManagerAnswers
<1>12. CASE UNCHANGED vars
  BY <1>12 DEF vars, managerVars
<1>13. QED
  BY <1>1, <1>2, <1>3, <1>4, <1>5, <1>6, <1>7, <1>8, <1>9, <1>10, <1>11, <1>12, Zenon
     DEF Next, Environment, Service, Drain, Manager, Watchdog

\* Type correctness; what a manager accepted is forgotten with the manager
\* (service.go, managerch), and a watchdog only ever closes a lease it was
\* created for.
THEOREM ServiceTypeCorrect == Spec => []TypeOK
<1>1. Init => RestOK
  BY DEF Init, RestOK, NoWatchdog
<1>2. Inv /\ RestOK => TypeOK
  BY DEF Inv, Shape, RestOK, TypeOK
<1>3. QED
  BY <1>1, <1>2, InvInit, InvStep, RestStep, PTL DEF Spec
================================================================================
