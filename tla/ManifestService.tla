---------------------------- MODULE ManifestService ----------------------------
(***************************************************************************)
(* The manifest service, manifest/service.go, with its watchdogs,          *)
(* manifest/watchdog.go: one loop that creates a manager and a watchdog    *)
(* for the deployment of a lease that was won, hands submitted manifests   *)
(* to the managers, and waits for all of them when it stops.  A watchdog   *)
(* closes the bid of its lease if no manifest comes in time.               *)
(*                                                                         *)
(* A manager is seen from outside: it takes requests while it runs, answers *)
(* them in any order, and answers the rest when it stops.  What it does in  *)
(* between is ManifestManager; the events that the loop only passes on to  *)
(* it (an update, a lease that was closed) are left out here.              *)
(***************************************************************************)
EXTENDS ManifestServiceConstants, Sequences

VARIABLES
  svc,        \* the service: its loop, the two drains, done
  bus,        \* events that the service has not read
  won,        \* leases that were won
  gone,       \* deployments that were closed
  manager,    \* s.managers: the manager of a deployment
  stop,       \* managers that were asked to stop
  accepted,   \* deployments whose manager has accepted a manifest
  watchdog,   \* s.watchdogs
  tried,      \* leases whose bid a watchdog has tried to close
  call        \* the state of a call of Submit

managerVars == <<manager, stop, accepted>>
vars == <<svc, bus, won, gone, managerVars, watchdog, tried, call>>

NoWatchdog == [step |-> "none", lease |-> None, stop |-> FALSE, late |-> FALSE]

\* late is history: the manager had accepted a manifest before.
Watchdogs ==
  [step : {"none", "waiting", "closing", "over"}, lease : LeaseIDs \cup {None}, stop : BOOLEAN,
   late : BOOLEAN]

TypeOK ==
  /\ svc \in {"running", "managers", "watchdogs", "done"}
  /\ bus \in Seq(({"won"} \X LeaseIDs) \cup ({"closed"} \X Deployments))
  /\ won \subseteq LeaseIDs /\ gone \subseteq Deployments
  /\ manager \in [Deployments -> {"none", "running", "stopping", "over"}]
  /\ stop \subseteq Deployments
  /\ accepted \subseteq {d \in Deployments : manager[d] # "none"}
  /\ watchdog \in [Deployments -> Watchdogs]
  /\ tried \subseteq LeaseIDs
  /\ call \in [Submits -> {"none", "calling", "held", "returned"}]

Init ==
  /\ svc = "running"
  /\ bus = <<>>
  /\ won = {} /\ gone = {}
  /\ manager = [d \in Deployments |-> "none"]
  /\ stop = {} /\ accepted = {}
  /\ watchdog = [d \in Deployments |-> NoWatchdog]
  /\ tried = {}
  /\ call = [r \in Submits |-> "none"]

Loop == svc = "running"

-----------------------------------------------------------------------------
(***************************************************************************)
(* The bid engine and the chain publish events; tenants call Submit.       *)
(***************************************************************************)
LeaseWon(l) ==
  /\ l \notin won /\ DeploymentOf[l] \notin gone
  /\ won' = won \cup {l}
  /\ bus' = Append(bus, <<"won", l>>)
  /\ UNCHANGED <<svc, gone, managerVars, watchdog, tried, call>>

DeploymentClosed(d) ==
  /\ d \notin gone
  /\ gone' = gone \cup {d}
  /\ bus' = Append(bus, <<"closed", d>>)
  /\ UNCHANGED <<svc, won, managerVars, watchdog, tried, call>>

Submit(r) ==
  /\ call[r] = "none"
  /\ call' = [call EXCEPT ![r] = "calling"]
  /\ UNCHANGED <<svc, bus, won, gone, managerVars, watchdog, tried>>

\* Submit sees that the service is shutting down.
SubmitNotRunning(r) ==
  /\ call[r] = "calling"
  /\ ~Loop
  /\ call' = [call EXCEPT ![r] = "returned"]
  /\ UNCHANGED <<svc, bus, won, gone, managerVars, watchdog, tried>>

-----------------------------------------------------------------------------
(***************************************************************************)
(* The loop of the service.                                                *)
(***************************************************************************)

\* ensureManager.
WithManager(d) == [manager EXCEPT ![d] = IF @ = "none" THEN "running" ELSE @]

maybeRemoveWatchdog(d) ==
  IF watchdog[d].step = "none" THEN watchdog ELSE [watchdog EXCEPT ![d].stop = TRUE]

\* Mutant: no watchdog is started.
handleLeaseUnwatched(l) ==
  /\ Loop
  /\ bus # <<>> /\ Head(bus) = <<"won", l>>
  /\ bus' = Tail(bus)
  /\ manager' = WithManager(DeploymentOf[l])
  /\ UNCHANGED <<svc, won, gone, stop, accepted, watchdog, tried, call>>

handleLease(l) ==
  LET d == DeploymentOf[l]
  IN /\ Loop
     /\ bus # <<>> /\ Head(bus) = <<"won", l>>
     /\ bus' = Tail(bus)
     /\ watchdog' = IF watchdog[d].step # "none" THEN watchdog
                    ELSE [watchdog EXCEPT ![d] = [step |-> "waiting", lease |-> l, stop |-> FALSE,
                                                  late |-> d \in accepted]]
     /\ manager' = WithManager(d)
     /\ UNCHANGED <<svc, won, gone, stop, accepted, tried, call>>

handleDeploymentClosed(d) ==
  /\ Loop
  /\ bus # <<>> /\ Head(bus) = <<"closed", d>>
  /\ bus' = Tail(bus)
  /\ stop' = IF manager[d] = "none" THEN stop ELSE stop \cup {d}
  /\ UNCHANGED <<svc, won, gone, manager, accepted, watchdog, tried, call>>

\* A request is handed to the manager, or answered if the manager has stopped.
handleManifest(r) ==
  LET d == TargetOf[r]
  IN /\ Loop
     /\ call[r] = "calling"
     /\ watchdog' = maybeRemoveWatchdog(d)
     /\ manager' = WithManager(d)
     /\ call' = [call EXCEPT ![r] = IF manager'[d] = "running" THEN "held" ELSE "returned"]
     /\ UNCHANGED <<svc, bus, won, gone, stop, accepted, tried>>

\* The loop reads managerch; the next manager of d starts with nothing.
ManagerDone(d) ==
  /\ Loop
  /\ manager[d] = "over"
  /\ manager' = [manager EXCEPT ![d] = "none"]
  /\ stop' = stop \ {d} /\ accepted' = accepted \ {d}
  /\ watchdog' = maybeRemoveWatchdog(d)
  /\ UNCHANGED <<svc, bus, won, gone, tried, call>>

\* The loop, or the second drain, reads watchdogch.
WatchdogDone(d) ==
  /\ svc \in {"running", "watchdogs"}
  /\ watchdog[d].step = "over"
  /\ watchdog' = [watchdog EXCEPT ![d] = NoWatchdog]
  /\ UNCHANGED <<svc, bus, won, gone, managerVars, tried, call>>

-----------------------------------------------------------------------------
(***************************************************************************)
(* Shutting down: first the managers are waited for, then the watchdogs.   *)
(***************************************************************************)
Shutdown ==
  /\ Loop
  /\ svc' = "managers"
  /\ UNCHANGED <<bus, won, gone, managerVars, watchdog, tried, call>>

DrainManager(d) ==
  /\ svc = "managers"
  /\ manager[d] = "over"
  /\ manager' = [manager EXCEPT ![d] = "none"]
  /\ stop' = stop \ {d} /\ accepted' = accepted \ {d}
  /\ UNCHANGED <<svc, bus, won, gone, watchdog, tried, call>>

ManagersDrained ==
  /\ svc = "managers"
  /\ \A d \in Deployments : manager[d] = "none"
  /\ svc' = "watchdogs"
  /\ UNCHANGED <<bus, won, gone, managerVars, watchdog, tried, call>>

ShutdownCompleted ==
  /\ svc = "watchdogs"
  /\ \A d \in Deployments : watchdog[d].step = "none"
  /\ svc' = "done"
  /\ UNCHANGED <<bus, won, gone, managerVars, watchdog, tried, call>>

-----------------------------------------------------------------------------
(***************************************************************************)
(* The managers.                                                           *)
(***************************************************************************)

\* A request is answered; ok means that its manifest was accepted.
ManagerAnswers(r, ok) ==
  LET d == TargetOf[r]
  IN /\ manager[d] = "running"
     /\ call[r] = "held"
     /\ ok => \E l \in won : DeploymentOf[l] = d
     /\ call' = [call EXCEPT ![r] = "returned"]
     /\ accepted' = IF ok THEN accepted \cup {d} ELSE accepted
     /\ UNCHANGED <<svc, bus, won, gone, manager, stop, watchdog, tried>>

\* The manager leaves its loop and answers what it holds.
ManagerStops(d) ==
  /\ manager[d] = "running"
  /\ d \in stop \/ ~Loop
  /\ manager' = [manager EXCEPT ![d] = "stopping"]
  /\ call' = [r \in Submits |->
                IF TargetOf[r] = d /\ call[r] = "held" THEN "returned" ELSE call[r]]
  /\ UNCHANGED <<svc, bus, won, gone, stop, accepted, watchdog, tried>>

\* Its chain read has ended: it waits for somebody to read managerch.
ManagerOver(d) ==
  /\ manager[d] = "stopping"
  /\ manager' = [manager EXCEPT ![d] = "over"]
  /\ UNCHANGED <<svc, bus, won, gone, stop, accepted, watchdog, tried, call>>

-----------------------------------------------------------------------------
(***************************************************************************)
(* The watchdogs.                                                          *)
(***************************************************************************)

\* The manifest timeout: MsgCloseBid is broadcast, also if the watchdog was asked
\* to stop at the same time.
Timeout(d) ==
  /\ watchdog[d].step = "waiting"
  /\ watchdog' = [watchdog EXCEPT ![d].step = "closing"]
  /\ tried' = tried \cup {watchdog[d].lease}
  /\ UNCHANGED <<svc, bus, won, gone, managerVars, call>>

WatchdogStops(d) ==
  /\ watchdog[d].step = "waiting"
  /\ watchdog[d].stop \/ ~Loop
  /\ watchdog' = [watchdog EXCEPT ![d].step = "over"]
  /\ UNCHANGED <<svc, bus, won, gone, managerVars, tried, call>>

\* A broadcast that has started is waited for, whoever asks the watchdog to stop.
CloseBidDone(d) ==
  /\ watchdog[d].step = "closing"
  /\ watchdog' = [watchdog EXCEPT ![d].step = "over"]
  /\ UNCHANGED <<svc, bus, won, gone, managerVars, tried, call>>

-----------------------------------------------------------------------------
Environment ==
  \/ \E l \in LeaseIDs : LeaseWon(l)
  \/ \E d \in Deployments : DeploymentClosed(d)
  \/ \E r \in Submits : Submit(r)

Service ==
  \/ \E l \in LeaseIDs : handleLease(l)
  \/ \E d \in Deployments : handleDeploymentClosed(d)

Drain == (\E d \in Deployments : DrainManager(d)) \/ ManagersDrained \/ ShutdownCompleted

Manager(d) == ManagerStops(d) \/ ManagerOver(d)

Watchdog(d) == WatchdogStops(d) \/ CloseBidDone(d)

Next ==
  \/ Environment \/ Service \/ Drain \/ Shutdown
  \/ \E r \in Submits :
       handleManifest(r) \/ SubmitNotRunning(r) \/ \E ok \in BOOLEAN : ManagerAnswers(r, ok)
  \/ \E d \in Deployments :
       ManagerDone(d) \/ WatchdogDone(d) \/ Manager(d) \/ Timeout(d) \/ Watchdog(d)

Spec == Init /\ [][Next]_vars

\* The goroutines run, timers fire, reads and broadcasts have a timeout, and a
\* select that can take a branch for ever takes it.
Fairness ==
  /\ WF_vars(Service) /\ WF_vars(Drain)
  /\ \A r \in Submits :
       /\ WF_vars(handleManifest(r)) /\ WF_vars(SubmitNotRunning(r))
       /\ WF_vars(\E ok \in BOOLEAN : ManagerAnswers(r, ok))
  /\ \A d \in Deployments :
       /\ WF_vars(ManagerDone(d)) /\ WF_vars(WatchdogDone(d)) /\ WF_vars(Manager(d))
       /\ WF_vars(Timeout(d)) /\ WF_vars(Watchdog(d))

FairSpec == Spec /\ Fairness

-----------------------------------------------------------------------------
(***************************************************************************)
(* Properties.                                                             *)
(***************************************************************************)

\* A manager that holds a request is in its loop: no request is handed to a
\* manager that has stopped and answers nobody any more (handleManifest).
HeldByRunning == \A r \in Submits : call[r] = "held" => manager[TargetOf[r]] = "running"

\* While the service runs, a watchdog that waits and was not asked to stop guards
\* a deployment that has a manager.
WatchdogHasManager ==
  Loop => \A d \in Deployments :
            watchdog[d].step = "waiting" /\ ~watchdog[d].stop => manager[d] # "none"

\* Every call of Submit returns, whatever its manager and the service do.
EveryCallReturns == \A r \in Submits : []<>(call[r] \notin {"calling", "held"})

\* A shutdown completes: the drains wait for exactly the managers and watchdogs
\* that there are, each of which gets rid of its last message.
ServiceStops == []<>(Loop \/ svc = "done")

Attended(d) == d \in gone \/ ~Loop \/ \E r \in Submits : TargetOf[r] = d /\ call[r] # "none"

\* A lease for which no manifest comes is closed, as far as the provider can: its
\* watchdog broadcasts MsgCloseBid.
UnattendedIsClosed ==
  \A l \in LeaseIDs :
    LET d == DeploymentOf[l]
    IN []<>(l \in won => Attended(d) \/ l \in tried)

\* "Create watchdog if it does not exist AND a manifest has not been received
\* yet": no watchdog closes the bid of a deployment whose manifest had been
\* accepted before the watchdog was created.
NoCloseAfterManifest == \A d \in Deployments : watchdog[d].step = "closing" => ~watchdog[d].late
================================================================================
