---------------------------- MODULE ManifestsMC -----------------------------
(***************************************************************************)
(* How manifests come to the provider: the manager of one deployment's     *)
(* manifests, and the service that starts managers and watchdogs for       *)
(* leases and hands submitted manifests to them, and the manifest a        *)
(* restarted provider reads back from the cluster. The managers of the     *)
(* service are abstracted to their phases. One of them runs in a           *)
(* behaviour.                                                              *)
(***************************************************************************)
EXTENDS ManifestManager, ManifestServiceConstants

CONSTANTS NoProxy, NoParams,
  Parts   \* the components that may run: "manager", "service", "recovery"

VARIABLES
  svc, bus, won, gone, manager, stop, accepted, watchdog, tried, call,
  settings, rsv, mgr, maniCRD, podsOf, lrBus, lrCount,
  part   \* the component that runs

\* Two deployments with a lease each; requests are for the first.
OwnDeployment == [l \in LeaseIDs |-> IF l = "l1" THEN "d1" ELSE "d2"]
ForFirst      == [r \in Submits |-> "d1"]

\* The requests of the manager are alike, and so are its hashes: "r1" comes before
\* "r2", and the first block has "v1".
Sent(r)      == r \in requests \/ r \in ctxDone \/ reply[r] # "none"
FirstInOrder == Sent("r2")' => Sent("r1")'

\* The manifests of LeaseRecovery: services that share resources and ask for
\* attestation or not, proxy options that are absent or zero, a leased address,
\* an amount that does not fit, and a service that replaces another.
Expose(port, external, ip, proxy) ==
  [port |-> port, external |-> external, ip |-> ip, proxy |-> proxy]
Workload(name, id, size, tee, attestation, expose) ==
  [name |-> name, id |-> id, cpu |-> size, memory |-> size, group |-> "", tee |-> tee,
   attestation |-> attestation, expose |-> expose]
Stored ==
  {<<Workload("a", 1, 1, "cpu", TRUE,
       <<Expose(3, 0, "", NoProxy), Expose(3, 5, "ip", [disable |-> TRUE, buffers |-> 0])>>),
     Workload("b", 1, 2, "cpu", FALSE, <<>>)>>,
   <<Workload("a", 1, 1, "cpu", TRUE, <<Expose(3, 0, "", [disable |-> FALSE, buffers |-> 0])>>),
     Workload("b", 1, 2, "cpu", TRUE, <<>>)>>,
   <<Workload("a", 1, 2, "cpu", TRUE, <<>>), Workload("b", 2, 9, "none", FALSE, <<>>)>>,
   <<Workload("c", 1, 2, "cpu", TRUE, <<>>)>>}

S == INSTANCE ManifestService
R == INSTANCE LeaseRecovery WITH
  Manifests <- Stored, OrderTEE <- "cpu", OrderIDs <- {1, 2}, Dseq <- 4,
  NoManifest <- None, NoProxy <- NoProxy, NoParams <- NoParams, MaxUint32 <- 7,
  Ports <- 8, MaxDeploys <- 3, MaxRestarts <- 2, MaxAdjusts <- 2, bus <- lrBus

serviceVars == <<svc, bus, won, gone, manager, stop, accepted, watchdog, tried, call>>
recoveryVars == <<settings, rsv, mgr, maniCRD, podsOf, lrBus, lrCount>>

allVars == <<vars, serviceVars, recoveryVars, part>>

\* The components that do not run stay in one of their initial states.
MCInit ==
  /\ part \in Parts
  /\ Init /\ chain[1].hash = "v1" /\ (part # "manager" => chain[1].leases = {})
  /\ S!Init
  /\ R!Init

Manager ==
  /\ part = "manager" /\ Next /\ FirstInOrder
  /\ UNCHANGED <<serviceVars, recoveryVars, part>>
Service ==
  /\ part = "service" /\ S!Next
  /\ UNCHANGED <<vars, recoveryVars, part>>
Recovery ==
  /\ part = "recovery" /\ R!Next
  /\ UNCHANGED <<vars, serviceVars, part>>

MCNext == Manager \/ Service \/ Recovery

MCSpec == MCInit /\ [][MCNext]_allVars

\* The state of the component that runs.
runningVars == CASE part = "manager" -> vars
                 [] part = "service" -> serviceVars
                 [] part = "recovery" -> recoveryVars

Runs(p) == part = p /\ UNCHANGED part

\* The fairness each component states for itself. As only one of them runs, one
\* conjunct serves a fair step of each.
MCFairSpec ==
  /\ MCSpec
  /\ WF_runningVars(\/ Runs("manager") /\ Read
                    \/ Runs("service") /\ S!Service)
  /\ WF_runningVars(\/ Runs("manager") /\ Result
                    \/ Runs("service") /\ S!Drain)
  /\ WF_runningVars(\/ Runs("manager") /\ Drained
                    \/ Runs("service") /\ S!handleManifest("r1"))
  /\ WF_runningVars(Runs("service") /\ S!SubmitNotRunning("r1"))
  /\ WF_runningVars(Runs("service") /\ (\E ok \in BOOLEAN : S!ManagerAnswers("r1", ok)))
  /\ WF_runningVars(Runs("service") /\ S!ManagerDone("d1"))
  /\ WF_runningVars(Runs("service") /\ S!ManagerDone("d2"))
  /\ WF_runningVars(Runs("service") /\ S!WatchdogDone("d1"))
  /\ WF_runningVars(Runs("service") /\ S!WatchdogDone("d2"))
  /\ WF_runningVars(Runs("service") /\ S!Manager("d1"))
  /\ WF_runningVars(Runs("service") /\ S!Manager("d2"))
  /\ WF_runningVars(Runs("service") /\ S!Timeout("d1"))
  /\ WF_runningVars(Runs("service") /\ S!Timeout("d2"))
  /\ WF_runningVars(Runs("service") /\ S!Watchdog("d1"))
  /\ WF_runningVars(Runs("service") /\ S!Watchdog("d2"))

-----------------------------------------------------------------------------

\* The manifest service attends to everyone: a lease for which no manifest comes
\* is closed by its watchdog, whatever managers and watchdogs came and went
\* before; every call of Submit returns; and a shutdown of the service completes.
UnattendedIsClosed == S!UnattendedIsClosed /\ S!EveryCallReturns /\ S!ServiceStops

\* A manifest that was accepted keeps the watchdog from closing its bid ("create
\* watchdog if it does not exist AND a manifest has not been received yet",
\* manifest/service.go).
NoCloseAfterManifest == part = "service" => S!NoCloseAfterManifest

\* The manifest a restarted provider reads back is the deployed one, and the pods
\* it builds from it are the running ones.
RestartKeepsPods == part = "recovery" => R!RestartKeepsPods

\* A service whose manifest asks for confidential computing keeps a confidential
\* runtime class when the provider was restarted ("used for existing reservations
\* loaded at startup", inventory.go).
ConfidentialStays == part = "recovery" => R!ConfidentialStays
=============================================================================
