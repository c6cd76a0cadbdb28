------------------------------ MODULE LeasesMC ------------------------------
(***************************************************************************)
(* The life of a lease in the cluster: the deployment manager, the balance *)
(* checker that watches its escrow, the cluster service that starts        *)
(* managers, passes events on to them and reconciles what the cluster      *)
(* holds with the chain and the Kubernetes client's Deploy and             *)
(* TeardownLease. The cluster service has managers of its own, abstracted  *)
(* to their phases; the others meet only in the cluster. One of them runs  *)
(* in a behaviour.                                                         *)
(***************************************************************************)
EXTENDS DeploymentManager, Sequences, FiniteSets, TLC

CONSTANTS NoManifest, l1, l2,
  Parts   \* the components that may run: "manager", "service", "balance", "deploy"

VARIABLES
  chain, manis, spaces, declared, reserved, service, managers, managed, busEvents,
  pass, own, active, grouped, errs, sent, csFaults,
  bEscrow, bAdds, bCurrent, bClosed, bWithdrawing, bRetry, bCountdown, bTm, bCheck,
  bDue, bAlone, bSending, bInflight, bRunning,
  mani, ns, objs, pc, want, store, kdTodo, fresh, kdResult, up, kdLease, kdUpdates,
  kdFaults,
  part   \* the component that runs

\* A history of the manager has an update or a reclamation, not both.
UpdatedOrReclaimed == deployment' > 1 => lease' # "reclaiming" /\ ~due' /\ ~reclaimEvent'

\* The manifests of KubeDeploy: two services of which the second has persistent
\* storage, then all that can change of them, then one service.
Content(v, w) == [container |-> v, volumes |-> w, claims |-> w, affinity |-> v, count |-> w]
Group(services, perms, creds, local, global, v, w) ==
  [services |-> services, perms |-> perms, creds |-> creds, local |-> local, global |-> global,
   spec |-> [s \in {"s1", "s2"} |-> Content(v, w)]]
Deployed == {Group(<<"s1", "s2">>, {"s1"}, {}, {"s1"}, {}, 1, 1),
             Group(<<"s1", "s2">>, {"s2"}, {"s2"}, {}, {"s2"}, 2, 2),
             Group(<<"s1">>, {}, {}, {}, {}, 1, 1)}

C == INSTANCE ClusterService WITH
  Leases <- {l1, l2}, MaxCsFaults <- 1
B == INSTANCE BalanceChecker WITH
  Leases <- {l1}, MaxBatch <- 1, Period <- 1, MaxAdds <- 1, escrow <- bEscrow,
  adds <- bAdds, current <- bCurrent, closed <- bClosed, withdrawing <- bWithdrawing,
  retry <- bRetry, countdown <- bCountdown, tm <- bTm, check <- bCheck, due <- bDue,
  alone <- bAlone, sending <- bSending, inflight <- bInflight, running <- bRunning
K == INSTANCE KubeDeploy WITH
  Services <- {"s1", "s2"}, Manifests <- Deployed, Persistent <- {"s2"},
  None <- NoManifest, MaxUpdates <- 2, MaxFaults <- 2, todo <- kdTodo,
  result <- kdResult, lease <- kdLease

serviceVars == <<chain, manis, spaces, declared, reserved, service, managers, managed,
                 busEvents, pass, own, active, grouped, errs, sent, csFaults>>
balanceVars == <<bEscrow, bAdds, bCurrent, bClosed, bWithdrawing, bRetry, bCountdown,
                 bTm, bCheck, bDue, bAlone, bSending, bInflight, bRunning>>
deployVars == <<mani, ns, objs, pc, want, store, kdTodo, fresh, kdResult, up, kdLease,
                kdUpdates, kdFaults>>

allVars == <<vars, serviceVars, balanceVars, deployVars, part>>

\* The components that do not run stay in one of their initial states.
MCInit ==
  /\ part \in Parts
  /\ Init /\ (part # "manager" => lease = "active" /\ reservedFor = 1)
  /\ C!Init /\ (part # "service" => chain = [l \in {l1, l2} |-> "none"])
  /\ B!Init
  /\ K!Init

Manager ==
  /\ part = "manager" /\ Next /\ UpdatedOrReclaimed
  /\ UNCHANGED <<serviceVars, balanceVars, deployVars, part>>
Service ==
  /\ part = "service" /\ C!Next
  /\ UNCHANGED <<vars, balanceVars, deployVars, part>>
Balance ==
  /\ part = "balance" /\ B!Next
  /\ UNCHANGED <<vars, serviceVars, deployVars, part>>
Deploy ==
  /\ part = "deploy" /\ K!Next
  /\ UNCHANGED <<vars, serviceVars, balanceVars, part>>

MCNext == Manager \/ Service \/ Balance \/ Deploy

MCSpec == MCInit /\ [][MCNext]_allVars

\* The state of the component that runs.
runningVars == CASE part = "manager" -> vars
                 [] part = "service" -> serviceVars
                 [] part = "balance" -> balanceVars
                 [] part = "deploy" -> deployVars

Runs(p) == part = p /\ UNCHANGED part

\* The fairness each component states for itself. As only one of them runs, one
\* conjunct serves a fair step of each.
MCFairSpec ==
  /\ MCSpec
  /\ WF_runningVars(\/ Runs("manager") /\ Teardown
                    \/ Runs("service") /\ C!startDeploymentManagers
                    \/ Runs("balance") /\ B!TimerFires(<<l1, 1>>)
                    \/ Runs("deploy") /\ (K!Deploy \/ K!TeardownLease \/ K!restart))
  /\ WF_runningVars(\/ Runs("manager") /\ RunResult
                    \/ Runs("service") /\ C!handleEvent
                    \/ Runs("balance") /\ (\E answer \in B!Answers : B!doEscrowCheck(<<l1, 1>>, answer))
                    \/ Runs("deploy") /\ K!collectNamespace)
  /\ WF_runningVars(\/ Runs("manager") /\ RetryTeardown
                    \/ Runs("service") /\ C!reconcileLeases
                    \/ Runs("balance") /\ (B!CheckIgnored(<<l1, 1>>) \/ B!CheckFailed(<<l1, 1>>) \/ B!CheckRead(<<l1, 1>>)))
  /\ WF_runningVars(\/ Runs("manager") /\ ReclaimDeadline
                    \/ Runs("service") /\ C!manager(l1)
                    \/ Runs("balance") /\ (\E i \in DOMAIN bInflight : B!Execute(i) \/ \E o \in {"escrowClosed", "other"} : B!BroadcastFails(i, o)))
  /\ WF_runningVars(\/ Runs("manager") /\ ReclaimTimer
                    \/ Runs("service") /\ C!manager(l2)
                    \/ Runs("balance") /\ B!Results)
  /\ WF_runningVars(Runs("manager") /\ ReclaimResult)
  /\ WF_runningVars(Runs("manager") /\ ShutdownRequest)
  /\ WF_runningVars(Runs("manager") /\ Drained)
  /\ WF_runningVars(Runs("manager") /\ Operation)
  /\ WF_runningVars(Runs("manager") /\ Reclaimer)
  /\ WF_runningVars(Runs("manager") /\ MonitorDone)
  /\ SF_runningVars(\/ Runs("manager") /\ (ReclaimSync /\ reclaimer' = "broadcast")
                    \/ Runs("balance") /\ (\E answer \in B!Answers \ {"error"} : B!doEscrowCheck(<<l1, 1>>, answer)))
  /\ SF_runningVars(\/ Runs("manager") /\ (ReclaimBroadcast /\ lease' = "closed")
                    \/ Runs("balance") /\ B!CheckReportsClosed(<<l1, 1>>))

-----------------------------------------------------------------------------

\* A lease comes to its end: a closed one ends its manager, and so its cleanup,
\* if teardowns do not fail for ever; one whose reclamation reached the manager
\* is closed once its deadline has passed; and one that is closed on chain while
\* its balance is monitored is reported, however often checks and publishing
\* failed before.
LeaseEnds == ClosedLeaseEnds /\ ReclaimedLeaseCloses /\ B!ClosedIsReported

\* No lease loses its manifest, its namespace or its hostnames unless the chain
\* says that it closed, however old what the reconciliation has read is.
OnlyClosedIsRemoved == [][C!OnlyClosedIsRemoved]_serviceVars

\* Nothing of a closed lease stays in the cluster: not when it closed while the
\* provider was down, stopped in its teardown, or had a call fail; and nothing of
\* its namespace when a teardown ran beside a deploy that was cut short.
ClosedIsGone ==
  /\ <>[](part = "service" => C!ClosedIsRemoved)
  /\ <>[](part = "deploy" => K!ClosedIsGone)

\* A Deploy that reports success has brought every service to what the stored
\* manifest says, whatever failed before; and a later one that fails leaves the
\* running lease in place.
DeployedIsDeclared == K!DeployedIsDeclared /\ K!DeployedStays

\* The network policies of the lease are in place when Deploy has reported
\* success ("Create a set of NetworkPolicies to restrict the ingress traffic to a
\* Tenant's Deployment namespace", netpol.go).
DeployedIsIsolated == part = "deploy" => K!DeployedIsIsolated
=============================================================================
