--------------------------- MODULE DeploymentManager ---------------------------
(***************************************************************************)
(* The deployment manager of one lease (cluster/manager.go): the select    *)
(* loop of run, the goroutine behind runch (doDeploy or doTeardown), the   *)
(* goroutine of the reclamation close, the lifecycle of the deployment     *)
(* monitors, and the drain that ends the manager.                          *)
(*                                                                         *)
(* A manifest is the number of its version: 1 is the one the manager is    *)
(* created with and every update carries the next one.  The cluster is the *)
(* version the workload, the declared hostnames and the declared IPs were  *)
(* last written for; None is nothing.  The chain is the state of the lease *)
(* and whether the block time is past the reclamation deadline.            *)
(***************************************************************************)
EXTENDS Naturals

CONSTANT MaxVersion     \* bound on the number of manifest versions

ASSUME MaxVersionAssumption == MaxVersion \in Nat \ {0}

VARIABLES
  state,          \* dm.state
  runch,          \* the operation whose result runch will deliver, "none" when nil
  step,           \* where the goroutine behind runch is
  todo,           \* activities of doTeardown that have not answered yet
  result,         \* the error the goroutine has met so far ("ok": nil)
  deployment,     \* dm.deployment
  messages,       \* dm.messages: whether the last deploy failed
  retryTeardown,  \* the retryTeardown timer is armed
  monitor,        \* the monitor dm.monitor refers to
  stale,          \* earlier monitors that are still shutting down
  reclaimch,      \* a deadline is queued in reclaimch (buffer of one)
  reclaimC,       \* the reclamation timer is armed
  reclaimer,      \* the goroutine of startReclaimAttempt; "idle" is ~reclaiming
  phase,          \* run: in the loop, draining after it, done
  shutdown,       \* the cluster service is shutting down
  unreserved,     \* the service has given the lease's reservation back
  lease,          \* state of the lease on chain
  due,            \* block time is past the reclamation deadline
  reclaimEvent,   \* EventLeaseReclaimStarted is on its way
  reservedFor,    \* version whose hostnames are reserved
  cluster,        \* version of what the cluster holds for the lease
  updated         \* version of the last ClusterDeploymentUpdated event

loopVars    == <<state, deployment, messages, retryTeardown>>
opVars      == <<runch, step, todo, result>>
monitorVars == <<monitor, stale>>
reclaimVars == <<reclaimch, reclaimC, reclaimer>>
endVars     == <<phase, shutdown, unreserved>>
chainVars   == <<lease, due, reclaimEvent>>
clusterVars == <<reservedFor, cluster, updated>>

vars == <<loopVars, opVars, monitorVars, reclaimVars, endVars, chainVars, clusterVars>>

None == 0

Versions == 1..MaxVersion

DeployStates   == {"deploy-active", "deploy-pending", "deploy-complete"}
TeardownStates == {"teardown-active", "teardown-pending", "teardown-complete"}

\* What a lease holds in the cluster.  doTeardown runs one activity for each.
Holdings == {"workload", "hostnames", "ips"}

TypeOK ==
  /\ state \in DeployStates \cup TeardownStates
  /\ runch \in {"none", "deploy", "teardown"}
  /\ step \in {"check", "reserve", "deploy", "declare", "teardown", "done"}
  /\ todo \in SUBSET Holdings
  /\ result \in {"ok", "err", "inactive"}
  /\ deployment \in Versions
  /\ messages \in {"none", "err"}
  /\ retryTeardown \in BOOLEAN
  /\ monitor \in {"none", "running", "stopping", "done"}
  /\ stale \in Nat
  /\ reclaimch \in BOOLEAN
  /\ reclaimC \in BOOLEAN
  /\ reclaimer \in {"idle", "sync", "broadcast", "closed", "wait"}
  /\ phase \in {"loop", "drain", "done"}
  /\ shutdown \in BOOLEAN
  /\ unreserved \in BOOLEAN
  /\ lease \in {"active", "reclaiming", "closed"}
  /\ due \in BOOLEAN
  /\ reclaimEvent \in BOOLEAN
  /\ reservedFor \in Versions \cup {None}
  /\ cluster \in [Holdings -> Versions \cup {None}]
  /\ updated \in Versions \cup {None}

tearingDown == state \in TeardownStates

-----------------------------------------------------------------------------
(***************************************************************************)
(* Pieces of the handlers.                                                 *)
(***************************************************************************)

stopMonitor == monitor' = IF monitor = "running" THEN "stopping" ELSE monitor

\* A monitor that is still shutting down when dm.monitor is overwritten lives on.
startMonitor ==
  /\ monitor' = "running"
  /\ stale' = IF monitor \in {"running", "stopping"} THEN stale + 1 ELSE stale

startDeploy ==
  /\ stopMonitor
  /\ state' = "deploy-active"
  /\ runch' = "deploy"
  /\ step' = "check"
  /\ result' = "ok"
  /\ UNCHANGED todo

startTeardown ==
  /\ stopMonitor
  /\ state' = "teardown-active"
  /\ runch' = "teardown"
  /\ step' = "teardown"
  /\ todo' = Holdings
  /\ result' = "ok"

\* The result of startReclaimAttempt: at most one attempt, none when tearing down.
startReclaimAttempt ==
  reclaimer' = IF reclaimer = "idle" /\ ~tearingDown THEN "sync" ELSE reclaimer

-----------------------------------------------------------------------------
(***************************************************************************)
(* The manager starts deploying at once: for a new lease, or after a       *)
(* restart for a workload that is still in the cluster, when the event     *)
(* that started a reclamation may have been missed.                        *)
(***************************************************************************)
Init ==
  /\ state = "deploy-active"
  /\ runch = "deploy" /\ step = "check" /\ todo = {} /\ result = "ok"
  /\ deployment = 1
  /\ messages = "none"
  /\ retryTeardown = FALSE
  /\ monitor = "none" /\ stale = 0
  /\ reclaimch = FALSE /\ reclaimC = FALSE /\ reclaimer = "idle"
  /\ phase = "loop" /\ shutdown = FALSE /\ unreserved = FALSE
  /\ lease \in {"active", "reclaiming", "closed"}
  /\ due = FALSE /\ reclaimEvent = FALSE
  /\ reservedFor \in {None, 1}
  /\ cluster = [h \in Holdings |-> reservedFor]
  /\ updated = None

-----------------------------------------------------------------------------
(***************************************************************************)
(* Cases of the select loop.                                               *)
(***************************************************************************)

\* Mutant: an update that arrives during a deploy is not remembered.
handleUpdateForgets ==
  \/ /\ state = "deploy-complete"
     /\ startDeploy
     /\ UNCHANGED stale
  \/ /\ state # "deploy-complete"
     /\ UNCHANGED <<state, opVars, monitorVars>>

\* Mutant: an update is queued whenever an operation runs, a teardown included.
handleUpdateRevives ==
  \/ /\ state = "deploy-complete"
     /\ startDeploy
     /\ UNCHANGED stale
  \/ /\ state # "deploy-complete"
     /\ state' = "deploy-pending"
     /\ UNCHANGED <<opVars, monitorVars>>

handleUpdate ==
  \/ /\ state = "deploy-active"
     /\ state' = "deploy-pending"
     /\ UNCHANGED <<opVars, monitorVars>>
  \/ /\ state = "deploy-complete"
     /\ startDeploy
     /\ UNCHANGED stale
  \/ /\ state \notin {"deploy-active", "deploy-complete"}
     /\ UNCHANGED <<state, opVars, monitorVars>>

Update ==
  /\ phase = "loop"
  /\ deployment < MaxVersion
  /\ deployment' = deployment + 1
  /\ handleUpdate
  /\ UNCHANGED <<messages, retryTeardown, reclaimVars, endVars, chainVars, clusterVars>>

\* The service forwards EventLeaseClosed, and the closure its reconciliation found.
Teardown ==
  /\ phase = "loop"
  /\ lease = "closed"
  /\ \/ /\ state \in {"deploy-active", "deploy-pending"}
        /\ state' = "teardown-pending"
        /\ stopMonitor
        /\ UNCHANGED opVars
     \/ /\ state = "deploy-complete"
        /\ startTeardown
     \/ /\ tearingDown
        /\ stopMonitor
        /\ UNCHANGED <<state, opVars>>
  /\ UNCHANGED <<deployment, messages, retryTeardown, stale, reclaimVars, endVars,
                 chainVars, clusterVars>>

\* What the loop does with the result of an operation, by dm.state.  Whether or
\* not the deploy failed, it is complete and monitored.
deployComplete ==
  /\ state = "deploy-active"
  /\ state' = "deploy-complete"
  /\ runch' = "none"
  /\ startMonitor
  /\ messages' = IF result = "ok" THEN "none" ELSE "err"
  /\ UNCHANGED <<step, todo, result, retryTeardown, phase>>

deployAgain ==
  /\ state = "deploy-pending"
  /\ startDeploy
  /\ UNCHANGED <<messages, retryTeardown, stale, phase>>

beginTeardown ==
  /\ startTeardown
  /\ UNCHANGED <<messages, retryTeardown, stale, phase>>

\* Mutant: the retry of a failed teardown is not scheduled.
teardownFailedForGood ==
  /\ state = "teardown-active" /\ result = "err"
  /\ runch' = "none"
  /\ UNCHANGED <<state, step, todo, result, messages, retryTeardown, monitorVars, phase>>

teardownFailed ==
  /\ state = "teardown-active" /\ result = "err"
  /\ runch' = "none"
  /\ retryTeardown' = TRUE
  /\ UNCHANGED <<state, step, todo, result, messages, monitorVars, phase>>

\* Leaves the loop.
teardownComplete ==
  /\ state = "teardown-active" /\ result = "ok"
  /\ state' = "teardown-complete"
  /\ runch' = "none"
  /\ phase' = "drain"
  /\ stopMonitor
  /\ UNCHANGED <<step, todo, result, messages, retryTeardown, stale>>

\* A result is read from runch; ErrLeaseInactive starts a teardown in any state.
RunResult ==
  /\ phase = "loop"
  /\ runch # "none" /\ step = "done"
  /\ \/ result = "inactive" /\ beginTeardown
     \/ result # "inactive" /\ deployComplete
     \/ result # "inactive" /\ deployAgain
     \/ result # "inactive" /\ state = "teardown-pending" /\ beginTeardown
     \/ teardownFailed
     \/ teardownComplete
  /\ UNCHANGED <<deployment, shutdown, unreserved, reclaimVars, chainVars, clusterVars>>

RetryTeardown ==
  /\ phase = "loop"
  /\ retryTeardown
  /\ retryTeardown' = FALSE
  /\ startTeardown
  /\ UNCHANGED <<deployment, messages, stale, reclaimVars, endVars, chainVars, clusterVars>>

ReclaimDeadline ==
  /\ phase = "loop"
  /\ reclaimch
  /\ reclaimch' = FALSE
  /\ startReclaimAttempt
  /\ UNCHANGED <<loopVars, opVars, monitorVars, reclaimC, endVars, chainVars, clusterVars>>

ReclaimTimer ==
  /\ phase = "loop"
  /\ reclaimC
  /\ reclaimC' = FALSE
  /\ startReclaimAttempt
  /\ UNCHANGED <<loopVars, opVars, monitorVars, reclaimch, endVars, chainVars, clusterVars>>

ReclaimResult ==
  /\ phase = "loop"
  /\ reclaimer \in {"closed", "wait"}
  /\ reclaimer' = "idle"
  /\ reclaimC' = IF tearingDown THEN reclaimC ELSE reclaimer = "wait"
  /\ UNCHANGED <<loopVars, opVars, monitorVars, reclaimch, endVars, chainVars, clusterVars>>

\* Leaving the loop: lc.ShutdownInitiated also asks the current monitor to stop.
ShutdownRequest ==
  /\ phase = "loop"
  /\ shutdown
  /\ phase' = "drain"
  /\ stopMonitor
  /\ UNCHANGED <<loopVars, opVars, stale, reclaimVars, shutdown, unreserved, chainVars,
                 clusterVars>>

\* After the loop: wait for runch, then for every goroutine counted in dm.wg.
Drained ==
  /\ phase = "drain"
  /\ runch = "none" \/ step = "done"
  /\ monitor \in {"none", "done"} /\ stale = 0
  /\ reclaimer \in {"idle", "closed", "wait"}
  /\ phase' = "done"
  /\ runch' = "none"
  /\ reservedFor' = None
  /\ UNCHANGED <<loopVars, step, todo, result, monitorVars, reclaimVars, shutdown,
                 unreserved, chainVars, cluster, updated>>

-----------------------------------------------------------------------------
(***************************************************************************)
(* The goroutine of startDeploy.  Every stage reads dm.deployment anew.    *)
(***************************************************************************)

Finish(r) ==
  /\ step' = "done"
  /\ result' = r
  /\ UNCHANGED <<runch, todo>>

Proceed(to) ==
  /\ step' = to
  /\ UNCHANGED <<runch, todo, result>>

\* The send of dm.reclaim: dropped when the buffer is full or the manager is stopping.
QueueDeadline == reclaimch' = (reclaimch \/ phase = "loop")

checkLeaseActive ==
  /\ runch = "deploy" /\ step = "check"
  /\ \/ /\ Finish("err")
        /\ UNCHANGED reclaimch
     \/ /\ lease = "active"
        /\ Proceed("reserve")
        /\ UNCHANGED reclaimch
     \/ /\ lease = "reclaiming"
        /\ Proceed("reserve")
        /\ QueueDeadline
     \/ /\ lease = "closed"
        /\ Finish("inactive")
        /\ UNCHANGED reclaimch
  /\ UNCHANGED <<loopVars, monitorVars, reclaimC, reclaimer, endVars, chainVars, clusterVars>>

\* GetDeclaredIPs and ReserveHostnames.
reserveHostnames ==
  /\ runch = "deploy" /\ step = "reserve"
  /\ \/ /\ reservedFor' = deployment
        /\ Proceed("deploy")
     \/ /\ reservedFor' \in {reservedFor, deployment}
        /\ Finish("err")
  /\ UNCHANGED <<loopVars, monitorVars, reclaimVars, endVars, chainVars, cluster, updated>>

\* A Deploy that fails may have applied some of the objects already.
deployWorkload ==
  /\ runch = "deploy" /\ step = "deploy"
  /\ \/ /\ cluster' = [cluster EXCEPT !["workload"] = deployment]
        /\ Proceed("declare")
     \/ /\ \/ cluster' = [cluster EXCEPT !["workload"] = deployment]
           \/ UNCHANGED cluster
        /\ Finish("err")
  /\ UNCHANGED <<loopVars, monitorVars, reclaimVars, endVars, chainVars, reservedFor, updated>>

\* One pass over the manifest finds what is exposed; then DeclareHostname and
\* DeclareIP, the deferred purge of what is no longer used, and, when all went
\* well, the ClusterDeploymentUpdated event.
declareExposed ==
  /\ runch = "deploy" /\ step = "declare"
  /\ \/ /\ cluster' = [cluster EXCEPT !["hostnames"] = deployment, !["ips"] = deployment]
        /\ updated' = deployment
        /\ Finish("ok")
     \/ /\ \E hs \in SUBSET {"hostnames", "ips"} :
             cluster' = [h \in Holdings |-> IF h \in hs THEN deployment ELSE cluster[h]]
        /\ Finish("err")
        /\ UNCHANGED updated
  /\ UNCHANGED <<loopVars, monitorVars, reclaimVars, endVars, chainVars, reservedFor>>

-----------------------------------------------------------------------------
(***************************************************************************)
(* The goroutine of startTeardown: each activity retries on its own and    *)
(* answers once; the first error is the result.                            *)
(***************************************************************************)

\* Mutant: the last answer, not the first error, is the result.
AnswerTeardownLastWins(h, r) ==
  /\ runch = "teardown" /\ step = "teardown"
  /\ h \in todo
  /\ todo' = todo \ {h}
  /\ step' = IF todo' = {} THEN "done" ELSE step
  /\ result' = r
  /\ UNCHANGED <<loopVars, runch, monitorVars, reclaimVars, endVars, chainVars, reservedFor,
                 updated>>

AnswerTeardown(h, r) ==
  /\ runch = "teardown" /\ step = "teardown"
  /\ h \in todo
  /\ todo' = todo \ {h}
  /\ step' = IF todo' = {} THEN "done" ELSE step
  /\ result' = IF result = "ok" THEN r ELSE result
  /\ UNCHANGED <<loopVars, runch, monitorVars, reclaimVars, endVars, chainVars, reservedFor,
                 updated>>

TeardownSucceeds(h) ==
  /\ AnswerTeardown(h, "ok")
  /\ cluster' = [cluster EXCEPT ![h] = None]

TeardownFails(h) ==
  /\ AnswerTeardown(h, "err")
  /\ UNCHANGED cluster

-----------------------------------------------------------------------------
(***************************************************************************)
(* The goroutine of attemptReclaimClose.                                   *)
(***************************************************************************)

ReclaimSync ==
  /\ reclaimer = "sync"
  /\ \/ reclaimer' = "wait"
     \/ due /\ reclaimer' = "broadcast"
  /\ UNCHANGED <<loopVars, opVars, monitorVars, reclaimch, reclaimC, endVars, chainVars,
                 clusterVars>>

ReclaimBroadcast ==
  /\ reclaimer = "broadcast"
  /\ \/ /\ lease # "closed"
        /\ reclaimer' = "closed"
        /\ lease' = "closed"
     \/ /\ reclaimer' = "wait"
        /\ UNCHANGED lease
  /\ UNCHANGED <<loopVars, opVars, monitorVars, reclaimch, reclaimC, endVars, due,
                 reclaimEvent, clusterVars>>

-----------------------------------------------------------------------------
(***************************************************************************)
(* Monitors, the cluster service and the chain.                            *)
(***************************************************************************)

MonitorDone ==
  /\ \/ /\ monitor = "stopping"
        /\ monitor' = "done"
        /\ UNCHANGED stale
     \/ /\ stale > 0
        /\ stale' = stale - 1
        /\ UNCHANGED monitor
  /\ UNCHANGED <<loopVars, opVars, reclaimVars, endVars, chainVars, clusterVars>>

\* EventLeaseReclaimStarted reaches the manager through the service's loop.
ReclaimStarted ==
  /\ reclaimEvent
  /\ reclaimEvent' = FALSE
  /\ QueueDeadline
  /\ UNCHANGED <<loopVars, opVars, monitorVars, reclaimC, reclaimer, endVars, lease, due,
                 clusterVars>>

\* The service's loop reads managerch; once it shuts down it only counts managers.
ManagerDone ==
  /\ phase = "done"
  /\ ~shutdown /\ ~unreserved
  /\ unreserved' = TRUE
  /\ UNCHANGED <<loopVars, opVars, monitorVars, reclaimVars, phase, shutdown, chainVars,
                 clusterVars>>

ServiceShutdown ==
  /\ ~shutdown
  /\ shutdown' = TRUE
  /\ UNCHANGED <<loopVars, opVars, monitorVars, reclaimVars, phase, unreserved, chainVars,
                 clusterVars>>

StartReclamation ==
  /\ lease = "active"
  /\ lease' = "reclaiming"
  /\ reclaimEvent' = TRUE
  /\ UNCHANGED <<loopVars, opVars, monitorVars, reclaimVars, endVars, due, clusterVars>>

\* The tenant, the escrow account or a monitor closes the lease.
CloseLease ==
  /\ lease # "closed"
  /\ lease' = "closed"
  /\ UNCHANGED <<loopVars, opVars, monitorVars, reclaimVars, endVars, due, reclaimEvent,
                 clusterVars>>

DeadlinePasses ==
  /\ lease = "reclaiming"
  /\ ~due
  /\ due' = TRUE
  /\ UNCHANGED <<loopVars, opVars, monitorVars, reclaimVars, endVars, lease, reclaimEvent,
                 clusterVars>>

-----------------------------------------------------------------------------
Loop ==
  Update \/ Teardown \/ RunResult \/ RetryTeardown \/ ReclaimDeadline \/ ReclaimTimer
    \/ ReclaimResult \/ ShutdownRequest \/ Drained

Operation ==
  \/ checkLeaseActive \/ reserveHostnames \/ deployWorkload \/ declareExposed
  \/ \E h \in Holdings : TeardownSucceeds(h) \/ TeardownFails(h)

Reclaimer == ReclaimSync \/ ReclaimBroadcast

Environment ==
  MonitorDone \/ ReclaimStarted \/ ManagerDone \/ ServiceShutdown \/ StartReclamation
    \/ CloseLease \/ DeadlinePasses

Next == Loop \/ Operation \/ Reclaimer \/ Environment

Spec == Init /\ [][Next]_vars

(***************************************************************************)
(* Go's select picks any ready case, so a case that stays ready is served; *)
(* goroutines that are running finish their calls, all of which are        *)
(* bounded by timeouts or attempts.  The service forwards the closure of   *)
(* the lease, and a node that is asked over and over is synced and accepts *)
(* a close now and then.  Nothing is assumed of tenants, of the service's  *)
(* shutdown or of updates.                                                 *)
(***************************************************************************)
Fairness ==
  /\ WF_vars(Teardown) /\ WF_vars(RunResult) /\ WF_vars(RetryTeardown)
  /\ WF_vars(ReclaimDeadline) /\ WF_vars(ReclaimTimer) /\ WF_vars(ReclaimResult)
  /\ WF_vars(ShutdownRequest) /\ WF_vars(Drained)
  /\ WF_vars(Operation) /\ WF_vars(Reclaimer) /\ WF_vars(MonitorDone)
  /\ SF_vars(ReclaimSync /\ reclaimer' = "broadcast")
  /\ SF_vars(ReclaimBroadcast /\ lease' = "closed")

FairSpec == Spec /\ Fairness

-----------------------------------------------------------------------------
(***************************************************************************)
(* Properties.                                                             *)
(***************************************************************************)

\* The result of an operation is only ever read in a state that waits for one:
\* the two panics of run ("INVALID STATE: runch read on ...") are unreachable,
\* whatever updates, teardowns, retries and late results interleave.
RunchMatchesState ==
  /\ runch = "deploy" => state \in {"deploy-active", "deploy-pending", "teardown-pending"}
  /\ runch = "teardown" => state = "teardown-active"
  /\ phase = "loop" /\ runch = "none" =>
       state = "deploy-complete" \/ (state = "teardown-active" /\ retryTeardown)

\* No update is lost.  When the manager rests after a deploy that succeeded,
\* the hostname reservation, everything in the cluster and the event that was
\* published are those of the latest manifest, although doDeploy reads
\* dm.deployment at several moments while updates replace it.
UpdateNotLost ==
  phase = "loop" /\ state = "deploy-complete" /\ messages = "none" =>
    /\ reservedFor = deployment
    /\ updated = deployment
    /\ \A h \in Holdings : cluster[h] = deployment

\* The lease's capacity is given back only once nothing of the lease is left in
\* the cluster: "Keep the manager and its reservation until cleanup succeeds."
ReservedUntilClean == unreserved => \A h \in Holdings : cluster[h] = None

\* A monitor that has not been told to stop watches a deployment that is
\* complete: none keeps running unnoticed behind a deploy, a teardown or the
\* end of the manager, where it could close the lease for being unhealthy.
MonitorOnlyWhenComplete ==
  monitor = "running" => phase = "loop" /\ state = "deploy-complete"

\* Teardown is final: "The teardown states are terminal, so this never flips
\* back", and a torn down lease is never deployed again.
TeardownIsFinal ==
  [][tearingDown => tearingDown' /\ \A h \in Holdings : cluster'[h] # None =>
       cluster[h] # None \/ runch = "deploy"]_vars

\* A closed lease ends its manager, and so its cleanup, provided the cluster
\* does not fail for ever ("a later attempt can recover").
ClosedLeaseEnds ==
  <>[][\A h \in Holdings : ~TeardownFails(h)]_vars =>
    []<>(lease = "closed" => phase = "done")

\* The deadline of a reclamation has passed and the manager has it queued, its
\* timer armed or an attempt in flight, or tears the lease down.
Closing ==
  /\ lease = "reclaiming" /\ due /\ phase = "loop"
  /\ reclaimch \/ reclaimC \/ reclaimer # "idle" \/ tearingDown

\* A lease whose reclamation reached the manager is closed once its deadline has
\* passed: no interleaving of the queued deadline, the timer and the attempt in
\* flight loses the close, and it is not put off for ever.
ReclaimedLeaseCloses ==
  /\ [][Closing => Closing' \/ lease' = "closed" \/ phase' # "loop"]_vars
  /\ []<>(~Closing)
================================================================================
