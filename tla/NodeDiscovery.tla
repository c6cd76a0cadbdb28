----------------------------- MODULE NodeDiscovery -----------------------------
(***************************************************************************)
(* The discovery of one node by the inventory operator                     *)
(* (operator/inventory/node-discovery.go, restarted by nodes.go): one      *)
(* goroutine keeps the discovery pod (apiConnector), another the node's    *)
(* state (monitor).  The monitor counts what the node's pods request from  *)
(* a watch and a list of the pods, follows the node's allocatable          *)
(* resources, its labels and the configured interconnect resource, and     *)
(* publishes the node on the bus.  Its two signals hold one entry each.    *)
(***************************************************************************)
EXTENDS Integers, FiniteSets, SequencesExt

CONSTANTS Pods,                    \* the workloads' pods
          Names, Default,          \* extended resources of device plugins, the default one
          Disc,                    \* the discovery pod, which requests nothing
          MaxChanges, MaxFaults    \* bounds on changes in the cluster, on failed calls

VARIABLES pods,      \* "none", "pending" (on the node, not yet scheduled), "scheduled"
          requests,  \* the extended resource each pod requests one of
          knode,     \* the node resource: [alloc, ready, labelled]
          nodeq, cfgq, podq, watching,  \* events the monitor has yet to take; an open watch
          dpc,       \* where apiConnector is
          stopping,  \* dp.ctx is cancelled
          mon,       \* the monitor's variables
          seen,      \* what clusterNodes.run holds of the node, {} if nothing
          flipped,   \* history: the resource name changed under counted pods
          ndChanges, ndFaults

ndVars == <<pods, requests, knode, nodeq, cfgq, podq, watching, dpc, stopping, mon, seen,
            flipped, ndChanges, ndFaults>>

Unread == [alloc |-> 0, ready |-> FALSE, labelled |-> FALSE]

NewMonitor(cfg) ==
  [pc |-> "wait", cfg |-> cfg, alloc |-> 0, knode |-> Unread, name |-> cfg, known |-> {},
   used |-> 0, shared |-> 0, labels |-> FALSE, state |-> FALSE, label |-> FALSE]

Init ==
  /\ pods = [p \in Pods \cup {Disc} |-> "none"]
  /\ requests \in [Pods -> Names]
  /\ knode \in [alloc : {1}, ready : BOOLEAN, labelled : BOOLEAN]
  /\ nodeq = <<>> /\ cfgq = <<>> /\ podq = <<>> /\ watching = FALSE
  /\ dpc = "create" /\ stopping = FALSE
  /\ mon = NewMonitor(Default)
  /\ seen = {}
  /\ flipped = FALSE
  /\ ndChanges = 0 /\ ndFaults = 0

Fault == ndFaults < MaxFaults /\ ndFaults' = ndFaults + 1

Counted(ps) == Cardinality(ps \ {Disc})

Sharing(ps, n) == Cardinality({p \in ps \ {Disc} : requests[p] = n})

--------------------------------------------------------------------------------
(***************************************************************************)
(* The cluster and the configuration file.                                 *)
(***************************************************************************)

Change == ndChanges < MaxChanges /\ ndChanges' = ndChanges + 1

SetPod(p, status) ==
  /\ pods' = [pods EXCEPT ![p] = status]
  /\ podq' = IF watching THEN Append(podq, [pod |-> p, status |-> status]) ELSE podq

movePod(p) ==
  /\ Change
  /\ \E s \in {"none", "pending", "scheduled"} \ {pods[p]} :
       /\ pods[p] = "scheduled" => s = "none"
       /\ SetPod(p, s)
  /\ UNCHANGED <<requests, knode, nodeq, cfgq, watching, dpc, stopping, mon, seen, flipped, ndFaults>>

changeNode ==
  /\ Change
  /\ \/ knode' = [knode EXCEPT !.alloc = @ + 1]
     \/ knode' = [knode EXCEPT !.ready = ~@]
  /\ nodeq' = Append(nodeq, knode')
  /\ UNCHANGED <<pods, requests, cfgq, podq, watching, dpc, stopping, mon, seen, flipped, ndFaults>>

\* configWatcher: a new file is published, and retained for later subscribers.
configWatcher(n) ==
  /\ Change
  /\ cfgq' = Append(cfgq, n)
  /\ UNCHANGED <<pods, requests, knode, nodeq, podq, watching, dpc, stopping, mon, seen, flipped,
                 ndFaults>>

closeWatch ==
  /\ watching
  /\ Fault
  /\ watching' = FALSE
  /\ UNCHANGED <<pods, requests, knode, nodeq, cfgq, podq, dpc, stopping, mon, seen, flipped, ndChanges>>

--------------------------------------------------------------------------------
(***************************************************************************)
(* apiConnector.  A failed creation is tried again every second; a failed  *)
(* watch ends the discovery.  On its way out the connector deletes the pod *)
(* and signals its end.                                                    *)
(***************************************************************************)

createDiscoveryPod ==
  /\ dpc = "create" /\ ~stopping
  /\ dpc' = "starting"
  /\ SetPod(Disc, "scheduled")
  /\ UNCHANGED <<requests, knode, nodeq, cfgq, watching, stopping, mon, seen, flipped, ndChanges, ndFaults>>

\* The pod runs: the monitor is let go, and read requests are served.
discoveryPodRuns ==
  /\ dpc = "starting" /\ ~stopping
  /\ mon.pc = "wait"
  /\ dpc' = "serving"
  /\ mon' = [mon EXCEPT !.pc = "init"]
  /\ UNCHANGED <<pods, requests, knode, nodeq, cfgq, podq, watching, stopping, seen, flipped,
                 ndChanges, ndFaults>>

connectorEnds ==
  /\ \/ stopping /\ dpc # "ended" /\ UNCHANGED ndFaults
     \/ dpc = "starting" /\ ~stopping /\ Fault
  /\ dpc' = "ended"
  /\ stopping' = TRUE
  /\ IF dpc = "create" THEN UNCHANGED <<pods, podq>> ELSE SetPod(Disc, "none")
  /\ UNCHANGED <<requests, knode, nodeq, cfgq, watching, mon, seen, flipped, ndChanges>>

\* clusterNodes.connector takes the signal, waits for the two and starts anew.
restartDiscovery ==
  /\ dpc = "ended" /\ mon.pc = "ended"
  /\ dpc' = "create" /\ stopping' = FALSE
  /\ mon' = NewMonitor(IF cfgq = <<>> THEN mon.cfg ELSE Last(cfgq))
  /\ cfgq' = <<>> /\ nodeq' = <<>>
  /\ UNCHANGED <<pods, requests, knode, podq, watching, seen, flipped, ndChanges, ndFaults>>

--------------------------------------------------------------------------------
(***************************************************************************)
(* monitor.                                                                *)
(***************************************************************************)

monitorEnds ==
  /\ mon' = [NewMonitor(mon.cfg) EXCEPT !.pc = "ended"]
  /\ watching' = FALSE /\ podq' = <<>>
  /\ stopping' = TRUE
  /\ seen' = {}

updateNodeInfo(m, k, n) == [m EXCEPT !.alloc = k.alloc, !.knode = k, !.name = n]

\* The node is read and its labels taken over from an earlier discovery.
initNodeInfo ==
  /\ mon.pc = "init" /\ ~stopping
  /\ mon' = [updateNodeInfo(mon, knode, mon.cfg) EXCEPT !.labels = knode.labelled, !.pc = "watch"]
  /\ UNCHANGED <<pods, requests, knode, nodeq, cfgq, podq, watching, dpc, stopping, seen, flipped,
                 ndChanges, ndFaults>>

\* restartPodsWatcher: the watch first, which replays the pods that exist,
startPodsWatcher ==
  /\ mon.pc = "watch" /\ ~stopping
  /\ \/ /\ watching' = TRUE
        /\ podq' = SetToSeq({[pod |-> p, status |-> pods[p]] :
                               p \in {q \in DOMAIN pods : pods[q] # "none"}})
        /\ mon' = [mon EXCEPT !.pc = "list"]
        /\ UNCHANGED <<stopping, seen, ndFaults>>
     \/ Fault /\ monitorEnds
  /\ UNCHANGED <<pods, requests, knode, nodeq, cfgq, dpc, flipped, ndChanges>>

\* Mutant: the list is added to what has been counted before.
listWithoutReset ==
  /\ mon.pc = "list" /\ ~stopping
  /\ LET ps == {p \in DOMAIN pods : pods[p] = "scheduled"}
     IN  mon' = [mon EXCEPT !.pc = "loop", !.known = ps, !.used = @ + Counted(ps),
                            !.shared = @ + Sharing(ps, mon.name)]
  /\ UNCHANGED <<pods, requests, knode, nodeq, cfgq, podq, watching, dpc, stopping, seen, flipped,
                 ndChanges, ndFaults>>

\* then the list, from which the counts start again.
listPods ==
  /\ mon.pc = "list" /\ ~stopping
  /\ \/ /\ LET ps == {p \in DOMAIN pods : pods[p] = "scheduled"}
           IN  mon' = [mon EXCEPT !.pc = "loop", !.known = ps, !.used = Counted(ps),
                                  !.shared = Sharing(ps, mon.name)]
        /\ flipped' = FALSE
        /\ UNCHANGED <<podq, watching, stopping, seen, ndFaults>>
     \/ Fault /\ monitorEnds /\ UNCHANGED flipped
  /\ UNCHANGED <<pods, requests, knode, nodeq, cfgq, dpc, ndChanges>>

InLoop == mon.pc = "loop" /\ ~stopping

takeConfig ==
  /\ InLoop
  /\ cfgq # <<>>
  /\ LET n == Head(cfgq)
     IN  /\ mon' = IF n = mon.cfg
                   THEN [mon EXCEPT !.label = TRUE]
                   ELSE [updateNodeInfo(mon, mon.knode, n) EXCEPT
                           !.cfg = n, !.state = TRUE, !.label = TRUE]
         /\ flipped' = (flipped \/ n # mon.cfg)
  /\ cfgq' = Tail(cfgq)
  /\ UNCHANGED <<pods, requests, knode, nodeq, podq, watching, dpc, stopping, seen, ndChanges, ndFaults>>

\* Allocatable resources that changed are taken over and the pods recounted.
takeNode ==
  /\ InLoop
  /\ nodeq # <<>>
  /\ LET k == Head(nodeq)
     IN  mon' = IF k.alloc # mon.knode.alloc
                THEN [updateNodeInfo(mon, k, mon.cfg) EXCEPT !.pc = "watch", !.label = TRUE]
                ELSE [mon EXCEPT !.knode = k, !.label = TRUE]
  /\ nodeq' = Tail(nodeq)
  /\ UNCHANGED <<pods, requests, knode, cfgq, podq, watching, dpc, stopping, seen, flipped,
                 ndChanges, ndFaults>>

\* The kubelet writes the node's status every few minutes: with no other event
\* of the node outstanding, the monitor takes it as it is.  New storage classes
\* and GPU ids raise the same signal.
heartbeat ==
  /\ InLoop
  /\ nodeq = <<>>
  /\ ~mon.label
  /\ mon' = [mon EXCEPT !.knode = knode, !.label = TRUE]
  /\ UNCHANGED <<pods, requests, knode, nodeq, cfgq, podq, watching, dpc, stopping, seen, flipped,
                 ndChanges, ndFaults>>

addPodAllocatedResources(m, p) ==
  [m EXCEPT !.known = @ \cup {p}, !.used = @ + Counted({p}), !.shared = @ + Sharing({p}, m.name)]

subPodAllocatedResources(m, p) ==
  [m EXCEPT !.known = @ \ {p}, !.used = @ - Counted({p}), !.shared = @ - Sharing({p}, m.name)]

takePod ==
  /\ InLoop
  /\ \/ /\ podq # <<>>
        /\ LET e == Head(podq)
               m == CASE e.status = "scheduled" /\ e.pod \notin mon.known ->
                           addPodAllocatedResources(mon, e.pod)
                      [] e.status = "none" /\ e.pod \in mon.known ->
                           subPodAllocatedResources(mon, e.pod)
                      [] OTHER -> mon
           IN  mon' = [m EXCEPT !.state = TRUE]
        /\ podq' = Tail(podq)
     \/ /\ podq = <<>> /\ ~watching
        /\ mon' = [mon EXCEPT !.pc = "watch"]
        /\ UNCHANGED podq
  /\ UNCHANGED <<pods, requests, knode, nodeq, cfgq, watching, dpc, stopping, seen, flipped,
                 ndChanges, ndFaults>>

\* A node without managed labels is not part of the inventory.
publishState ==
  /\ InLoop
  /\ mon.state
  /\ mon' = [mon EXCEPT !.state = FALSE]
  /\ seen' = IF mon.labels
             THEN {[alloc |-> mon.alloc, used |-> mon.used, shared |-> mon.shared, name |-> mon.name]}
             ELSE {}
  /\ UNCHANGED <<pods, requests, knode, nodeq, cfgq, podq, watching, dpc, stopping, flipped,
                 ndChanges, ndFaults>>

\* The labels are written when they changed; a failed patch is only logged.
generateLabels ==
  /\ InLoop
  /\ mon.label
  /\ mon' = [mon EXCEPT !.label = FALSE, !.labels = mon.knode.ready,
                        !.state = @ \/ mon.labels # mon.knode.ready]
  /\ \/ /\ mon.labels # mon.knode.ready
        /\ knode' = [knode EXCEPT !.labelled = mon.knode.ready]
        /\ nodeq' = Append(nodeq, knode')
        /\ UNCHANGED ndFaults
     \/ mon.labels # mon.knode.ready /\ Fault /\ UNCHANGED <<knode, nodeq>>
     \/ mon.labels = mon.knode.ready /\ UNCHANGED <<knode, nodeq, ndFaults>>
  /\ UNCHANGED <<pods, requests, cfgq, podq, watching, dpc, stopping, seen, flipped, ndChanges>>

monitorStops ==
  /\ stopping
  /\ mon.pc # "ended"
  /\ monitorEnds
  /\ UNCHANGED <<pods, requests, knode, nodeq, cfgq, dpc, flipped, ndChanges, ndFaults>>

--------------------------------------------------------------------------------

Connector == createDiscoveryPod \/ discoveryPodRuns \/ connectorEnds \/ restartDiscovery

Starting == initNodeInfo \/ startPodsWatcher \/ listPods \/ monitorStops

Monitor == Starting \/ takeConfig \/ takeNode \/ takePod \/ publishState \/ generateLabels

Cluster == (\E p \in Pods : movePod(p)) \/ changeNode \/ (\E n \in Names : configWatcher(n)) \/ closeWatch

Next == Connector \/ Monitor \/ Cluster \/ heartbeat

\* The goroutines go on; of the monitor's select every case that stays ready is
\* taken.
Spec ==
  /\ Init /\ [][Next]_ndVars
  /\ WF_ndVars(Connector) /\ WF_ndVars(Starting)
  /\ WF_ndVars(takeConfig) /\ WF_ndVars(takeNode) /\ WF_ndVars(takePod)
  /\ WF_ndVars(publishState) /\ WF_ndVars(generateLabels) /\ WF_ndVars(heartbeat)

TypeOK ==
  /\ pods \in [Pods \cup {Disc} -> {"none", "pending", "scheduled"}]
  /\ dpc \in {"create", "starting", "serving", "ended"}
  /\ mon.pc \in {"wait", "init", "watch", "list", "loop", "ended"}
  /\ mon.known \subseteq DOMAIN pods
  /\ mon.used = Counted(mon.known)

(***************************************************************************)
(* What the inventory holds of the node, once the cluster is quiet: the    *)
(* allocatable resources it has, the number of pods scheduled on it and,   *)
(* unless the configuration renamed the interconnect resource since the    *)
(* last list (monitor does not recount then), those sharing that resource; *)
(* nothing when the node is not ready.                                     *)
(***************************************************************************)
SeenIsCurrent ==
  LET ps == {p \in DOMAIN pods : pods[p] = "scheduled"}
  IN  IF knode.ready
      THEN \E s \in seen : /\ s.alloc = knode.alloc
                           /\ s.used = Counted(ps)
                           /\ flipped \/ s.shared = Sharing(ps, s.name)
      ELSE seen = {}
================================================================================
