---------------------------- MODULE OperatorsMC -----------------------------
(***************************************************************************)
(* What watches the cluster: the monitor of a deployment, and the          *)
(* operators beside the provider with what it reads of them: the hostname  *)
(* operator, its gateway API routes, the IP operator and the usage it      *)
(* serves, and the two halves of the inventory operator, nodes and         *)
(* storage. They meet only in Kubernetes, so one of them runs in a         *)
(* behaviour, against everything that the others and the provider may do   *)
(* to its resources.                                                       *)
(***************************************************************************)
EXTENDS DeploymentMonitor, Sequences, FiniteSets

CONSTANTS l1, l2, None, Bare, Missing, h1, h2, t1, o1, o2, s1, s2, p1, disc,
  Parts   \* the components that may run: "monitor", "hostname", "route", "address", "usage", "node", "storage"

VARIABLES
  mode, declared, manifest, namespace, closing, route, hoState, hostnames, failures,
  events, skipped, changes, faults,
  httpRoute, filter, nsExists, stamps, uids, grState, call, calls, status,
  leased, namespaces, balancers, ipState, managed, ipFailures, ipEvents, ipSkipped,
  mixed, ipChanges, ipFaults,
  booked, balancer, poolSize, ipq, poolq, iop, prepared, barrier, check, known,
  iuChanges, iuFaults,
  pods, requests, knode, nodeq, cfgq, podq, watching, dpc, stopping, mon, seen,
  flipped, ndChanges, ndFaults,
  classOf, classes, volumes, cluster, cephq, localq, localClassq, ceph, local, scrape,
  config, storage, reported, unfiltered, dropped, stChanges,
  part   \* the component that runs



H == INSTANCE HostnameOperator WITH
  Hosts <- {h1, h2}, Leases <- {l1, l2}, Targets <- {t1}, None <- None, Bare <- Bare,
  FailureLimit <- 2, EntryLimit <- 0, MaxChanges <- 5, MaxFaults <- 1
G == INSTANCE GatewayRoute WITH
  Options <- {o1, o2}, NoOptions <- None, Missing <- Missing, MaxCalls <- 3,
  MaxStatus <- 4
A == INSTANCE IPOperator WITH
  Keys <- {<<"a", 80>>}, Leases <- {l1, l2}, Services <- {s1, s2}, None <- None,
  FailureLimit <- 1, MaxChanges <- 3, MaxFaults <- 2
U == INSTANCE IPUsage WITH
  Leases <- {l1, l2}, Pools <- {1, 2}, MaxIuChanges <- 2, MaxIuFaults <- 1
N == INSTANCE NodeDiscovery WITH
  Pods <- {p1}, Names <- {"hca", "rdma"}, Default <- "hca", Disc <- disc,
  MaxChanges <- 2, MaxFaults <- 1
S == INSTANCE StorageInventory WITH
  CephClasses <- {"ceph"}, LocalClasses <- {"local"}, Volumes <- {"v"}, NoClass <- "",
  MaxStorageChanges <- 3

hostnameVars == <<mode, declared, manifest, namespace, closing, route, hoState,
                  hostnames, failures, events, skipped, changes, faults>>
routeVars == <<httpRoute, filter, nsExists, stamps, uids, grState, call, calls, status>>
addressVars == <<leased, namespaces, balancers, ipState, managed, ipFailures, ipEvents,
                 ipSkipped, mixed, ipChanges, ipFaults>>
usageVars == <<booked, balancer, poolSize, ipq, poolq, iop, prepared, barrier, check,
               known, iuChanges, iuFaults>>
nodeVars == <<pods, requests, knode, nodeq, cfgq, podq, watching, dpc, stopping, mon,
              seen, flipped, ndChanges, ndFaults>>
storageVars == <<classOf, classes, volumes, cluster, cephq, localq, localClassq, ceph,
                 local, scrape, config, storage, reported, unfiltered, dropped,
                 stChanges>>

allVars == <<vars, hostnameVars, routeVars, addressVars, usageVars, nodeVars,
             storageVars, part>>

\* The components that do not run stay in one of their initial states.
MCInit ==
  /\ part \in Parts
  /\ Init /\ (part # "monitor" => healthy)
  /\ H!Init /\ (part # "hostname" => mode = "ingress")
  /\ G!Init /\ (part # "route" => stamps)
  /\ A!Init
  /\ U!Init /\ (part # "usage" => poolSize = 1)
  /\ N!Init /\ (part # "node" => knode = [alloc |-> 1, ready |-> TRUE, labelled |-> TRUE] /\ requests = [p \in {p1} |-> "hca"])
  /\ S!Init /\ (part # "storage" => classOf = [v \in {"v"} |-> "ceph"])

Monitor ==
  /\ part = "monitor" /\ Next
  /\ UNCHANGED <<hostnameVars, routeVars, addressVars, usageVars, nodeVars, storageVars,
                 part>>
Hostname ==
  /\ part = "hostname" /\ H!Next
  /\ UNCHANGED <<vars, routeVars, addressVars, usageVars, nodeVars, storageVars, part>>
Route ==
  /\ part = "route" /\ G!Next
  /\ UNCHANGED <<vars, hostnameVars, addressVars, usageVars, nodeVars, storageVars, part>>
Address ==
  /\ part = "address" /\ A!Next
  /\ UNCHANGED <<vars, hostnameVars, routeVars, usageVars, nodeVars, storageVars, part>>
Usage ==
  /\ part = "usage" /\ U!Next
  /\ UNCHANGED <<vars, hostnameVars, routeVars, addressVars, nodeVars, storageVars, part>>
Node ==
  /\ part = "node" /\ N!Next
  /\ UNCHANGED <<vars, hostnameVars, routeVars, addressVars, usageVars, storageVars, part>>
Storage ==
  /\ part = "storage" /\ S!Next
  /\ UNCHANGED <<vars, hostnameVars, routeVars, addressVars, usageVars, nodeVars, part>>

MCNext == Monitor \/ Hostname \/ Route \/ Address \/ Usage \/ Node \/ Storage

MCSpec == MCInit /\ [][MCNext]_allVars

\* The state of the component that runs.
runningVars == CASE part = "monitor" -> vars
                 [] part = "hostname" -> hostnameVars
                 [] part = "route" -> routeVars
                 [] part = "address" -> addressVars
                 [] part = "usage" -> usageVars
                 [] part = "node" -> nodeVars
                 [] part = "storage" -> storageVars

Runs(p) == part = p /\ UNCHANGED part

\* The fairness each component states for itself. As only one of them runs, one
\* conjunct serves a fair step of each.
MCFairSpec ==
  /\ MCSpec
  /\ WF_runningVars(\/ Runs("monitor") /\ runCheck
                    \/ Runs("hostname") /\ H!Operator
                    \/ Runs("address") /\ A!Operator
                    \/ Runs("usage") /\ U!runCheck
                    \/ Runs("node") /\ N!Connector
                    \/ Runs("storage") /\ S!Ceph)
  /\ WF_runningVars(\/ Runs("monitor") /\ doCheck
                    \/ Runs("usage") /\ U!Check
                    \/ Runs("node") /\ N!Starting
                    \/ Runs("storage") /\ S!Local)
  /\ WF_runningVars(\/ Runs("monitor") /\ (ResultUp \/ ResultDown)
                    \/ Runs("usage") /\ U!Restart
                    \/ Runs("node") /\ N!takeConfig)
  /\ WF_runningVars(\/ Runs("monitor") /\ closeReturns
                    \/ Runs("usage") /\ U!applyEvent
                    \/ Runs("node") /\ N!takeNode)
  /\ WF_runningVars(\/ Runs("monitor") /\ closeRead
                    \/ Runs("usage") /\ U!poolChanged
                    \/ Runs("node") /\ N!takePod)
  /\ WF_runningVars(\/ Runs("monitor") /\ Drained
                    \/ Runs("usage") /\ U!updateTick
                    \/ Runs("node") /\ N!publishState)
  /\ WF_runningVars(\/ Runs("usage") /\ U!assignAddress(l1)
                    \/ Runs("node") /\ N!generateLabels)
  /\ WF_runningVars(\/ Runs("usage") /\ U!assignAddress(l2)
                    \/ Runs("node") /\ N!heartbeat)

-----------------------------------------------------------------------------

\* A hostname is never served for two leases, through restarts, failed calls and
\* transfers (directives connectHostnameToDeployment and removeHostname of the
\* hostname operator), but for hostnames whose events were skipped by the
\* ignore list.
OneRoute == H!OneRoute

\* No HTTPRoute refers to an SnippetsFilter that the gateway has not accepted,
\* that is not there or that the garbage collector will take away
\* (CreateOrUpdateHTTPRoute and waitForExtensionAccepted).
RoutedIsFiltered == G!RoutedIsFiltered

\* What the provider declares, the operators bring about once it is quiet: a
\* declared hostname ends up routed to its lease, and a declared leased IP has
\* its load balancer, whatever failed, restarted or was retried on the way.
DeclaredIsServed ==
  /\ <>[](part = "hostname" => H!DeclaredIsRouted)
  /\ <>[](part = "address" => A!DeclaredIsPassed)

\* What the operators report catches up with the cluster: of a node its
\* resources, pods and interconnects, of a storage class the allocation of its
\* volumes, and of the leased addresses the counts that MetalLB has and the leases
\* whose addresses are assigned; through closed watches, failed calls, restarts of
\* discovery and changes of the configuration.
ReportsCatchUp ==
  /\ <>[](part = "node" => N!SeenIsCurrent)
  /\ <>[](part = "storage" => S!ReportedIsAllocated)
  /\ <>[](part = "usage" => U!KnownIsActual)
=============================================================================
