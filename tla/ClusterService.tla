--------------------------- MODULE ClusterService ---------------------------
(***************************************************************************)
(* The cluster service: its event loop, which starts and ends deployment   *)
(* managers, and the reconciliation that compares, after a start, the      *)
(* leases found in the cluster with the chain and removes the closed ones. *)
(* The two run concurrently with the managers and with the chain, and the  *)
(* provider may stop at any time.  Deployment managers are reduced to what *)
(* they do to the cluster.  All leases are of one deployment group.        *)
(***************************************************************************)
EXTENDS Naturals, FiniteSets, Sequences

CONSTANTS Leases, MaxCsFaults

VARIABLES chain,     \* "none", "active", "closed"; "unknown" to this chain
          manis,     \* leases with a Manifest resource
          spaces,    \* leases with a namespace
          declared,  \* leases with declared hostnames or addresses
          reserved,  \* leases whose hostnames the hostname service holds
          service,   \* "down", "up"
          managers,  \* what the manager of a lease does
          managed,   \* the leases whose managers started with the service
          busEvents, \* the events the service has not handled
          pass,      \* where the reconciliation is
          own, active, grouped, errs,
          sent, csFaults

csVars == <<chain, manis, spaces, declared, reserved, service, managers, managed,
            busEvents, pass, own, active, grouped, errs, sent, csFaults>>

reconciling == <<pass, own, active, grouped, errs>>
cluster == <<manis, spaces, declared>>

Init ==
  /\ chain \in [Leases -> {"none", "unknown"}]
  /\ manis = {l \in Leases : chain[l] = "unknown"}
  /\ spaces = manis /\ declared = manis /\ reserved = {}
  /\ service = "down"
  /\ managers = [l \in Leases |-> "none"] /\ managed = {}
  /\ busEvents = <<>>
  /\ pass = "off" /\ own = {} /\ active = {} /\ grouped = 0 /\ errs = FALSE
  /\ sent = {} /\ csFaults = 0

Fault == csFaults < MaxCsFaults /\ csFaults' = csFaults + 1

-----------------------------------------------------------------------------
(* The chain and the manifest service.                                     *)

winLease(l) ==
  /\ chain[l] = "none"
  /\ chain' = [chain EXCEPT ![l] = "active"]
  /\ UNCHANGED <<cluster, reserved, service, managers, managed, busEvents,
                 reconciling, sent, csFaults>>

closeLease(l) ==
  /\ chain[l] = "active"
  /\ chain' = [chain EXCEPT ![l] = "closed"]
  /\ busEvents' = IF service = "up" THEN Append(busEvents, <<"closed", l>>)
                                    ELSE busEvents
  /\ UNCHANGED <<cluster, reserved, service, managers, managed, reconciling,
                 sent, csFaults>>

receiveManifest(l) ==
  /\ service = "up" /\ chain[l] = "active" /\ l \notin sent
  /\ sent' = sent \cup {l}
  /\ busEvents' = Append(busEvents, <<"manifest", l>>)
  /\ UNCHANGED <<chain, cluster, reserved, service, managers, managed,
                 reconciling, csFaults>>

-----------------------------------------------------------------------------
(* The service: start, its loop, its end.                                  *)

\* Every Manifest found gets a manager, every declared hostname is reserved.
startDeploymentManagers ==
  /\ service = "down"
  /\ service' = "up"
  /\ managers' = [l \in Leases |-> IF l \in manis THEN "deploy" ELSE "none"]
  /\ managed' = manis
  /\ reserved' = declared
  /\ pass' = "ids"
  /\ UNCHANGED <<chain, cluster, busEvents, own, active, grouped, errs, sent,
                 csFaults>>

\* An update of a running manager deploys again.
manifestReceived(l) ==
  managers' = [managers EXCEPT ![l] = IF @ \in {"none", "run"} THEN "deploy" ELSE @]

teardownLease(l) ==
  managers' = [managers EXCEPT ![l] =
                 CASE @ \in {"deploy", "apply"} -> "pending"
                   [] @ = "run" -> "teardown"
                   [] OTHER -> @]

handleEvent ==
  /\ service = "up" /\ busEvents # <<>>
  /\ busEvents' = Tail(busEvents)
  /\ LET kind == Head(busEvents)[1]
         l == Head(busEvents)[2]
     IN IF kind = "manifest" THEN manifestReceived(l) ELSE teardownLease(l)
  /\ UNCHANGED <<chain, cluster, reserved, service, managed, reconciling, sent,
                 csFaults>>

managerDone(l) ==
  /\ managers[l] = "done"
  /\ managers' = [managers EXCEPT ![l] = "none"]
  /\ UNCHANGED <<chain, cluster, reserved, service, managed, busEvents,
                 reconciling, sent, csFaults>>

crash ==
  /\ service = "up" /\ Fault
  /\ service' = "down"
  /\ managers' = [l \in Leases |-> "none"]
  /\ busEvents' = <<>> /\ reserved' = {}
  /\ pass' = "off" /\ own' = {} /\ active' = {} /\ grouped' = 0 /\ errs' = FALSE
  /\ UNCHANGED <<chain, cluster, managed, sent>>

-----------------------------------------------------------------------------
(* A deployment manager.                                                   *)

\* The lease is checked first, and the Deploy of one the chain does not
\* know fails there; the manifest is written before the rest.
doDeploy(l) ==
  /\ \/ /\ managers[l] = "deploy" /\ chain[l] = "unknown"
        /\ managers' = [managers EXCEPT ![l] = "run"]
        /\ UNCHANGED <<cluster, reserved>>
     \/ /\ managers[l] = "deploy" /\ chain[l] = "active"
        /\ managers' = [managers EXCEPT ![l] = "apply"]
        /\ declared' = declared \cup {l} /\ reserved' = reserved \cup {l}
        /\ manis' = manis \cup {l}
        /\ UNCHANGED spaces
     \/ /\ managers[l] \in {"deploy", "pending"} /\ chain[l] = "closed"
        /\ managers' = [managers EXCEPT ![l] = "teardown"]
        /\ UNCHANGED <<cluster, reserved>>
     \/ /\ managers[l] \in {"apply", "pending"}
        /\ spaces' = spaces \cup {l} /\ manis' = manis \cup {l}
        /\ declared' = declared \cup {l}
        /\ managers' = [managers EXCEPT ![l] =
                          IF @ = "apply" THEN "run" ELSE "teardown"]
        /\ UNCHANGED reserved
  /\ UNCHANGED <<chain, service, managed, busEvents, reconciling, sent, csFaults>>

\* Hostname reservations are dropped by deployment group.
ReleaseHostnames == reserved' = {}

\* A teardown that fails anywhere is tried again.
doTeardown(l) ==
  /\ managers[l] = "teardown"
  /\ \/ /\ declared' = declared \ {l} /\ spaces' = spaces \ {l} /\ manis' = manis \ {l}
        /\ ReleaseHostnames
        /\ managers' = [managers EXCEPT ![l] = "done"]
        /\ UNCHANGED csFaults
     \/ /\ Fault
        /\ declared' = declared \ {l} /\ spaces' = spaces \ {l}
        /\ UNCHANGED <<manis, managers, reserved>>
     \/ /\ Fault
        /\ declared' = declared \ {l} /\ manis' = manis \ {l}
        /\ UNCHANGED <<spaces, managers, reserved>>
  /\ UNCHANGED <<chain, service, managed, busEvents, reconciling, sent>>

manager(l) == doDeploy(l) \/ doTeardown(l) \/ managerDone(l)

-----------------------------------------------------------------------------
(* The reconciliation.                                                     *)

LeaseIDs ==
  /\ pass = "ids"
  /\ own' = manis \cup spaces
  /\ pass' = IF own' = {} THEN "off" ELSE "active"
  /\ errs' = FALSE
  /\ UNCHANGED <<chain, cluster, reserved, service, managers, managed, busEvents,
                 active, grouped, sent, csFaults>>

\* The leases of the group are counted here, once for the whole pass.
activeLeases ==
  /\ pass = "active"
  /\ active' = {l \in Leases : chain[l] = "active"}
  /\ grouped' = Cardinality(active' \cup own)
  /\ pass' = "each"
  /\ UNCHANGED <<chain, cluster, reserved, service, managers, managed, busEvents,
                 own, errs, sent, csFaults>>

\* The cluster or the chain cannot be read: the pass is tried again.
passFails ==
  /\ pass \in {"ids", "active"} /\ Fault
  /\ pass' = "ids" /\ own' = {}
  /\ UNCHANGED <<chain, cluster, reserved, service, managers, managed, busEvents,
                 active, grouped, errs, sent>>

\* Mutant: a lease the chain does not know is taken for a closed one.
notActive(l) == chain[l] # "active"

closedLease(l) == chain[l] = "closed"

\* Namespace and manifest go last, so that a pass that fails finds the
\* lease again.
removeUnmanagedLease(l) ==
  \/ /\ declared' = declared \ {l} /\ spaces' = spaces \ {l} /\ manis' = manis \ {l}
     /\ IF grouped = 1 THEN ReleaseHostnames ELSE UNCHANGED reserved
     /\ UNCHANGED <<errs, csFaults>>
  \/ /\ Fault /\ errs' = TRUE
     /\ declared' \in {declared, declared \ {l}}
     /\ UNCHANGED <<spaces, manis, reserved>>
  \/ /\ Fault /\ errs' = TRUE
     /\ declared' = declared \ {l} /\ spaces' = spaces \ {l}
     /\ IF grouped = 1 THEN ReleaseHostnames ELSE UNCHANGED reserved
     /\ UNCHANGED manis

reconcileLease(l) ==
  /\ pass = "each" /\ l \in own
  /\ own' = own \ {l}
  /\ \/ /\ l \in active \/ ~closedLease(l)
        /\ UNCHANGED <<cluster, reserved, busEvents, errs, csFaults>>
     \/ /\ l \notin active /\ Fault /\ errs' = TRUE
        /\ UNCHANGED <<cluster, reserved, busEvents>>
     \/ /\ l \notin active /\ closedLease(l) /\ l \in managed
        /\ busEvents' = Append(busEvents, <<"closed", l>>)
        /\ UNCHANGED <<cluster, reserved, errs, csFaults>>
     \/ /\ l \notin active /\ closedLease(l) /\ l \notin managed
        /\ removeUnmanagedLease(l)
        /\ UNCHANGED busEvents
  /\ UNCHANGED <<chain, service, managers, managed, pass, active, grouped, sent>>

endPass ==
  /\ pass = "each" /\ own = {}
  /\ pass' = IF errs THEN "ids" ELSE "off"
  /\ UNCHANGED <<chain, cluster, reserved, service, managers, managed, busEvents,
                 own, active, grouped, errs, sent, csFaults>>

reconcileLeases ==
  \/ LeaseIDs \/ activeLeases \/ passFails \/ endPass
  \/ \E l \in Leases : reconcileLease(l)

Next ==
  \/ \E l \in Leases : \/ winLease(l) \/ closeLease(l) \/ receiveManifest(l)
                       \/ manager(l)
  \/ startDeploymentManagers \/ handleEvent \/ crash
  \/ reconcileLeases

Spec ==
  /\ Init /\ [][Next]_csVars
  /\ WF_csVars(startDeploymentManagers) /\ WF_csVars(handleEvent)
  /\ WF_csVars(reconcileLeases)
  /\ \A l \in Leases : WF_csVars(manager(l))

-----------------------------------------------------------------------------
TypeOK ==
  /\ manis \subseteq Leases /\ spaces \subseteq Leases
  /\ declared \subseteq Leases /\ reserved \subseteq Leases
  /\ managers \in [Leases -> {"none", "deploy", "apply", "pending", "run",
                              "teardown", "done"}]
  /\ pass \in {"off", "ids", "active", "each"}
  /\ service = "down" => pass = "off" /\ \A l \in Leases : managers[l] = "none"

\* Nothing of a lease that the chain reports closed stays in the cluster:
\* not when it closed while the provider was down, not when the provider
\* stopped in the middle of its teardown, and not when a pass failed.
ClosedIsRemoved ==
  \A l \in Leases : chain[l] = "closed" => l \notin manis \cup spaces \cup declared

\* No lease loses its manifest, its namespace or its hostnames unless the
\* chain says that it closed: an active lease and one the chain does not
\* know are kept, however old the reconciliation's reading is.
OnlyClosedIsRemoved ==
  \A l \in Leases :
    \/ l \in manis /\ l \notin manis'
    \/ l \in spaces /\ l \notin spaces'
    \/ l \in declared /\ l \notin declared'
    => chain[l] = "closed"
=============================================================================
