---------------------------- MODULE HostnameOperator ---------------------------
(***************************************************************************)
(* The hostname operator (operator/hostname): a single goroutine that      *)
(* lists what is connected, lists and then watches the ProviderHost        *)
(* resources the provider declares, and connects each hostname to the      *)
(* service of its lease with an ingress or, in gateway mode, an HTTPRoute. *)
(* Any error ends the round; the operator starts again from the lists.  A  *)
(* lease whose resources are not found FailureLimit times is ignored.      *)
(*                                                                         *)
(* The provider (cluster/kube/client_hostname_connections.go) and the      *)
(* teardown of a lease change the resources meanwhile.  A change made      *)
(* while no watch is open is seen by the operator only as the next list.   *)
(***************************************************************************)
EXTENDS Naturals, FiniteSets, SequencesExt

CONSTANTS Hosts, Leases, Targets,   \* a target is a service and its external port
          None, Bare,               \* no resource; an HTTPRoute without rules
          FailureLimit, EntryLimit, \* of the ignore list
          MaxChanges, MaxFaults     \* bounds on the provider's calls and on failures

VARIABLES mode,       \* "ingress" or "gateway" (a flag of the command)
          declared,   \* the ProviderHost of each hostname
          manifest,   \* the targets each lease's Manifest resource exposes
          namespace,  \* the leases whose namespace exists
          closing,    \* the leases whose teardown has begun
          route,      \* the ingress or HTTPRoute in each lease's namespace
          hoState,    \* where monitorUntilError is
          hostnames,  \* op.hostnames: the lease each hostname is connected to
          failures,   \* op.leasesIgnored: failureCount of each lease
          events,     \* what observeHostnameState has still to deliver
          skipped,    \* history: hostnames with an event ignored for its lease
          changes, faults

provider == <<declared, manifest, namespace, closing, changes>>

hoVars == <<mode, declared, manifest, namespace, closing, route, hoState, hostnames,
            failures, events, skipped, changes, faults>>

Host(l, t) == [lease |-> l, target |-> t]

Event(type, h, d) == [type |-> type, host |-> h, lease |-> d.lease, target |-> d.target]

NoHostnames == [h \in Hosts |-> None]

Init ==
  /\ mode \in {"ingress", "gateway"}
  /\ declared = [h \in Hosts |-> None]
  /\ manifest = [l \in Leases |-> {}]
  /\ namespace = {}
  /\ closing = {}
  /\ route = [l \in Leases |-> NoHostnames]
  /\ hoState = "start"
  /\ hostnames = NoHostnames
  /\ failures = [l \in Leases |-> 0]
  /\ events = <<>>
  /\ skipped = {}
  /\ changes = 0 /\ faults = 0

--------------------------------------------------------------------------------
(***************************************************************************)
(* The provider.  A watch that is open delivers every change.              *)
(***************************************************************************)

Change ==
  /\ changes < MaxChanges
  /\ changes' = changes + 1

Watched(evs) == IF hoState = "loop" THEN events \o evs ELSE events

\* Deploy creates the namespace and writes the Manifest resource.
Deploy(l, ts) ==
  /\ l \notin closing
  /\ Change
  /\ namespace' = namespace \cup {l}
  /\ manifest' = [manifest EXCEPT ![l] = ts]
  /\ UNCHANGED <<mode, declared, closing, route, hoState, hostnames, failures, events, skipped, faults>>

DeclareHostname(l, h, t) ==
  /\ l \notin closing
  /\ t \in manifest[l]
  /\ Change
  /\ declared' = [declared EXCEPT ![h] = Host(l, t)]
  /\ events' = Watched(<<Event(IF declared[h] = None THEN "add" ELSE "update", h, Host(l, t))>>)
  /\ UNCHANGED <<mode, manifest, namespace, closing, route, hoState, hostnames, failures, skipped, faults>>

PurgeDeclaredHostname(l, h) ==
  /\ declared[h] # None
  /\ declared[h].lease = l
  /\ Change
  /\ declared' = [declared EXCEPT ![h] = None]
  /\ events' = Watched(<<Event("delete", h, declared[h])>>)
  /\ UNCHANGED <<mode, manifest, namespace, closing, route, hoState, hostnames, failures, skipped, faults>>

\* TeardownLease deletes the Manifest resource and the namespace, with every
\* ingress and HTTPRoute in it; either may be first, and the lease's
\* hostnames may still be declared.  The lease's manager does not deploy again.
DeleteManifest(l) ==
  /\ manifest[l] # {}
  /\ Change
  /\ closing' = closing \cup {l}
  /\ manifest' = [manifest EXCEPT ![l] = {}]
  /\ UNCHANGED <<mode, declared, namespace, route, hoState, hostnames, failures, events, skipped, faults>>

DeleteNamespace(l) ==
  /\ l \in namespace
  /\ Change
  /\ closing' = closing \cup {l}
  /\ namespace' = namespace \ {l}
  /\ route' = [route EXCEPT ![l] = NoHostnames]
  /\ UNCHANGED <<mode, declared, manifest, hoState, hostnames, failures, events, skipped, faults>>

--------------------------------------------------------------------------------
(***************************************************************************)
(* One round of monitorUntilError.                                         *)
(***************************************************************************)

Fault ==
  /\ faults < MaxFaults
  /\ faults' = faults + 1

\* The round ends; run starts the next one with an empty map.
EndRound ==
  /\ hoState' = "start"
  /\ hostnames' = NoHostnames
  /\ events' = <<>>

\* An HTTPRoute without hostnames or rules is the placeholder of a publish
\* that failed: it is not a connection.
Connections(h) == {l \in Leases : route[l][h] \in Targets}

\* The listing is a map by hostname: of two leases the last one stays.
getHostnameDeploymentConnections ==
  /\ hoState = "start"
  /\ \E f \in [Hosts -> Leases \cup {None}] :
       /\ \A h \in Hosts : IF Connections(h) = {} THEN f[h] = None ELSE f[h] \in Connections(h)
       /\ hostnames' = f
  /\ hoState' = "list"
  /\ UNCHANGED <<mode, provider, route, failures, events, skipped, faults>>

\* Every ProviderHost of a list or of a new watch is delivered as an addition.
AsAdded == LET hs == SetToSeq({h \in Hosts : declared[h] # None})
           IN  [i \in 1..Len(hs) |-> Event("add", hs[i], declared[hs[i]])]

listHostnames ==
  /\ hoState = "list"
  /\ hoState' = "watch"
  /\ events' = AsAdded
  /\ UNCHANGED <<mode, provider, route, hostnames, failures, skipped, faults>>

\* Mutant: the watch begins with what changes from now on.
watchFromNow ==
  /\ hoState = "watch"
  /\ hoState' = "loop"
  /\ UNCHANGED <<mode, provider, route, hostnames, failures, events, skipped, faults>>

\* The watch names no resource version: it begins with what exists by now.
watchHostnames ==
  /\ hoState = "watch"
  /\ hoState' = "loop"
  /\ events' = events \o AsAdded
  /\ UNCHANGED <<mode, provider, route, hostnames, failures, skipped, faults>>

\* A list or the watch fails, or the watch is closed.
observationStopped ==
  /\ hoState \in {"list", "watch", "loop"}
  /\ Fault
  /\ EndRound
  /\ UNCHANGED <<mode, provider, route, failures, skipped>>

\* The process is restarted: the ignore list is not persisted.
Restart ==
  /\ Fault
  /\ EndRound
  /\ failures' = [l \in Leases |-> 0]
  /\ UNCHANGED <<mode, provider, route, skipped>>

IsFlagged(l) == failures[l] >= FailureLimit

\* Over EntryLimit the entries that aged go first, then any others.
prune ==
  LET entries == {l \in Leases : failures[l] > 0}
  IN  /\ hoState = "loop"
      /\ Cardinality(entries) > EntryLimit
      /\ Fault
      /\ \E kept \in SUBSET entries :
           /\ Cardinality(kept) <= EntryLimit
           /\ failures' = [l \in Leases |-> IF l \in kept THEN failures[l] ELSE 0]
      /\ UNCHANGED <<mode, provider, route, hoState, hostnames, events, skipped>>

--------------------------------------------------------------------------------
(***************************************************************************)
(* Applying the event at the head.  An error ends the round; one that says *)
(* a resource is not found also counts against the event's lease.          *)
(***************************************************************************)

Fails ==
  /\ Fault
  /\ EndRound
  /\ UNCHANGED <<failures, skipped>>

AddError(l) == failures' = [failures EXCEPT ![l] = @ + 1]

recordEventError(l) ==
  /\ AddError(l)
  /\ EndRound
  /\ UNCHANGED <<skipped, faults>>

Applied(h, l) ==
  /\ hostnames' = [hostnames EXCEPT ![h] = l]
  /\ events' = Tail(events)
  /\ UNCHANGED <<hoState, failures, faults>>

removeHostnameFromDeployment(l, h) == [route EXCEPT ![l][h] = None]

\* The lease of the event loses the hostname, whoever the map has for it.
\* A missing ingress or route is no error here.
applyDeleteEvent(ev) ==
  \/ /\ route' = removeHostnameFromDeployment(ev.lease, ev.host)
     /\ Applied(ev.host, None)
     /\ UNCHANGED skipped
  \/ /\ Fails
     /\ UNCHANGED route

\* The service, its port and the http options come from the event's expose.
buildDirective(ev) == ev.target

\* In gateway mode a failed call may leave a placeholder without rules.
connectHostnameToDeploymentGateway(r, ev) ==
  /\ mode = "gateway" /\ ev.lease \in namespace /\ r[ev.lease][ev.host] = None
  /\ route' = [r EXCEPT ![ev.lease][ev.host] = Bare]
  /\ Fails

\* The outcomes of connectHostnameToDeployment over the routes r: written,
\* refused because the namespace is gone, or failed before or after it was
\* written.
connectHostnameToDeployment(r, ev) ==
  \/ /\ ev.lease \in namespace
     /\ route' = [r EXCEPT ![ev.lease][ev.host] = buildDirective(ev)]
     /\ \/ Applied(ev.host, ev.lease) /\ UNCHANGED skipped
        \/ Fails
  \/ /\ ev.lease \notin namespace
     /\ route' = r
     /\ recordEventError(ev.lease)
  \/ /\ route' = r
     /\ Fails
  \/ connectHostnameToDeploymentGateway(r, ev)

\* Mutant: the old lease's ingress is left where it is.
swapWithoutRemoval(ev, old) == connectHostnameToDeployment(route, ev)

\* Another lease has the hostname: its ingress goes first.  In gateway mode a
\* route that is missing is an error, "not found", against the new lease.
swapHostname(ev, old) ==
  \/ /\ mode = "gateway" /\ route[old][ev.host] = None
     /\ recordEventError(ev.lease)
     /\ UNCHANGED route
  \/ /\ Fails
     /\ UNCHANGED route
  \/ /\ ~(mode = "gateway" /\ route[old][ev.host] = None)
     /\ connectHostnameToDeployment(removeHostnameFromDeployment(old, ev.host), ev)

getManifestGroup(l) == manifest[l]

\* The Manifest resource, the service in it and its expose must be there.
locateServiceFromManifest(ev) == ev.target \in getManifestGroup(ev.lease)

applyAddOrUpdateEvent(ev) ==
  \/ /\ ~locateServiceFromManifest(ev)
     /\ recordEventError(ev.lease)
     /\ UNCHANGED route
  \/ /\ locateServiceFromManifest(ev)
     /\ IF hostnames[ev.host] \in {None, ev.lease}
        THEN connectHostnameToDeployment(route, ev)
        ELSE swapHostname(ev, hostnames[ev.host])

isEventIgnored(ev) ==
  /\ IsFlagged(ev.lease)
  /\ events' = Tail(events)
  /\ skipped' = skipped \cup {ev.host}
  /\ UNCHANGED <<route, hoState, hostnames, failures, faults>>

applyEvent ==
  /\ hoState = "loop"
  /\ events # <<>>
  /\ LET ev == Head(events)
     IN  \/ ev.type = "delete" /\ applyDeleteEvent(ev)
         \/ ev.type # "delete" /\ isEventIgnored(ev)
         \/ ev.type # "delete" /\ ~IsFlagged(ev.lease) /\ applyAddOrUpdateEvent(ev)
  /\ UNCHANGED <<mode, provider>>

Provider ==
  \/ \E l \in Leases, ts \in SUBSET Targets \ {{}} : Deploy(l, ts)
  \/ \E l \in Leases, h \in Hosts, t \in Targets : DeclareHostname(l, h, t)
  \/ \E l \in Leases, h \in Hosts : PurgeDeclaredHostname(l, h)
  \/ \E l \in Leases : DeleteManifest(l) \/ DeleteNamespace(l)

Operator == getHostnameDeploymentConnections \/ listHostnames \/ watchHostnames \/ applyEvent

Next == Provider \/ Operator \/ observationStopped \/ Restart \/ prune

\* run never leaves its loop before the process is stopped, and every call to
\* the API server has a deadline.
Spec == Init /\ [][Next]_hoVars /\ WF_hoVars(Operator)

--------------------------------------------------------------------------------

TypeOK ==
  /\ declared \in [Hosts -> {None} \cup [lease : Leases, target : Targets]]
  /\ manifest \in [Leases -> SUBSET Targets]
  /\ namespace \subseteq Leases
  /\ route \in [Leases -> [Hosts -> {None, Bare} \cup Targets]]
  /\ hoState \in {"start", "list", "watch", "loop"}
  /\ hostnames \in [Hosts -> Leases \cup {None}]
  /\ failures \in [Leases -> Nat]

(***************************************************************************)
(* A hostname is never served for two leases at once, through restarts,    *)
(* failed calls, swaps and teardowns, unless an event of it was ignored.   *)
(***************************************************************************)
OneRoute == \A h \in Hosts \ skipped : Cardinality(Connections(h)) <= 1

(***************************************************************************)
(* Every declared hostname whose manifest and namespace exist is routed to *)
(* the lease and target that its ProviderHost names.                       *)
(***************************************************************************)
DeclaredIsRouted ==
  \A h \in Hosts \ skipped :
    LET d == declared[h]
    IN  d # None /\ d.target \in manifest[d.lease] /\ d.lease \in namespace
          => route[d.lease][h] = d.target
================================================================================
