---------------------------- MODULE LeaseRecovery ----------------------------
(***************************************************************************)
(* The manifest of a lease as a Kubernetes resource, and the provider that *)
(* restarts from it.  A manifest group and the scheduler parameters of the *)
(* reservation are converted and stored (pkg/apis/akash.network/v2beta2);  *)
(* a restarted provider makes its reservation and its deployment from what *)
(* it reads back and deploys that.  In between the inventory service       *)
(* adjusts every reservation that is not allocated, which replaces the     *)
(* parameters the next manifest of the tenant is deployed with.            *)
(*                                                                         *)
(* Scheduler parameters are kept by reference: the reservation and the     *)
(* deployment of a lease share one map from resource ids to parameters,    *)
(* and services with the same resources share its entries.                 *)
(***************************************************************************)
EXTENDS Integers, Sequences, FiniteSets, SequencesExt

CONSTANTS
  Manifests,     \* groups: sequences of services [name, id, cpu, memory,
                 \*  group, tee, attestation, expose], where expose is a
                 \*  sequence of [port, external, ip, proxy]
  OrderTEE,      \* "none" | "cpu" | "cpu-gpu": the order's tee/type
  OrderIDs,      \* ids of the order's resource units
  Dseq,          \* deployment sequence of the lease
  NoManifest, NoProxy, NoParams,
  MaxUint32,     \* largest cpu amount the resource holds
  Ports,         \* 2^16: size of a stored port number
  MaxDeploys, MaxRestarts, MaxAdjusts

VARIABLES
  settings,   \* every map of parameters made so far; a reference is an index
  rsv,        \* the reservation: [ref, tee, allocated]
  mgr,        \* the deployment manager: [state, group, ref]
  maniCRD,    \* the stored manifest, or NoManifest
  podsOf,     \* what the workloads of the lease were last built from
  bus,        \* ClusterDeployment events the inventory service has to take
  lrCount     \* [deploys, restarts, adjusts] so far

lrVars == <<settings, rsv, mgr, maniCRD, podsOf, bus, lrCount>>

Confidential == {"kata-cpu", "kata-cpu-gpu"}

\* What Adjust leaves in the reservation (module Placement has the rest).
adjusted(tee, ids) ==
  [id \in ids |->
     IF tee = "none" THEN NoParams
     ELSE [class |-> "kata-" \o tee, tee |-> "none", disabled |-> FALSE]]

NoManager == [state |-> "none"]

Init ==
  /\ settings = <<adjusted(OrderTEE, OrderIDs)>>
  /\ rsv = [ref |-> 1, tee |-> OrderTEE, allocated |-> FALSE]
  /\ mgr = NoManager
  /\ maniCRD = NoManifest
  /\ podsOf = <<>>
  /\ bus = <<>>
  /\ lrCount = [deploys |-> 0, restarts |-> 0, adjusts |-> 0]

----------------------------------------------------------------------------
(* To the resource.                                                        *)

\* strconv.FormatUint and ParseUint: a text is read back as what was written,
\* and one that is no number as 0.
FormatUint(n)   == <<"decimal", n>>
ParseUint(text) == IF text[1] = "decimal" THEN text[2] ELSE 0

LeaseIDFromAkash(dseq) == [dseq |-> FormatUint(dseq)]

resourcesFromAkash(s) ==
  [id |-> s.id, cpu |-> s.cpu, memory |-> FormatUint(s.memory)]

\* Proxy options are flattened; absent ones are zero.
ZeroProxy == [disable |-> FALSE, buffers |-> 0]

manifestServiceExposeFromAkash(e) ==
  [port |-> e.port % Ports, external |-> e.external % Ports, ip |-> e.ip,
   proxy |-> IF e.proxy = NoProxy THEN ZeroProxy ELSE e.proxy]

\* The service's tee parameters go into the parameters it shares; without any
\* the service alone is stored with new ones.
teeParams(p, s) ==
  IF s.tee = "none" THEN p
  ELSE [IF p = NoParams THEN [class |-> "", tee |-> "none", disabled |-> FALSE] ELSE p
          EXCEPT !.tee = s.tee, !.disabled = @ \/ ~s.attestation]

\* One service; the first amount that does not fit ends the conversion, with
\* the parameters of the services before it changed.
manifestServiceFromProvider(acc, s) ==
  IF ~acc.ok \/ s.cpu > MaxUint32 THEN [acc EXCEPT !.ok = FALSE]
  ELSE [ok |-> TRUE,
        params |-> [acc.params EXCEPT ![s.id] = IF @ = NoParams THEN @ ELSE teeParams(@, s)],
        services |-> Append(acc.services,
          [name |-> s.name, resources |-> resourcesFromAkash(s), group |-> s.group,
           params |-> teeParams(acc.params[s.id], s),
           expose |-> [i \in DOMAIN s.expose |->
                         manifestServiceExposeFromAkash(s.expose[i])]])]

manifestGroupToCRD(g, params) ==
  FoldLeft(manifestServiceFromProvider, [ok |-> TRUE, params |-> params, services |-> <<>>], g)

\* The stored object: every service with its entry as it is at the end.
NewManifest(g, params) ==
  LET made == manifestGroupToCRD(g, params)
      entry(s) == made.params[s.resources.id]
  IN [ok |-> made.ok, params |-> made.params,
      object |-> [lease |-> LeaseIDFromAkash(Dseq),
                  services |-> [i \in DOMAIN made.services |->
                    [made.services[i] EXCEPT
                       !.params = IF entry(made.services[i]) = NoParams THEN @
                                  ELSE entry(made.services[i])]]]]

----------------------------------------------------------------------------
(* From the resource.                                                      *)

proxyToAkash(p) == IF p = ZeroProxy THEN NoProxy ELSE p

DetermineExposedExternalPort(e) == IF e.external = 0 THEN e.port ELSE e.external

\* Mutant: the external port is left out.
portOnly(e) ==
  [port |-> e.port, external |-> 0, ip |-> e.ip, proxy |-> proxyToAkash(e.proxy)]

toAkash(e) ==
  [port |-> e.port, external |-> e.external, ip |-> e.ip, proxy |-> proxyToAkash(e.proxy)]

resourcesToAkash(r) == [id |-> r.id, cpu |-> r.cpu, memory |-> ParseUint(r.memory)]

\* The tee parameters are not restored.
fromCRD(s) ==
  LET r == resourcesToAkash(s.resources)
  IN [name |-> s.name, id |-> r.id, cpu |-> r.cpu, memory |-> r.memory,
      group |-> s.group, tee |-> "none", attestation |-> FALSE,
      expose |-> [i \in DOMAIN s.expose |-> toAkash(s.expose[i])]]

FromCRD(lease) == ParseUint(lease.dseq)

groupFromCRD(services) == [i \in DOMAIN services |-> fromCRD(services[i])]

\* The deployment a stored manifest stands for; of services that share an id
\* the last one's parameters stay.
Deployment(obj) ==
  LET g   == groupFromCRD(obj.services)
      ids == {g[i].id : i \in DOMAIN g}
      last(id) == CHOOSE i \in DOMAIN g :
                    g[i].id = id /\ \A j \in DOMAIN g : g[j].id = id => j <= i
  IN [lease |-> FromCRD(obj.lease), group |-> g,
      params |-> [id \in ids |-> obj.services[last(id)].params]]

----------------------------------------------------------------------------
(* Deploying.                                                              *)

\* What the pods of a service are built from: its own amounts and ports, the
\* runtime class and the opt-out of attestation.
runtimeClass(p)   == IF p = NoParams THEN "" ELSE p.class
podAnnotations(p) == p # NoParams /\ p.disabled

workload(s, p) ==
  [cpu |-> s.cpu, memory |-> s.memory, group |-> s.group,
   ports |-> [i \in DOMAIN s.expose |-> DetermineExposedExternalPort(s.expose[i])],
   class |-> runtimeClass(p), optout |-> podAnnotations(p)]

buildClusterSettings(g, params) == \A i \in DOMAIN g : g[i].id \in DOMAIN params

Names(g) == {g[i].name : i \in DOMAIN g}

\* Services are neither renamed, added nor removed.
renamed(g) ==
  maniCRD # NoManifest /\ Names(g) # Names(groupFromCRD(maniCRD.services))

\* A manifest arrives for the lease: its deployment takes the parameters the
\* reservation has now.
ManifestReceived(g) ==
  /\ lrCount.deploys < MaxDeploys
  /\ mgr' = [state |-> "deploying", group |-> g, ref |-> rsv.ref]
  /\ lrCount' = [lrCount EXCEPT !.deploys = @ + 1]
  /\ UNCHANGED <<settings, rsv, maniCRD, podsOf, bus>>

\* client.Deploy, as far as the manifest and the pods go.
deploy ==
  LET made == NewManifest(mgr.group, settings[mgr.ref])
  IN /\ mgr.state = "deploying"
     /\ buildClusterSettings(mgr.group, settings[mgr.ref])
     /\ settings' = [settings EXCEPT ![mgr.ref] = made.params]
     /\ IF ~made.ok \/ renamed(mgr.group)
        THEN /\ mgr' = [mgr EXCEPT !.state = "failed"]
             /\ UNCHANGED <<maniCRD, podsOf, bus>>
        ELSE \/ /\ maniCRD' = made.object
                /\ podsOf' = [n \in Names(mgr.group) |->
                     LET s == CHOOSE i \in DOMAIN mgr.group : mgr.group[i].name = n
                     IN workload(mgr.group[s], made.params[mgr.group[s].id])]
                /\ bus' = Append(bus, "updated")
                /\ mgr' = [mgr EXCEPT !.state = "deployed"]
             \/ /\ maniCRD' = made.object     \* a later object could not be applied
                /\ mgr' = [mgr EXCEPT !.state = "failed"]
                /\ UNCHANGED <<podsOf, bus>>
     /\ UNCHANGED <<rsv, lrCount>>

settingsMissing ==
  /\ mgr.state = "deploying"
  /\ ~buildClusterSettings(mgr.group, settings[mgr.ref])
  /\ mgr' = [mgr EXCEPT !.state = "failed"]
  /\ UNCHANGED <<settings, rsv, maniCRD, podsOf, bus, lrCount>>

\* The monitor finds the pods running.
monitorReports ==
  /\ mgr.state = "deployed" /\ Len(bus) < 2
  /\ bus' = Append(bus, "deployed")
  /\ UNCHANGED <<settings, rsv, mgr, maniCRD, podsOf, lrCount>>

----------------------------------------------------------------------------
(* The inventory service.                                                  *)

deploymentEvent ==
  /\ bus # <<>>
  /\ rsv' = [rsv EXCEPT !.allocated = Head(bus) = "deployed"]
  /\ bus' = Tail(bus)
  /\ UNCHANGED <<settings, mgr, maniCRD, podsOf, lrCount>>

\* "readjust inventory accordingly with pending leases": with room for the
\* reservation its parameters are replaced.
readjust ==
  /\ ~rsv.allocated
  /\ lrCount.adjusts < MaxAdjusts
  /\ settings' = Append(settings, adjusted(rsv.tee, DOMAIN settings[rsv.ref]))
  /\ rsv' = [rsv EXCEPT !.ref = Len(settings) + 1]
  /\ lrCount' = [lrCount EXCEPT !.adjusts = @ + 1]
  /\ UNCHANGED <<mgr, maniCRD, podsOf, bus>>

\* Looks for the type in cluster settings; a deployment that was read back
\* carries the settings of a reservation, which is another type.
teeTypeFromClusterParams(kind, params) ==
  LET typed == {id \in DOMAIN params :
                  params[id] # NoParams /\ params[id].tee # "none" /\ ~params[id].disabled}
  IN IF kind # "ClusterSettings" \/ typed = {} THEN "none"
     ELSE params[CHOOSE id \in typed : TRUE].tee

\* The provider comes back: reservation and deployment are made of what is
\* stored, and the deployment is deployed again.
restart ==
  /\ maniCRD # NoManifest
  /\ lrCount.restarts < MaxRestarts
  /\ LET d == Deployment(maniCRD)
     IN /\ settings' = <<d.params>>
        /\ rsv' = [ref |-> 1, allocated |-> FALSE,
                   tee |-> teeTypeFromClusterParams("ReservationClusterSettings", d.params)]
        /\ mgr' = [state |-> "deploying", group |-> d.group, ref |-> 1]
  /\ bus' = <<>>
  /\ lrCount' = [lrCount EXCEPT !.restarts = @ + 1]
  /\ UNCHANGED <<maniCRD, podsOf>>

Next ==
  \/ \E g \in Manifests : ManifestReceived(g)
  \/ deploy \/ settingsMissing \/ monitorReports
  \/ deploymentEvent \/ readjust \/ restart

Spec == Init /\ [][Next]_lrVars

----------------------------------------------------------------------------

TypeOK ==
  /\ rsv.ref \in DOMAIN settings
  /\ rsv.allocated \in BOOLEAN
  /\ mgr.state \in {"none", "deploying", "deployed", "failed"}
  /\ mgr.state # "none" => mgr.ref \in DOMAIN settings
  /\ bus \in Seq({"updated", "deployed"})

\* After a successful deploy the stored manifest, read back, is the manifest
\* that was deployed, and the pods a restarted provider builds from it are the
\* running ones: recovery does not replace a tenant's workload
\* (recovery_test.go, checkDeploymentRecovery).  The opt-out of attestation is
\* compared for confidential pods, the only ones it means something for.
Comparable(w) == [w EXCEPT !.optout = @ /\ w.class \in Confidential]

RestartKeepsPods ==
  mgr.state = "deployed" =>
    LET d == Deployment(maniCRD)
    IN /\ d.lease = Dseq
       /\ \A i \in DOMAIN d.group : \A k \in DOMAIN d.group[i].expose :
            /\ d.group[i].expose[k].ip = mgr.group[i].expose[k].ip
            /\ d.group[i].expose[k].proxy
                 \in {mgr.group[i].expose[k].proxy, NoProxy}
       /\ \A i \in DOMAIN d.group :
            Comparable(podsOf[d.group[i].name])
              = Comparable(workload(d.group[i], d.params[d.group[i].id]))

\* A service whose manifest asks for confidential computing is deployed with a
\* confidential runtime class, also after the provider was restarted
\* (inventory.go 507: teeTypeFromClusterParams is "used for existing
\* reservations loaded at startup").
ConfidentialStays ==
  (mgr.state = "deployed" /\ OrderTEE # "none") =>
    \A i \in DOMAIN mgr.group :
      mgr.group[i].tee # "none" => podsOf[mgr.group[i].name].class \in Confidential

\* A service that asks for attestation is not opted out of it.
AttestedAsAsked ==
  mgr.state = "deployed" =>
    \A i \in DOMAIN mgr.group :
      (mgr.group[i].tee # "none" /\ mgr.group[i].attestation)
        => ~podsOf[mgr.group[i].name].optout
=============================================================================
