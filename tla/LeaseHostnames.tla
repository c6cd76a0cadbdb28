----------------------------- MODULE LeaseHostnames ----------------------------
(***************************************************************************)
(* The hostname service composed with everything that calls it: the        *)
(* deployment managers of several leases (cluster/manager.go), the check   *)
(* of a submitted manifest (manifest/manager.go), the migration handler of *)
(* the gateway (gateway/rest/router_migrate.go), and a provider that may   *)
(* stop at any moment and restart from what the cluster holds.             *)
(*                                                                         *)
(* The store of the hostname service (hostnameService.inUse,               *)
(* cluster/hostname.go) maps every name to the hostnameID that holds it,   *)
(* or to Free; the loop of hostnameService.run applies one of the store's  *)
(* operators at a time.  A hostnameID is the tenant and the deployment     *)
(* group of a lease; the order's sequence number is not part of it, so two *)
(* leases of one group have the same ID.                                   *)
(*                                                                         *)
(* A manifest is the set of hostnames it exposes.  In the cluster a lease  *)
(* has its workload with the saved manifest, and every hostname has at     *)
(* most one ProviderHost, the lease it is declared for.                    *)
(***************************************************************************)
EXTENDS Naturals, FiniteSets

CONSTANTS
  Hosts,      \* hostnames, as spelled in manifests and as stored
  Lower,      \* strings.ToLower on hostnames
  Blocked,    \* lower case names the provider's configuration refuses
  Leases,
  Tenants,
  Groups,
  OwnerOf,    \* tenant of a lease
  GroupOf,    \* deployment group of a lease
  Free,       \* no reservation
  None,            \* no lease, no manifest
  MaxUpdates,      \* bound on manifests that replace a deployed one
  MaxMigrations,   \* bound on migration requests
  MaxRestarts      \* bound on restarts of the provider

ASSUME LowerAssumption ==
  /\ Lower \in [Hosts -> Hosts]
  /\ \A h \in Hosts : Lower[Lower[h]] = Lower[h]

ASSUME LeaseAssumption ==
  /\ OwnerOf \in [Leases -> Tenants]
  /\ GroupOf \in [Leases -> Groups]
  /\ \A l, m \in Leases : GroupOf[l] = GroupOf[m] => OwnerOf[l] = OwnerOf[m]

HostnameIDs == [owner : Tenants, group : Groups]

ASSUME FreeAssumption == \A id \in HostnameIDs : id # Free

ASSUME BoundsAssumption == {MaxUpdates, MaxMigrations, MaxRestarts} \subseteq Nat

ASSUME NoneAssumption == None \notin Leases /\ \A hs \in SUBSET Hosts : hs # None

VARIABLES
  inUse,       \* hostnameService.inUse
  declared,    \* ProviderHost of a hostname: the lease it is declared for
  saved,       \* workload and Manifest of a lease: the hostnames it exposes
  lease,       \* state of the lease on chain
  submitted,   \* manifest that was accepted and is on its way to the manager
  stage,       \* the deployment manager of the lease
  manifest,    \* dm.deployment
  pending,     \* what the manager does after the deploy that is running
  failed,      \* the last deploy failed
  withheld,    \* doDeploy: what ReserveHostnames withheld
  hosts,       \* doDeploy: hostnames it has still to declare
  drop,        \* doDeploy: hostnames of the cleanup helper
  current,     \* dm.currentHostnames
  left,        \* doTeardown: activities that have not succeeded
  migration,   \* the migration request that is being served
  updates, migrations, restarts

clusterVars == <<declared, saved>>
managerVars == <<stage, manifest, pending, failed, withheld, hosts, drop, current, left>>
boundVars   == <<updates, migrations, restarts>>

vars == <<inUse, clusterVars, lease, submitted, managerVars, migration, boundVars>>

Stores == [Hosts -> HostnameIDs \cup {Free}]

hostnameIDFromLeaseID(l) == [owner |-> OwnerOf[l], group |-> GroupOf[l]]

LowerCase(hs) == {Lower[h] : h \in hs}

isHostnameBlocked(hs) == hs \cap Blocked # {}

InUse(store, h) == store[h] # Free

\* Mutant: the owner of a name that is in use is not compared.
HeldByOtherNever(store, hs, owner) == FALSE

\* Some name of hs is held by another tenant.
HeldByOther(store, hs, owner) ==
  \E h \in hs : InUse(store, h) /\ store[h].owner # owner

canReserveHostnamesImpl(store, hs, owner) == ~HeldByOther(store, hs, owner)

\* Names of the same tenant that another group of theirs still holds.
Withheld(store, hs, id) == {h \in hs : InUse(store, h) /\ store[h] # id}

\* Mutant: names id holds already are given up although it asks for them again.
reserveHostnamesImplDrops(store, hs, id) ==
  [h \in Hosts |->
     CASE store[h] = id -> Free
       [] h \in hs \ Withheld(store, hs, id) /\ store[h] # id -> id
       [] OTHER -> store[h]]

\* Everything that is not withheld is held by id; names id no longer asks for
\* are given up.
reserveHostnamesImpl(store, hs, id) ==
  [h \in Hosts |->
     CASE h \in hs \ Withheld(store, hs, id) -> id
       [] h \notin hs /\ store[h] = id -> Free
       [] OTHER -> store[h]]

\* Only names that are in use change hands.
prepareHostnamesImpl(store, hs, id) ==
  [h \in Hosts |-> IF h \in hs /\ InUse(store, h) THEN id ELSE store[h]]

releaseHostnamesImpl(store, id) ==
  [h \in Hosts |-> IF store[h] = id THEN Free ELSE store[h]]

--------------------------------------------------------------------------------

Manifests == SUBSET Hosts

Deploying == {"reserve", "deploy", "collect", "declare"}

Stages == {"none", "complete", "teardown", "done"} \cup Deploying

Activities == {"hostnames", "workload"}

NoMigration == [step |-> "idle", lease |-> None, hosts |-> {}]

TypeOK ==
  /\ inUse \in Stores
  /\ declared \in [Hosts -> Leases \cup {None}]
  /\ saved \in [Leases -> Manifests \cup {None}]
  /\ lease \in [Leases -> {"none", "active", "closed"}]
  /\ submitted \in [Leases -> Manifests \cup {None}]
  /\ stage \in [Leases -> Stages]
  /\ manifest \in [Leases -> Manifests]
  /\ pending \in [Leases -> {"none", "deploy", "teardown"}]
  /\ failed \in [Leases -> BOOLEAN]
  /\ withheld \in [Leases -> Manifests]
  /\ hosts \in [Leases -> Manifests]
  /\ drop \in [Leases -> Manifests]
  /\ current \in [Leases -> Manifests]
  /\ left \in [Leases -> SUBSET Activities]
  /\ migration \in [step : {"idle", "found", "prepared"}, lease : Leases \cup {None},
                    hosts : Manifests]
  /\ updates \in 0..MaxUpdates
  /\ migrations \in 0..MaxMigrations
  /\ restarts \in 0..MaxRestarts

Init ==
  /\ inUse = [h \in Hosts |-> Free]
  /\ declared = [h \in Hosts |-> None]
  /\ saved = [l \in Leases |-> None]
  /\ lease = [l \in Leases |-> "none"]
  /\ submitted = [l \in Leases |-> None]
  /\ stage = [l \in Leases |-> "none"]
  /\ manifest = [l \in Leases |-> {}]
  /\ pending = [l \in Leases |-> "none"]
  /\ failed = [l \in Leases |-> FALSE]
  /\ withheld = [l \in Leases |-> {}]
  /\ hosts = [l \in Leases |-> {}]
  /\ drop = [l \in Leases |-> {}]
  /\ current = [l \in Leases |-> {}]
  /\ left = [l \in Leases |-> {}]
  /\ migration = NoMigration
  /\ updates = 0 /\ migrations = 0 /\ restarts = 0

-----------------------------------------------------------------------------
(***************************************************************************)
(* The chain and the tenant.                                               *)
(***************************************************************************)

\* A group has at most one lease at a time, and a closed lease stays closed.
LeaseCreated(l) ==
  /\ lease[l] = "none"
  /\ \A m \in Leases : GroupOf[m] = GroupOf[l] => lease[m] # "active"
  /\ lease' = [lease EXCEPT ![l] = "active"]
  /\ UNCHANGED <<inUse, clusterVars, submitted, managerVars, migration, boundVars>>

LeaseClosed(l) ==
  /\ lease[l] = "active"
  /\ lease' = [lease EXCEPT ![l] = "closed"]
  /\ UNCHANGED <<inUse, clusterVars, submitted, managerVars, migration, boundVars>>

\* A tenant submits a manifest.  checkHostnamesForManifest asks the hostname
\* service, and a manifest that passes is on its way to the cluster service.
SubmitManifest(l, hs) ==
  /\ lease[l] = "active"
  /\ submitted[l] = None
  /\ stage[l] # "none" \/ saved[l] # None => updates < MaxUpdates
  /\ ~isHostnameBlocked(LowerCase(hs))
  /\ canReserveHostnamesImpl(inUse, LowerCase(hs), OwnerOf[l])
  /\ submitted' = [submitted EXCEPT ![l] = hs]
  /\ updates' = IF stage[l] # "none" \/ saved[l] # None THEN updates + 1 ELSE updates
  /\ UNCHANGED <<inUse, clusterVars, lease, managerVars, migration, migrations, restarts>>

-----------------------------------------------------------------------------
(***************************************************************************)
(* The deployment manager of a lease.                                      *)
(***************************************************************************)

startDeploy(l) ==
  /\ stage' = [stage EXCEPT ![l] = "reserve"]
  /\ pending' = [pending EXCEPT ![l] = "none"]
  /\ drop' = [drop EXCEPT ![l] = {}]

\* Mutant: the declared hostnames are not purged.
startTeardownWorkloadOnly(l) ==
  /\ stage' = [stage EXCEPT ![l] = "teardown"]
  /\ pending' = [pending EXCEPT ![l] = "none"]
  /\ drop' = [drop EXCEPT ![l] = {}]
  /\ left' = [left EXCEPT ![l] = {"workload"}]

startTeardown(l) ==
  /\ stage' = [stage EXCEPT ![l] = "teardown"]
  /\ pending' = [pending EXCEPT ![l] = "none"]
  /\ drop' = [drop EXCEPT ![l] = {}]
  /\ left' = [left EXCEPT ![l] = Activities]

\* The service's loop hands the manifest to a new or to the existing manager.
ManifestReceived(l) ==
  /\ submitted[l] # None
  /\ submitted' = [submitted EXCEPT ![l] = None]
  /\ \/ /\ stage[l] \in {"none", "complete"}
        /\ startDeploy(l)
        /\ manifest' = [manifest EXCEPT ![l] = submitted[l]]
     \/ /\ stage[l] \in Deploying
        /\ manifest' = [manifest EXCEPT ![l] = submitted[l]]
        /\ pending' = [pending EXCEPT ![l] = IF @ = "none" THEN "deploy" ELSE @]
        /\ UNCHANGED <<stage, drop>>
     \/ /\ stage[l] \in {"teardown", "done"}
        /\ UNCHANGED <<stage, pending, drop, manifest>>
  /\ UNCHANGED <<inUse, clusterVars, lease, failed, withheld, hosts, current, left, migration,
                 boundVars>>

\* EventLeaseClosed reaches the manager.
Teardown(l) ==
  /\ lease[l] = "closed"
  /\ \/ /\ stage[l] \in Deploying
        /\ pending[l] # "teardown"
        /\ pending' = [pending EXCEPT ![l] = "teardown"]
        /\ UNCHANGED <<stage, drop, left>>
     \/ /\ stage[l] = "complete"
        /\ startTeardown(l)
  /\ UNCHANGED <<inUse, clusterVars, lease, submitted, manifest, failed, withheld, hosts,
                 current, migration, boundVars>>

\* The result of the deploy of l is read: r is whether it failed.
DeployResult(l, r) ==
  /\ hosts' = [hosts EXCEPT ![l] = {}]
  /\ \/ /\ pending[l] = "none"
        /\ stage' = [stage EXCEPT ![l] = "complete"]
        /\ failed' = [failed EXCEPT ![l] = r]
        /\ drop' = [drop EXCEPT ![l] = {}]
        /\ UNCHANGED <<pending, left>>
     \/ /\ pending[l] = "deploy"
        /\ startDeploy(l)
        /\ UNCHANGED <<failed, left>>
     \/ /\ pending[l] = "teardown"
        /\ startTeardown(l)
        /\ UNCHANGED failed

\* cleanupHelper.purgeAll, deferred in doDeploy: only what is labelled with l.
PurgeAll(l, hs) ==
  [h \in Hosts |-> IF h \in hs /\ declared[h] = l THEN None ELSE declared[h]]

\* doDeploy returns early with an error.  What it had to purge is purged.
DeployFails(l) ==
  /\ stage[l] \in Deploying
  /\ declared' = PurgeAll(l, drop[l])
  /\ DeployResult(l, TRUE)
  /\ UNCHANGED <<inUse, saved, lease, submitted, manifest, withheld, current, migration,
                 boundVars>>

\* checkLeaseActive, then ReserveHostnames with the hostnames of dm.deployment.
Reserve(l) ==
  LET hs == LowerCase(manifest[l])
      id == hostnameIDFromLeaseID(l)
  IN /\ stage[l] = "reserve"
     /\ \/ /\ lease[l] = "closed"
           /\ startTeardown(l)
           /\ UNCHANGED <<inUse, withheld>>
        \/ /\ lease[l] = "active"
           /\ ~isHostnameBlocked(hs)
           /\ ~HeldByOther(inUse, hs, OwnerOf[l])
           /\ inUse' = reserveHostnamesImpl(inUse, hs, id)
           /\ withheld' = [withheld EXCEPT ![l] = Withheld(inUse, hs, id)]
           /\ drop' = [drop EXCEPT ![l] = current[l] \ manifest[l]]
           /\ stage' = [stage EXCEPT ![l] = "deploy"]
           /\ UNCHANGED <<pending, left>>
     /\ UNCHANGED <<clusterVars, lease, submitted, manifest, failed, hosts, current, migration,
                    boundVars>>

\* client.Deploy(dm.deployment).
Deploy(l) ==
  /\ stage[l] = "deploy"
  /\ saved' = [saved EXCEPT ![l] = manifest[l]]
  /\ stage' = [stage EXCEPT ![l] = "collect"]
  /\ UNCHANGED <<inUse, declared, lease, submitted, manifest, pending, failed, withheld, hosts,
                 drop, current, left, migration, boundVars>>

\* doDeploy reads dm.deployment once more to find what to declare.
Collect(l) ==
  LET hs == manifest[l] \ withheld[l]
  IN /\ stage[l] = "collect"
     /\ hosts' = [hosts EXCEPT ![l] = hs]
     /\ current' = [current EXCEPT ![l] = hs]
     /\ stage' = [stage EXCEPT ![l] = "declare"]
     /\ UNCHANGED <<inUse, clusterVars, lease, submitted, manifest, pending, failed, withheld,
                    drop, left, migration, boundVars>>

\* The ProviderHost of h is created, or updated whatever lease it names.  Its
\* name is the hostname, which Kubernetes only accepts in lower case.
DeclareHostname(l, h) ==
  /\ Lower[h] = h
  /\ declared' = [declared EXCEPT ![h] = l]

Declare(l, h) ==
  /\ stage[l] = "declare"
  /\ h \in hosts[l]
  /\ DeclareHostname(l, h)
  /\ hosts' = [hosts EXCEPT ![l] = @ \ {h}]
  /\ UNCHANGED <<inUse, saved, lease, submitted, stage, manifest, pending, failed, withheld,
                 drop, current, left, migration, boundVars>>

\* The deferred purge, and the result of a deploy that went well.
DeploySucceeds(l) ==
  /\ stage[l] = "declare"
  /\ hosts[l] = {}
  /\ declared' = PurgeAll(l, drop[l])
  /\ DeployResult(l, FALSE)
  /\ UNCHANGED <<inUse, saved, lease, submitted, manifest, withheld, current, migration,
                 boundVars>>

\* One activity of doTeardown succeeds.  They run side by side.
TeardownActivity(l, a) ==
  /\ stage[l] = "teardown"
  /\ a \in left[l]
  /\ left' = [left EXCEPT ![l] = @ \ {a}]
  /\ declared' = IF a = "hostnames" THEN PurgeAll(l, Hosts) ELSE declared
  /\ saved' = IF a = "workload" THEN [saved EXCEPT ![l] = None] ELSE saved
  /\ UNCHANGED <<inUse, lease, submitted, stage, manifest, pending, failed, withheld, hosts, drop,
                 current, migration, boundVars>>

\* An activity ran out of attempts: everything is tried again.
TeardownRetry(l) ==
  /\ stage[l] = "teardown"
  /\ left[l] \notin {{}, Activities}
  /\ left' = [left EXCEPT ![l] = Activities]
  /\ UNCHANGED <<inUse, clusterVars, lease, submitted, stage, manifest, pending, failed, withheld,
                 hosts, drop, current, migration, boundVars>>

\* run returns, and its deferred call releases the hostnames of the group.
TeardownDone(l) ==
  /\ stage[l] = "teardown"
  /\ left[l] = {}
  /\ inUse' = releaseHostnamesImpl(inUse, hostnameIDFromLeaseID(l))
  /\ stage' = [stage EXCEPT ![l] = "done"]
  /\ UNCHANGED <<clusterVars, lease, submitted, manifest, pending, failed, withheld, hosts, drop,
                 current, left, migration, boundVars>>

\* The service's loop reads managerch and forgets the manager.
ManagerDone(l) ==
  /\ stage[l] = "done"
  /\ stage' = [stage EXCEPT ![l] = "none"]
  /\ manifest' = [manifest EXCEPT ![l] = {}]
  /\ failed' = [failed EXCEPT ![l] = FALSE]
  /\ withheld' = [withheld EXCEPT ![l] = {}]
  /\ current' = [current EXCEPT ![l] = {}]
  /\ UNCHANGED <<inUse, clusterVars, lease, submitted, pending, hosts, drop, left, migration,
                 boundVars>>

-----------------------------------------------------------------------------
(***************************************************************************)
(* The migration handler: FindActiveLease, PrepareHostnamesForTransfer,    *)
(* then TransferHostname for one hostname after the other.                 *)
(***************************************************************************)

MigrateFind(l, hs) ==
  /\ migration.step = "idle"
  /\ migrations < MaxMigrations
  /\ stage[l] # "none" /\ saved[l] # None
  /\ hs # {} /\ hs \subseteq saved[l]
  /\ migration' = [step |-> "found", lease |-> l, hosts |-> hs]
  /\ migrations' = migrations + 1
  /\ UNCHANGED <<inUse, clusterVars, lease, submitted, managerVars, updates, restarts>>

MigratePrepare ==
  LET l == migration.lease
  IN /\ migration.step = "found"
     /\ IF HeldByOther(inUse, migration.hosts, OwnerOf[l])
        THEN UNCHANGED inUse /\ migration' = NoMigration
        ELSE /\ inUse' = prepareHostnamesImpl(inUse, migration.hosts, hostnameIDFromLeaseID(l))
             /\ migration' = [migration EXCEPT !.step = "prepared"]
     /\ UNCHANGED <<clusterVars, lease, submitted, managerVars, boundVars>>

MigrateTransfer(h) ==
  /\ migration.step = "prepared"
  /\ h \in migration.hosts
  /\ DeclareHostname(migration.lease, h)
  /\ migration' = IF migration.hosts = {h} THEN NoMigration
                                            ELSE [migration EXCEPT !.hosts = @ \ {h}]
  /\ UNCHANGED <<inUse, saved, lease, submitted, managerVars, boundVars>>

\* A transfer fails: the request ends and what is left is not transferred.
MigrateFails ==
  /\ migration.step # "idle"
  /\ migration' = NoMigration
  /\ UNCHANGED <<inUse, clusterVars, lease, submitted, managerVars, boundVars>>

-----------------------------------------------------------------------------
(***************************************************************************)
(* The provider stops and starts again: AllHostnames gives the             *)
(* reservations, Deployments the managers.                                 *)
(***************************************************************************)

\* dm.deployment of the managers that start with the service.
SavedManifests == [l \in Leases |-> IF saved[l] = None THEN {} ELSE saved[l]]

Restart ==
  /\ restarts < MaxRestarts
  /\ restarts' = restarts + 1
  /\ inUse' = [h \in Hosts |->
                 IF declared[h] = None THEN Free ELSE hostnameIDFromLeaseID(declared[h])]
  /\ submitted' = [l \in Leases |-> None]
  /\ stage' = [l \in Leases |-> IF saved[l] = None THEN "none" ELSE "reserve"]
  /\ manifest' = SavedManifests
  /\ pending' = [l \in Leases |-> "none"]
  /\ failed' = [l \in Leases |-> FALSE]
  /\ withheld' = [l \in Leases |-> {}]
  /\ hosts' = [l \in Leases |-> {}]
  /\ drop' = [l \in Leases |-> {}]
  /\ current' = [l \in Leases |-> {}]
  /\ left' = [l \in Leases |-> {}]
  /\ migration' = NoMigration
  /\ UNCHANGED <<clusterVars, lease, updates, migrations>>

-----------------------------------------------------------------------------
Chain == \E l \in Leases : LeaseCreated(l) \/ LeaseClosed(l)

Tenant == \E l \in Leases, hs \in Manifests : SubmitManifest(l, hs)

Manager(l) ==
  \/ ManifestReceived(l) \/ Teardown(l) \/ Reserve(l) \/ Deploy(l) \/ Collect(l)
  \/ DeployFails(l) \/ DeploySucceeds(l)
  \/ \E h \in Hosts : Declare(l, h)
  \/ \E a \in Activities : TeardownActivity(l, a)
  \/ TeardownRetry(l) \/ TeardownDone(l) \/ ManagerDone(l)

Migrate ==
  \/ \E l \in Leases, hs \in Manifests : MigrateFind(l, hs)
  \/ MigratePrepare
  \/ \E h \in Hosts : MigrateTransfer(h)
  \/ MigrateFails

Next == Chain \/ Tenant \/ (\E l \in Leases : Manager(l)) \/ Migrate \/ Restart

Spec == Init /\ [][Next]_vars

-----------------------------------------------------------------------------
(***************************************************************************)
(* Properties.                                                             *)
(***************************************************************************)

\* While the provider runs a hostname never passes from one tenant to another:
\* neither a reservation (reserveHostnamesImpl) nor a migration
\* (prepareHostnamesImpl) takes over a name that is in use.  A restart is left
\* out: it rebuilds the reservations from what is declared.
NoTakeover ==
  [][~Restart => \A h \in Hosts : InUse(inUse, h) /\ InUse(inUse', h) =>
                   inUse'[h].owner = inUse[h].owner]_vars

\* The lease is deployed, and its last deploy succeeded.
Settled(l) == lease[l] = "active" /\ stage[l] = "complete" /\ ~failed[l]

\* A settled lease holds every hostname of its manifest that ReserveHostnames
\* did not withhold from it, whatever updates, teardowns of other leases and
\* restarts came in between, until a migration moves names away on purpose.
HeldWhileDeployed ==
  migrations = 0 =>
    \A l \in Leases : Settled(l) =>
      \A h \in LowerCase(manifest[l]) \ withheld[l] : inUse[h] = hostnameIDFromLeaseID(l)

\* What the cluster declares is held by the same tenant, so no other tenant can
\* reserve a hostname that still routes to a lease, whatever deploys fail and
\* wherever the provider stops.  (An update that races a deploy breaks it.)
DeclaredIsHeld ==
  migrations = 0 /\ updates = 0 =>
    \A h \in Hosts : declared[h] # None =>
      InUse(inUse, h) /\ inUse[h].owner = OwnerOf[declared[h]]

\* "Hostname reservations are held per deployment group, so they are released
\* only when the lease is the last of its group."
ReleasedByLastOfGroup ==
  [][\A l \in Leases : TeardownDone(l) =>
       \A m \in Leases \ {l} : GroupOf[m] = GroupOf[l] => ~Settled(m)]_vars
================================================================================
