-------------------------- MODULE LeaseHostnamesProofs -------------------------
(***************************************************************************)
(* Proofs about LeaseHostnames for any leases, tenants, hostnames and any  *)
(* number of updates, migrations and restarts, and about GatewayRoute,     *)
(* which publishes a hostname in gateway mode, for any number of calls.    *)
(***************************************************************************)
EXTENDS LeaseHostnames, TLAPS

\* The part of the type invariant the proofs use.
StoreOK ==
  /\ inUse \in Stores
  /\ declared \in [Hosts -> Leases \cup {None}]
  /\ migration \in [step : {"idle", "found", "prepared"}, lease : Leases \cup {None},
                    hosts : Manifests]
  /\ migration.step # "idle" => migration.lease \in Leases

LEMMA IDType ==
  ASSUME NEW l \in Leases
  PROVE  /\ hostnameIDFromLeaseID(l) \in HostnameIDs
         /\ hostnameIDFromLeaseID(l).owner = OwnerOf[l]
BY LeaseAssumption DEF hostnameIDFromLeaseID, HostnameIDs

\* What the operators on the store return is a store again.
LEMMA StoreType ==
  ASSUME NEW store \in Stores, NEW hs, NEW id \in HostnameIDs
  PROVE  /\ reserveHostnamesImpl(store, hs, id) \in Stores
         /\ prepareHostnamesImpl(store, hs, id) \in Stores
         /\ releaseHostnamesImpl(store, id) \in Stores
BY DEF Stores, reserveHostnamesImpl, prepareHostnamesImpl, releaseHostnamesImpl

\* No operator hands a name that is in use to another tenant, provided the
\* handlers refuse requests for names of others.
LEMMA StoreKeepsOwner ==
  ASSUME NEW store \in Stores, NEW hs, NEW id \in HostnameIDs,
         NEW h \in Hosts, InUse(store, h)
  PROVE  /\ LET new == reserveHostnamesImpl(store, hs, id)
            IN InUse(new, h) => new[h].owner = store[h].owner
         /\ LET new == prepareHostnamesImpl(store, hs, id)
            IN /\ ~HeldByOther(store, hs, id.owner)
               /\ InUse(new, h)
               => new[h].owner = store[h].owner
         /\ LET new == releaseHostnamesImpl(store, id)
            IN InUse(new, h) => new[h].owner = store[h].owner
<1>1. LET new == reserveHostnamesImpl(store, hs, id)
      IN InUse(new, h) => new[h].owner = store[h].owner
  BY DEF reserveHostnamesImpl, Withheld, InUse
<1>2. LET new == prepareHostnamesImpl(store, hs, id)
      IN /\ ~HeldByOther(store, hs, id.owner)
         /\ InUse(new, h)
         => new[h].owner = store[h].owner
  BY DEF prepareHostnamesImpl, HeldByOther, InUse
<1>3. LET new == releaseHostnamesImpl(store, id)
      IN InUse(new, h) => new[h].owner = store[h].owner
  BY DEF releaseHostnamesImpl, InUse
<1>4. QED
  BY <1>1, <1>2, <1>3

-----------------------------------------------------------------------------
(***************************************************************************)
(* No takeover.                                                            *)
(***************************************************************************)

\* Which steps touch the reservations, and how.
LEMMA StoreSteps ==
  ASSUME StoreOK, [Next]_vars
  PROVE  \/ inUse' = inUse
         \/ \E l \in Leases : \E hs :
              inUse' = reserveHostnamesImpl(inUse, hs, hostnameIDFromLeaseID(l))
         \/ \E l \in Leases : inUse' = releaseHostnamesImpl(inUse, hostnameIDFromLeaseID(l))
         \/ \E l \in Leases : \E hs :
              /\ ~HeldByOther(inUse, hs, OwnerOf[l])
              /\ inUse' = prepareHostnamesImpl(inUse, hs, hostnameIDFromLeaseID(l))
         \/ Restart
<1>1. CASE Chain
  BY <1>1 DEF Chain, LeaseCreated, LeaseClosed
<1>2. CASE Tenant
  BY <1>2 DEF Tenant, SubmitManifest
<1>3. ASSUME NEW l \in Leases, Manager(l)
      PROVE  \/ inUse' = inUse
             \/ \E hs : inUse' = reserveHostnamesImpl(inUse, hs, hostnameIDFromLeaseID(l))
             \/ inUse' = releaseHostnamesImpl(inUse, hostnameIDFromLeaseID(l))
  <2>1. CASE Reserve(l)
    BY <2>1 DEF Reserve
  <2>2. CASE TeardownDone(l)
    BY <2>2 DEF TeardownDone
  <2>3. CASE ~Reserve(l) /\ ~TeardownDone(l)
    BY <1>3, <2>3, Zenon DEF Manager, ManifestReceived, Teardown, Deploy, Collect, DeployFails,
       DeploySucceeds, Declare, TeardownActivity, TeardownRetry, ManagerDone
  <2>4. QED
    BY <2>1, <2>2, <2>3
<1>4. CASE Migrate
  <2>1. CASE MigratePrepare
    BY <2>1 DEF MigratePrepare, StoreOK
  <2>2. CASE ~MigratePrepare
    BY <1>4, <2>2 DEF Migrate, MigrateFind, MigrateTransfer, MigrateFails
  <2>3. QED
    BY <2>1, <2>2
<1>5. CASE UNCHANGED vars
  BY <1>5 DEF vars
<1>6. QED
  BY <1>1, <1>2, <1>3, <1>4, <1>5 DEF Next

\* The reservations stay well formed, and a migration that is being served has
\* the lease FindActiveLease gave it.
THEOREM StoreTyped == Spec => []StoreOK
<1>1. Init => StoreOK
  BY DEF Init, StoreOK, Stores, NoMigration, Manifests
<1>2. StoreOK /\ [Next]_vars => StoreOK'
  <2>1. SUFFICES ASSUME StoreOK, [Next]_vars PROVE StoreOK'
    OBVIOUS
  <2>2. inUse' \in Stores
    <3>1. CASE Restart
      BY <2>1, <3>1, IDType DEF Restart, StoreOK, Stores
    <3>2. CASE ~Restart
      BY <2>1, <3>2, StoreSteps, StoreType, IDType DEF StoreOK
    <3>3. QED
      BY <3>1, <3>2
  <2>3. declared' \in [Hosts -> Leases \cup {None}]
    <3>1. declared \in [Hosts -> Leases \cup {None}]
      BY <2>1 DEF StoreOK
    <3>2. CASE Chain \/ Tenant \/ Restart \/ UNCHANGED vars
      BY <3>1, <3>2 DEF Chain, LeaseCreated, LeaseClosed, Tenant, SubmitManifest, Restart, vars,
         clusterVars
    <3>3. ASSUME NEW l \in Leases, Manager(l)
          PROVE  declared' \in [Hosts -> Leases \cup {None}]
      <4>1. CASE DeployFails(l) \/ DeploySucceeds(l) \/ (\E h \in Hosts : Declare(l, h))
                   \/ (\E a \in Activities : TeardownActivity(l, a))
        BY <3>1, <4>1, Zenon DEF DeployFails, DeploySucceeds, Declare, DeclareHostname,
           TeardownActivity, PurgeAll
      <4>2. CASE ManifestReceived(l) \/ Teardown(l) \/ Reserve(l) \/ Deploy(l) \/ Collect(l)
                   \/ TeardownRetry(l) \/ TeardownDone(l) \/ ManagerDone(l)
        BY <3>1, <4>2, Zenon DEF ManifestReceived, Teardown, Reserve, Deploy, Collect, TeardownRetry,
           TeardownDone, ManagerDone, clusterVars
      <4>3. QED
        BY <3>3, <4>1, <4>2 DEF Manager
    <3>4. CASE Migrate
      BY <2>1, <3>1, <3>4 DEF Migrate, MigrateFind, MigratePrepare, MigrateTransfer, MigrateFails,
         DeclareHostname, clusterVars, StoreOK
    <3>5. QED
      BY <2>1, <3>2, <3>3, <3>4 DEF Next
  <2>4. /\ migration' \in [step : {"idle", "found", "prepared"}, lease : Leases \cup {None},
                           hosts : Manifests]
        /\ migration'.step # "idle" => migration'.lease \in Leases
    <3>1. CASE Chain \/ Tenant \/ Restart \/ UNCHANGED vars
      BY <2>1, <3>1 DEF Chain, LeaseCreated, LeaseClosed, Tenant, SubmitManifest, Restart, vars,
         StoreOK, NoMigration, Manifests
    <3>2. ASSUME NEW l \in Leases, Manager(l)
          PROVE  migration' = migration
      BY <3>2, Zenon DEF Manager, ManifestReceived, Teardown, Reserve, Deploy, Collect, DeployFails,
         DeploySucceeds, Declare, TeardownActivity, TeardownRetry, TeardownDone, ManagerDone
    <3>3. CASE Migrate
      BY <2>1, <3>3 DEF Migrate, MigrateFind, MigratePrepare, MigrateTransfer, MigrateFails,
         StoreOK, NoMigration, Manifests
    <3>4. QED
      BY <2>1, <3>1, <3>2, <3>3 DEF Next, StoreOK
  <2>5. QED
    BY <2>2, <2>3, <2>4 DEF StoreOK
<1>3. QED
  BY <1>1, <1>2, PTL DEF Spec

\* While the provider runs no hostname that is held passes to another tenant
\* (reserveHostnamesImpl, prepareHostnamesImpl, releaseHostnamesImpl).
THEOREM NoTakeoverEver == Spec => NoTakeover
<1>1. ASSUME StoreOK, [Next]_vars, ~Restart, NEW h \in Hosts, InUse(inUse, h), InUse(inUse', h)
      PROVE  inUse'[h].owner = inUse[h].owner
  <2> DEFINE ID(l) == hostnameIDFromLeaseID(l)
  <2>1. \A l \in Leases : ID(l) \in HostnameIDs /\ ID(l).owner = OwnerOf[l]
    BY IDType
  <2>2. inUse \in Stores
    BY <1>1 DEF StoreOK
  <2>3. ASSUME NEW l \in Leases, NEW hs, inUse' = reserveHostnamesImpl(inUse, hs, ID(l))
        PROVE  inUse'[h].owner = inUse[h].owner
    BY <1>1, <2>1, <2>2, <2>3, StoreKeepsOwner
  <2>4. ASSUME NEW l \in Leases, inUse' = releaseHostnamesImpl(inUse, ID(l))
        PROVE  inUse'[h].owner = inUse[h].owner
    BY <1>1, <2>1, <2>2, <2>4, StoreKeepsOwner
  <2>5. ASSUME NEW l \in Leases, NEW hs, ~HeldByOther(inUse, hs, OwnerOf[l]),
               inUse' = prepareHostnamesImpl(inUse, hs, ID(l))
        PROVE  inUse'[h].owner = inUse[h].owner
    BY <1>1, <2>1, <2>2, <2>5, StoreKeepsOwner
  <2>6. QED
    BY <1>1, <2>3, <2>4, <2>5, StoreSteps, Zenon
<1>2. StoreOK /\ [Next]_vars =>
        [~Restart => \A h \in Hosts : InUse(inUse, h) /\ InUse(inUse', h) =>
                       inUse'[h].owner = inUse[h].owner]_vars
  BY <1>1
<1>3. QED
  BY <1>2, StoreTyped, PTL DEF Spec, NoTakeover

-----------------------------------------------------------------------------
(***************************************************************************)
(* What a deployed lease holds until a migration is asked for, when the    *)
(* leases are of distinct groups.                                          *)
(***************************************************************************)

Settings == \A l, m \in Leases : GroupOf[l] = GroupOf[m] => l = m

Held(l) ==
  \A h \in LowerCase(manifest[l]) \ withheld[l] : inUse[h] = hostnameIDFromLeaseID(l)

\* From the reservation on, until another manifest arrives.
Reserved(l) ==
  \/ stage[l] \in {"deploy", "collect", "declare"} /\ pending[l] = "none"
  \/ stage[l] = "complete" /\ ~failed[l]

HoldInv == migrations = 0 => \A l \in Leases : Reserved(l) => Held(l)

Total(f) == f = [l \in Leases |-> f[l]]

ManagersOK ==
  /\ Total(stage) /\ Total(pending) /\ Total(failed) /\ Total(manifest) /\ Total(withheld)
  /\ manifest \in [Leases -> Manifests]
  /\ submitted \in [Leases -> Manifests \cup {None}]
  /\ saved \in [Leases -> Manifests \cup {None}]

\* The handler serves nothing before the first request.
NotMigrating == migrations \in Nat /\ (migrations = 0 => migration = NoMigration)

LEMMA LowerType ==
  ASSUME NEW hs \in Manifests
  PROVE  LowerCase(hs) \in Manifests
BY LowerAssumption DEF LowerCase, Manifests

\* A reservation gives a lease all it asked for and is not withheld, and takes
\* nothing from another ID.
LEMMA ReserveHolds ==
  ASSUME NEW store \in Stores, NEW hs \in Manifests, NEW id, NEW h \in Hosts
  PROVE  /\ h \in hs \ Withheld(store, hs, id) => reserveHostnamesImpl(store, hs, id)[h] = id
         /\ store[h] # Free /\ store[h] # id
              => reserveHostnamesImpl(store, hs, id)[h] = store[h]
         /\ store[h] # id => releaseHostnamesImpl(store, id)[h] = store[h]
BY DEF reserveHostnamesImpl, releaseHostnamesImpl, Withheld, InUse

LEMMA DistinctIDs ==
  ASSUME Settings, NEW l \in Leases, NEW m \in Leases, l # m
  PROVE  hostnameIDFromLeaseID(l) # hostnameIDFromLeaseID(m)
BY DEF Settings, hostnameIDFromLeaseID

LEMMA ManagersTyped == Spec => []ManagersOK
<1>1. Init => ManagersOK
  BY DEF Init, ManagersOK, Total, Manifests
<1>2. ManagersOK /\ [Next]_vars => ManagersOK'
  <2>1. SUFFICES ASSUME ManagersOK, [Next]_vars PROVE ManagersOK'
    OBVIOUS
  <2>2. CASE Chain \/ Tenant
    BY <2>1, <2>2 DEF Chain, LeaseCreated, LeaseClosed, Tenant, SubmitManifest, ManagersOK, Total,
       clusterVars, managerVars
  <2>3. ASSUME NEW l \in Leases, Manager(l)
        PROVE  ManagersOK'
    <3>1. CASE ManifestReceived(l)
      BY <2>1, <3>1 DEF ManifestReceived, startDeploy, ManagersOK, Total, clusterVars
    <3>2. CASE Teardown(l)
      BY <2>1, <3>2 DEF Teardown, startTeardown, ManagersOK, Total, clusterVars
    <3>3. CASE Reserve(l)
      BY <2>1, <3>3 DEF Reserve, startTeardown, ManagersOK, Total, clusterVars
    <3>4. CASE Deploy(l) \/ Collect(l) \/ (\E h \in Hosts : Declare(l, h))
      BY <2>1, <3>4 DEF Deploy, Collect, Declare, ManagersOK, Total, clusterVars
    <3>5. CASE DeployFails(l)
      BY <2>1, <3>5 DEF DeployFails, DeployResult, startDeploy, startTeardown, ManagersOK, Total
    <3>6. CASE DeploySucceeds(l)
      BY <2>1, <3>6 DEF DeploySucceeds, DeployResult, startDeploy, startTeardown, ManagersOK, Total
    <3>7. CASE \/ \E a \in Activities : TeardownActivity(l, a)
               \/ TeardownRetry(l) \/ TeardownDone(l)
      BY <2>1, <3>7 DEF TeardownActivity, TeardownRetry, TeardownDone, ManagersOK, Total,
         clusterVars
    <3>8. CASE ManagerDone(l)
      BY <2>1, <3>8, Zenon DEF ManagerDone, ManagersOK, Total, clusterVars, Manifests
    <3>9. QED
      BY <2>3, <3>1, <3>2, <3>3, <3>4, <3>5, <3>6, <3>7, <3>8 DEF Manager
  <2>4. CASE Migrate
    BY <2>1, <2>4 DEF Migrate, MigrateFind, MigratePrepare, MigrateTransfer, MigrateFails,
       ManagersOK, Total, clusterVars, managerVars
  <2>5. CASE Restart
    BY <2>1, <2>5, NoneAssumption DEF Restart, SavedManifests, ManagersOK, Total, clusterVars,
       Manifests
  <2>6. CASE UNCHANGED vars
    BY <2>1, <2>6 DEF vars, ManagersOK, Total, clusterVars, managerVars
  <2>7. QED
    BY <2>1, <2>2, <2>3, <2>4, <2>5, <2>6 DEF Next
<1>3. QED
  BY <1>1, <1>2, PTL DEF Spec

LEMMA NoMigrationBefore ==
  ASSUME NotMigrating, [Next]_vars, migrations' = 0
  PROVE  migrations = 0 /\ ~Migrate
<1>1. ~Migrate
  BY DEF Migrate, MigrateFind, MigratePrepare, MigrateTransfer, MigrateFails, boundVars,
     NotMigrating, NoMigration
<1>2. ASSUME NEW l \in Leases, Manager(l)
      PROVE  migrations' = migrations
  BY <1>2, Zenon DEF Manager, ManifestReceived, Teardown, Reserve, Deploy, Collect, DeployFails,
     DeploySucceeds, Declare, TeardownActivity, TeardownRetry, TeardownDone, ManagerDone,
     boundVars
<1>3. CASE Chain \/ Tenant \/ Restart \/ UNCHANGED vars
  BY <1>1, <1>3, Zenon DEF Chain, LeaseCreated, LeaseClosed, Tenant, SubmitManifest, Restart, vars,
     boundVars
<1>4. QED
  BY <1>1, <1>2, <1>3, Zenon DEF Next

LEMMA NoMigrations == Spec => []NotMigrating
<1>1. Init => NotMigrating
  BY DEF Init, NotMigrating
<1>2. NotMigrating /\ [Next]_vars => NotMigrating'
  <2>1. SUFFICES ASSUME NotMigrating, [Next]_vars PROVE NotMigrating'
    OBVIOUS
  <2>2. CASE Chain \/ Tenant \/ Restart \/ UNCHANGED vars
    BY <2>1, <2>2, Zenon DEF Chain, LeaseCreated, LeaseClosed, Tenant, SubmitManifest, Restart, vars,
       boundVars, NotMigrating
  <2>3. ASSUME NEW l \in Leases, Manager(l)
        PROVE  UNCHANGED <<migration, migrations>>
    BY <2>3, Zenon DEF Manager, ManifestReceived, Teardown, Reserve, Deploy, Collect, DeployFails,
       DeploySucceeds, Declare, TeardownActivity, TeardownRetry, TeardownDone, ManagerDone,
       boundVars
  <2>4. CASE Migrate
    BY <2>1, <2>4 DEF Migrate, MigrateFind, MigratePrepare, MigrateTransfer, MigrateFails,
       NotMigrating, NoMigration, boundVars
  <2>5. QED
    BY <2>1, <2>2, <2>3, <2>4 DEF Next, NotMigrating
<1>3. QED
  BY <1>1, <1>2, PTL DEF Spec

\* What a step of one manager leaves alone.
LEMMA OtherManagers ==
  ASSUME Settings, StoreOK, ManagersOK,
         NEW l \in Leases, Manager(l), NEW m \in Leases, m # l
  PROVE  /\ stage'[m] = stage[m] /\ pending'[m] = pending[m] /\ failed'[m] = failed[m]
         /\ manifest'[m] = manifest[m] /\ withheld'[m] = withheld[m]
         /\ \A h \in Hosts : inUse[h] = hostnameIDFromLeaseID(m) => inUse'[h] = inUse[h]
<1>1. /\ stage'[m] = stage[m] /\ pending'[m] = pending[m] /\ failed'[m] = failed[m]
      /\ manifest'[m] = manifest[m] /\ withheld'[m] = withheld[m]
  <2>1. CASE ManifestReceived(l) \/ Teardown(l)
    BY <2>1 DEF ManifestReceived, Teardown, startDeploy, startTeardown, ManagersOK, Total
  <2>2. CASE DeployFails(l) \/ DeploySucceeds(l)
    BY <2>2 DEF DeployFails, DeploySucceeds, DeployResult, startDeploy, startTeardown, ManagersOK,
       Total
  <2>3. CASE \/ Deploy(l) \/ Collect(l) \/ (\E h \in Hosts : Declare(l, h))
             \/ \E a \in Activities : TeardownActivity(l, a)
             \/ TeardownRetry(l) \/ TeardownDone(l) \/ ManagerDone(l)
    BY <2>3, Zenon DEF Deploy, Collect, Declare, TeardownActivity, TeardownRetry, TeardownDone,
       ManagerDone, ManagersOK, Total
  <2>4. CASE Reserve(l)
    BY <2>4, Zenon DEF Reserve, startTeardown, ManagersOK, Total
  <2>5. QED
    BY <2>1, <2>2, <2>3, <2>4, Zenon DEF Manager
<1>2. ASSUME NEW h \in Hosts, inUse[h] = hostnameIDFromLeaseID(m)
      PROVE  inUse'[h] = inUse[h]
  <2>1. inUse \in Stores /\ inUse[h] # Free /\ inUse[h] # hostnameIDFromLeaseID(l)
    BY <1>2, IDType, DistinctIDs, FreeAssumption DEF StoreOK
  <2>2. CASE Reserve(l)
    <3>1. LowerCase(manifest[l]) \in Manifests
      BY LowerType DEF ManagersOK
    <3>2. \/ inUse' = inUse
          \/ inUse' = reserveHostnamesImpl(inUse, LowerCase(manifest[l]), hostnameIDFromLeaseID(l))
      BY <2>2, Zenon DEF Reserve
    <3>3. QED
      BY <2>1, <3>1, <3>2, ReserveHolds
  <2>3. CASE TeardownDone(l)
    BY <2>1, <2>3, Zenon DEF TeardownDone, releaseHostnamesImpl
  <2>4. CASE ~Reserve(l) /\ ~TeardownDone(l)
    BY <2>4, Zenon DEF Manager, ManifestReceived, Teardown, Deploy, Collect, DeployFails,
       DeploySucceeds, Declare, TeardownActivity, TeardownRetry, ManagerDone
  <2>5. QED
    BY <2>2, <2>3, <2>4, Zenon
<1>3. QED
  BY <1>1, <1>2, Zenon

\* A settled lease holds every hostname of its manifest that was not withheld,
\* for any number of leases, tenants, hostnames, updates and restarts.
THEOREM DeployedHoldsItsNames ==
  ASSUME Settings
  PROVE  Spec => []HeldWhileDeployed
<1>1. Init => HoldInv
  BY DEF Init, HoldInv, Reserved
<1>2. StoreOK /\ ManagersOK /\ NotMigrating /\ HoldInv /\ [Next]_vars => HoldInv'
  <2> SUFFICES ASSUME StoreOK, ManagersOK, NotMigrating, HoldInv, [Next]_vars, migrations' = 0,
                      NEW l \in Leases, Reserved(l)'
               PROVE  Held(l)'
    BY DEF HoldInv
  <2>1. /\ migrations = 0 /\ ~Migrate /\ StoreOK /\ ManagersOK /\ HoldInv
        /\ [Next]_vars /\ Reserved(l)'
    BY NoMigrationBefore
  <2>2. CASE Chain \/ Tenant \/ UNCHANGED vars
    BY <2>1, <2>2, Zenon DEF Chain, LeaseCreated, LeaseClosed, Tenant, SubmitManifest, vars, managerVars,
       HoldInv, Reserved, Held
  <2>3. ASSUME Manager(l)
        PROVE  Held(l)'
    <3>1. CASE ManifestReceived(l)
      BY <2>1, <3>1 DEF ManifestReceived, startDeploy, ManagersOK, Total, Reserved, Deploying
    <3>2. CASE Teardown(l)
      BY <2>1, <3>2 DEF Teardown, startTeardown, ManagersOK, Total, Reserved, Deploying
    <3>3. CASE Reserve(l)
      <4>1. CASE lease[l] = "closed" /\ startTeardown(l)
        BY <2>1, <4>1 DEF startTeardown, ManagersOK, Total, Reserved
      <4>2. CASE ~(lease[l] = "closed" /\ startTeardown(l))
        <5> DEFINE hs == LowerCase(manifest[l])
                   id == hostnameIDFromLeaseID(l)
        <5>1. /\ inUse' = reserveHostnamesImpl(inUse, hs, id)
              /\ withheld'[l] = Withheld(inUse, hs, id)
              /\ manifest'[l] = manifest[l]
          BY <2>1, <3>3, <4>2 DEF Reserve, ManagersOK, Total
        <5>2. hs \in Manifests
          BY <2>1, LowerType DEF ManagersOK
        <5>3. QED
          BY <2>1, <5>1, <5>2, ReserveHolds DEF Held, StoreOK, Manifests
      <4>3. QED
        BY <4>1, <4>2
    <3>4. CASE DeployFails(l) \/ DeploySucceeds(l)
      BY <2>1, <3>4 DEF DeployFails, DeploySucceeds, DeployResult, startDeploy, startTeardown,
         ManagersOK, Total, Reserved, Held, HoldInv, Deploying
    <3>5. CASE Deploy(l) \/ Collect(l) \/ (\E h \in Hosts : Declare(l, h))
      BY <2>1, <3>5 DEF Deploy, Collect, Declare, ManagersOK, Total, Reserved, Held, HoldInv
    <3>6. CASE \/ \E a \in Activities : TeardownActivity(l, a)
               \/ TeardownRetry(l) \/ TeardownDone(l) \/ ManagerDone(l)
      BY <2>1, <3>6, Zenon DEF TeardownActivity, TeardownRetry, TeardownDone, ManagerDone, ManagersOK,
         Total, Reserved
    <3>7. QED
      BY <2>3, <3>1, <3>2, <3>3, <3>4, <3>5, <3>6 DEF Manager
  <2>4. ASSUME NEW m \in Leases, Manager(m), m # l
        PROVE  Held(l)'
    <3>1. Reserved(l) /\ manifest'[l] = manifest[l] /\ withheld'[l] = withheld[l]
      <4>1. /\ stage'[l] = stage[l] /\ pending'[l] = pending[l] /\ failed'[l] = failed[l]
            /\ manifest'[l] = manifest[l] /\ withheld'[l] = withheld[l]
        BY <2>1, <2>4, OtherManagers, Zenon
      <4>2. QED
        BY <2>1, <4>1, Zenon DEF Reserved
    <3>2. Held(l) /\ LowerCase(manifest[l]) \subseteq Hosts
      BY <2>1, <3>1, LowerType DEF HoldInv, ManagersOK, Manifests
    <3>3. \A h \in Hosts : inUse[h] = hostnameIDFromLeaseID(l) => inUse'[h] = inUse[h]
      BY <2>1, <2>4, OtherManagers, Zenon
    <3>4. QED
      BY <3>1, <3>2, <3>3, Zenon DEF Held
  <2>5. CASE Restart
    BY <2>1, <2>5 DEF Restart, Reserved
  <2>6. QED
    BY <2>1, <2>2, <2>3, <2>4, <2>5 DEF Next
<1>3. HoldInv => HeldWhileDeployed
  BY DEF HoldInv, HeldWhileDeployed, Settled, Reserved, Held
<1>4. QED
  BY <1>1, <1>2, <1>3, StoreTyped, ManagersTyped, NoMigrations, PTL DEF Spec

-----------------------------------------------------------------------------
(***************************************************************************)
(* Type correctness.                                                       *)
(***************************************************************************)

\* What StoreOK and ManagersOK leave open.
RestOK ==
  /\ lease \in [Leases -> {"none", "active", "closed"}]
  /\ stage \in [Leases -> Stages]
  /\ pending \in [Leases -> {"none", "deploy", "teardown"}]
  /\ failed \in [Leases -> BOOLEAN]
  /\ withheld \in [Leases -> Manifests]
  /\ hosts \in [Leases -> Manifests]
  /\ drop \in [Leases -> Manifests]
  /\ current \in [Leases -> Manifests]
  /\ left \in [Leases -> SUBSET Activities]
  /\ updates \in 0..MaxUpdates
  /\ migrations \in 0..MaxMigrations
  /\ restarts \in 0..MaxRestarts

LEMMA WithheldType ==
  ASSUME NEW hs \in Manifests, NEW id
  PROVE  Withheld(inUse, LowerCase(hs), id) \in Manifests
BY LowerType DEF Withheld, Manifests

LEMMA RestStep == ManagersOK /\ RestOK /\ [Next]_vars => RestOK'
<1> SUFFICES ASSUME ManagersOK, RestOK, [Next]_vars PROVE RestOK'
  OBVIOUS
<1> USE BoundsAssumption DEF RestOK, boundVars, managerVars
<1>1. CASE Chain \/ Tenant
  <2>1. CASE Chain
    BY <2>1 DEF Chain, LeaseCreated, LeaseClosed
  <2>2. ASSUME NEW l \in Leases, NEW hs \in Manifests, SubmitManifest(l, hs) PROVE RestOK'
    <3>1. updates' \in 0..MaxUpdates
      BY <2>2 DEF SubmitManifest
    <3>2. QED
      BY <2>2, <3>1, Zenon DEF SubmitManifest
  <2>3. QED
    BY <1>1, <2>1, <2>2 DEF Tenant
<1>2. ASSUME NEW l \in Leases, ManifestReceived(l) PROVE RestOK'
  BY <1>2 DEF ManifestReceived, startDeploy, Manifests, Stages, Deploying
<1>3. ASSUME NEW l \in Leases, Teardown(l) PROVE RestOK'
  BY <1>3 DEF Teardown, startTeardown, Manifests, Stages
<1>4. ASSUME NEW l \in Leases, Reserve(l) PROVE RestOK'
  <2>1. CASE startTeardown(l) /\ UNCHANGED withheld
    BY <1>4, <2>1, Zenon DEF Reserve, startTeardown, Manifests, Stages
  <2>2. CASE /\ withheld' = [withheld EXCEPT ![l] =
                               Withheld(inUse, LowerCase(manifest[l]), hostnameIDFromLeaseID(l))]
             /\ drop' = [drop EXCEPT ![l] = current[l] \ manifest[l]]
             /\ stage' = [stage EXCEPT ![l] = "deploy"]
             /\ UNCHANGED <<pending, left>>
    <3>1. withheld' \in [Leases -> Manifests]
      BY <2>2, WithheldType, Zenon DEF ManagersOK
    <3>2. drop' \in [Leases -> Manifests]
      BY <2>2, Zenon DEF Manifests
    <3>3. QED
      BY <1>4, <2>2, <3>1, <3>2, Zenon DEF Reserve, Stages, Deploying
  <2>3. QED
    BY <1>4, <2>1, <2>2, Zenon DEF Reserve
<1>5. ASSUME NEW l \in Leases, Deploy(l) PROVE RestOK'
  BY <1>5 DEF Deploy, Stages, Deploying
<1>6. ASSUME NEW l \in Leases, Collect(l) PROVE RestOK'
  <2>1. manifest[l] \ withheld[l] \in Manifests
    BY Zenon DEF ManagersOK, Manifests
  <2>2. QED
    BY <1>6, <2>1, Zenon DEF Collect, Stages, Deploying
<1>7. ASSUME NEW l \in Leases, NEW h \in Hosts, Declare(l, h) PROVE RestOK'
  BY <1>7, Zenon DEF Declare, Manifests
<1>8. ASSUME NEW l \in Leases, DeployFails(l) \/ DeploySucceeds(l) PROVE RestOK'
  <2>1. PICK r \in BOOLEAN : DeployResult(l, r)
    BY <1>8, Zenon DEF DeployFails, DeploySucceeds
  <2>2. UNCHANGED <<lease, withheld, current, boundVars>>
    BY <1>8, Zenon DEF DeployFails, DeploySucceeds
  <2>3. QED
    BY <2>1, <2>2 DEF DeployResult, startDeploy, startTeardown, Manifests, Stages, Deploying
<1>9. ASSUME NEW l \in Leases,
             (\E a \in Activities : TeardownActivity(l, a)) \/ TeardownRetry(l) \/ TeardownDone(l)
      PROVE  RestOK'
  BY <1>9 DEF TeardownActivity, TeardownRetry, TeardownDone, Stages
<1>10. ASSUME NEW l \in Leases, ManagerDone(l) PROVE RestOK'
  BY <1>10, Zenon DEF ManagerDone, Stages, Manifests
<1>11. CASE Migrate
  BY <1>11 DEF Migrate, MigrateFind, MigratePrepare, MigrateTransfer, MigrateFails
<1>12. CASE Restart
  <2>1. stage' \in [Leases -> Stages]
    <3>1. stage' = [l \in Leases |-> IF saved[l] = None THEN "none" ELSE "reserve"]
      BY <1>12, Zenon DEF Restart
    <3>2. QED
      BY <3>1, Zenon DEF Stages, Deploying
  <2>2. /\ withheld' \in [Leases -> Manifests] /\ hosts' \in [Leases -> Manifests]
        /\ drop' \in [Leases -> Manifests] /\ current' \in [Leases -> Manifests]
    BY <1>12, Zenon DEF Restart, Manifests
  <2>3. /\ pending' \in [Leases -> {"none", "deploy", "teardown"}]
        /\ failed' \in [Leases -> BOOLEAN]
        /\ left' \in [Leases -> SUBSET Activities]
    BY <1>12, Zenon DEF Restart
  <2>4. restarts' \in 0..MaxRestarts
    <3>1. restarts < MaxRestarts /\ restarts' = restarts + 1
      BY <1>12, Zenon DEF Restart
    <3>2. QED
      BY <3>1
  <2>5. QED
    BY <1>12, <2>1, <2>2, <2>3, <2>4, Zenon DEF Restart
<1>13. CASE UNCHANGED vars
  BY <1>13, Zenon DEF vars
<1>14. QED
  BY <1>1, <1>2, <1>3, <1>4, <1>5, <1>6, <1>7, <1>8, <1>9, <1>10, <1>11, <1>12, <1>13, Zenon
     DEF Next, Manager

\* Type correctness of the hostname service and everything that calls it.
THEOREM HostnamesTypeCorrect == Spec => []TypeOK
<1>1. Init => RestOK
  BY BoundsAssumption DEF Init, RestOK, Stages, Manifests
<1>2. StoreOK /\ ManagersOK /\ RestOK => TypeOK
  BY Zenon DEF StoreOK, ManagersOK, RestOK, TypeOK
<1>3. QED
  BY <1>1, <1>2, RestStep, StoreTyped, ManagersTyped, PTL DEF Spec

-----------------------------------------------------------------------------
(***************************************************************************)
(* What is declared is held, until a manifest is replaced or a migration   *)
(* is asked for, when the leases are of distinct groups.                   *)
(***************************************************************************)

\* What a manager knows of the manifest it deploys.  A manifest that is on its
\* way finds neither a manager nor a workload, so that the saved manifest is
\* the one that is deployed.
RoutedLease(l) ==
  /\ submitted[l] # None => stage[l] = "none" /\ saved[l] = None
  /\ stage[l] \in {"teardown", "done"} \/ pending[l] = "teardown" => lease[l] = "closed"
  /\ stage[l] \in Deploying \cup {"complete"} => saved[l] \in {None, manifest[l]}
  /\ stage[l] \in {"collect", "declare"} => saved[l] = manifest[l]
  /\ stage[l] \in {"deploy", "collect", "declare"} =>
       \A h \in manifest[l] \ withheld[l] : Lower[h] = h => inUse[h] = hostnameIDFromLeaseID(l)
  /\ stage[l] = "declare" => hosts[l] \subseteq manifest[l] \ withheld[l]

\* A declared name is held by the lease it is declared for, is still to be
\* purged by the teardown of that lease, and is in the manifest that a restart
\* deploys again.
RoutedTo(h, l) ==
  /\ inUse[h] = hostnameIDFromLeaseID(l) /\ Lower[h] = h
  /\ stage[l] # "done" /\ (stage[l] = "teardown" => "hostnames" \in left[l])
  /\ lease[l] # "closed" => saved[l] # None /\ h \in saved[l]

Routed ==
  /\ \A l \in Leases : RoutedLease(l)
  /\ \A h \in Hosts : declared[h] # None => RoutedTo(h, declared[h])

Quiet == migrations = 0 /\ updates = 0

RoutedInv == Quiet => Routed


\* What a step of a manager leaves alone of another lease.
LEMMA OtherLeases ==
  ASSUME ManagersOK, RestOK, NEW l \in Leases, Manager(l), NEW m \in Leases, m # l
  PROVE  /\ submitted'[m] = submitted[m] /\ saved'[m] = saved[m] /\ lease' = lease
         /\ hosts'[m] = hosts[m] /\ left'[m] = left[m]
<1> USE DEF ManagersOK, RestOK
<1>1. CASE ManifestReceived(l) \/ Teardown(l) \/ Reserve(l)
  BY <1>1 DEF ManifestReceived, Teardown, Reserve, startTeardown, clusterVars
<1>2. CASE DeployFails(l) \/ DeploySucceeds(l)
  BY <1>2 DEF DeployFails, DeploySucceeds, DeployResult, startTeardown
<1>3. CASE Deploy(l) \/ Collect(l) \/ (\E h \in Hosts : Declare(l, h))
  BY <1>3 DEF Deploy, Collect, Declare, clusterVars
<1>4. CASE \/ \E a \in Activities : TeardownActivity(l, a)
           \/ TeardownRetry(l) \/ TeardownDone(l) \/ ManagerDone(l)
  BY <1>4 DEF TeardownActivity, TeardownRetry, TeardownDone, ManagerDone, clusterVars
<1>5. QED
  BY <1>1, <1>2, <1>3, <1>4, Zenon DEF Manager

LEMMA OtherStaysRouted ==
  ASSUME Settings, StoreOK, ManagersOK, RestOK, NEW l \in Leases, Manager(l),
         NEW m \in Leases, m # l
  PROVE  /\ RoutedLease(m) => RoutedLease(m)'
         /\ \A h \in Hosts : RoutedTo(h, m) => RoutedTo(h, m)'
<1>1. /\ stage'[m] = stage[m] /\ pending'[m] = pending[m]
      /\ manifest'[m] = manifest[m] /\ withheld'[m] = withheld[m]
      /\ \A h \in Hosts : inUse[h] = hostnameIDFromLeaseID(m) => inUse'[h] = inUse[h]
  BY OtherManagers, Zenon
<1>2. /\ submitted'[m] = submitted[m] /\ saved'[m] = saved[m] /\ lease' = lease
      /\ hosts'[m] = hosts[m] /\ left'[m] = left[m]
  BY OtherLeases, Zenon
<1>3. manifest[m] \subseteq Hosts
  BY DEF ManagersOK, Manifests
<1>4. RoutedLease(m) => RoutedLease(m)'
  BY <1>1, <1>2, <1>3, Zenon DEF RoutedLease
<1>5. ASSUME NEW h \in Hosts, RoutedTo(h, m) PROVE RoutedTo(h, m)'
  BY <1>1, <1>2, <1>5, Zenon DEF RoutedTo
<1>6. QED
  BY <1>4, <1>5

\* The lease of the manager that takes the step: what it declared stays held.
\* A name the step does not declare stays with its lease or is purged.
OwnStaysRouted(l) ==
  /\ RoutedLease(l)'
  /\ \A h \in Hosts : declared'[h] = l => RoutedTo(h, l)'
  /\ \A h \in Hosts : declared'[h] \in {declared[h], l, None}

LEMMA ReceivedStaysRouted ==
  ASSUME StoreOK, ManagersOK, RestOK, Routed, NEW l \in Leases, ManifestReceived(l)
  PROVE  OwnStaysRouted(l)
<1> USE DEF ManagersOK, RestOK
<1>1. RoutedLease(l) /\ stage[l] = "none" /\ saved[l] = None /\ submitted[l] # None
  BY DEF Routed, RoutedLease, ManifestReceived
<1>2. /\ stage'[l] = "reserve" /\ pending'[l] = "none" /\ submitted'[l] = None
      /\ inUse' = inUse /\ declared' = declared /\ saved' = saved /\ lease' = lease
  BY <1>1 DEF ManifestReceived, startDeploy, clusterVars, Deploying
<1>3. RoutedLease(l)'
  BY <1>1, <1>2 DEF RoutedLease, Deploying
<1>4. ASSUME NEW h \in Hosts, declared'[h] = l PROVE RoutedTo(h, l)'
  <2>1. RoutedTo(h, l)
    BY <1>2, <1>4, NoneAssumption DEF Routed
  <2> QED BY <1>2, <2>1 DEF RoutedTo
<1> QED BY <1>2, <1>3, <1>4 DEF OwnStaysRouted

LEMMA TeardownStaysRouted ==
  ASSUME StoreOK, ManagersOK, RestOK, Routed, NEW l \in Leases, Teardown(l)
  PROVE  OwnStaysRouted(l)
<1> USE DEF ManagersOK, RestOK
<1>1. RoutedLease(l) /\ lease[l] = "closed"
  BY DEF Routed, Teardown
<1>2. /\ inUse' = inUse /\ declared' = declared /\ saved' = saved /\ lease' = lease
      /\ submitted' = submitted /\ manifest' = manifest /\ withheld' = withheld /\ hosts' = hosts
  BY DEF Teardown, clusterVars
<1>3. \/ stage'[l] = stage[l] /\ stage[l] \in Deploying
      \/ stage'[l] = "teardown" /\ left'[l] = Activities /\ stage[l] = "complete"
  BY DEF Teardown, startTeardown
<1>4. RoutedLease(l)'
  BY <1>1, <1>2, <1>3 DEF RoutedLease, Deploying
<1>5. ASSUME NEW h \in Hosts, declared'[h] = l PROVE RoutedTo(h, l)'
  <2>1. RoutedTo(h, l)
    BY <1>2, <1>5, NoneAssumption DEF Routed
  <2> QED BY <1>2, <1>3, <2>1 DEF RoutedTo, Deploying, Activities
<1> QED BY <1>2, <1>4, <1>5 DEF OwnStaysRouted

\* ReserveHostnames gives up only names that are not in the manifest any more.
LEMMA ReserveStaysRouted ==
  ASSUME StoreOK, ManagersOK, RestOK, Routed, NEW l \in Leases, Reserve(l)
  PROVE  OwnStaysRouted(l)
<1> USE DEF ManagersOK, RestOK
<1> DEFINE hs == LowerCase(manifest[l])
           id == hostnameIDFromLeaseID(l)
<1>1. RoutedLease(l) /\ stage[l] = "reserve"
  BY DEF Routed, Reserve
<1>2. /\ declared' = declared /\ saved' = saved /\ lease' = lease /\ submitted' = submitted
      /\ manifest' = manifest /\ hosts' = hosts
  BY Zenon DEF Reserve, clusterVars
<1>3. CASE lease[l] = "closed" /\ startTeardown(l) /\ UNCHANGED <<inUse, withheld>>
  <2>1. stage'[l] = "teardown" /\ left'[l] = Activities /\ pending'[l] = "none" /\ inUse' = inUse
    BY <1>3 DEF startTeardown
  <2>2. RoutedLease(l)'
    BY <1>1, <1>2, <1>3, <2>1 DEF RoutedLease, Deploying
  <2>3. ASSUME NEW h \in Hosts, declared'[h] = l PROVE RoutedTo(h, l)'
    <3>1. RoutedTo(h, l)
      BY <1>2, <2>3, NoneAssumption DEF Routed
    <3> QED BY <1>2, <2>1, <3>1 DEF RoutedTo, Activities
  <2> QED BY <1>2, <2>2, <2>3 DEF OwnStaysRouted
<1>4. CASE /\ lease[l] = "active" /\ inUse' = reserveHostnamesImpl(inUse, hs, id)
           /\ withheld' = [withheld EXCEPT ![l] = Withheld(inUse, hs, id)]
           /\ stage' = [stage EXCEPT ![l] = "deploy"]
           /\ UNCHANGED <<pending, left>>
  <2>1. /\ inUse \in Stores /\ hs \in Manifests
        /\ withheld'[l] = Withheld(inUse, hs, id)
        /\ stage'[l] = "deploy" /\ pending' = pending /\ left' = left
    BY <1>4, LowerType DEF StoreOK
  <2>2. \A h \in Hosts : h \in hs \ Withheld(inUse, hs, id) => inUse'[h] = id
    <3>1. \A h \in Hosts : h \in hs \ Withheld(inUse, hs, id)
                           => reserveHostnamesImpl(inUse, hs, id)[h] = id
      <4> HIDE DEF hs, id, ManagersOK, RestOK
      <4> QED BY <2>1, ReserveHolds
    <3> QED BY <1>4, <3>1, Zenon
  <2>3. \A h \in manifest[l] : h \in Hosts /\ (Lower[h] = h => h \in hs)
    BY DEF LowerCase, Manifests
  <2>4. RoutedLease(l)'
    <3>1. \A h \in manifest[l] \ withheld'[l] : Lower[h] = h => inUse'[h] = id
      BY <2>1, <2>2, <2>3
    <3> QED BY <1>1, <1>2, <1>4, <2>1, <3>1 DEF RoutedLease, Deploying
  <2>5. ASSUME NEW h \in Hosts, declared'[h] = l PROVE RoutedTo(h, l)'
    <3>1. RoutedTo(h, l)
      BY <1>2, <2>5, NoneAssumption DEF Routed
    <3>2. h \in manifest[l]
      BY <1>1, <1>4, <3>1 DEF RoutedTo, RoutedLease, Deploying
    <3>3. h \in hs /\ h \notin Withheld(inUse, hs, id)
      BY <2>3, <3>1, <3>2 DEF RoutedTo, Withheld
    <3> QED BY <1>2, <2>1, <2>2, <3>1, <3>3 DEF RoutedTo
  <2> QED BY <1>2, <2>4, <2>5 DEF OwnStaysRouted
<1> QED BY <1>3, <1>4, Zenon DEF Reserve

LEMMA DeployStaysRouted ==
  ASSUME StoreOK, ManagersOK, RestOK, Routed, NEW l \in Leases,
         Deploy(l) \/ Collect(l) \/ (\E h \in Hosts : Declare(l, h))
  PROVE  OwnStaysRouted(l)
<1> USE DEF ManagersOK, RestOK
<1>1. RoutedLease(l)
  BY DEF Routed
<1>2. CASE Deploy(l)
  <2>1. /\ stage[l] = "deploy" /\ stage'[l] = "collect" /\ saved'[l] = manifest[l]
        /\ inUse' = inUse /\ declared' = declared /\ lease' = lease /\ submitted' = submitted
        /\ manifest' = manifest /\ pending' = pending /\ withheld' = withheld
    BY <1>2 DEF Deploy
  <2>2. RoutedLease(l)'
    BY <1>1, <2>1 DEF RoutedLease, Deploying
  <2>3. ASSUME NEW h \in Hosts, declared'[h] = l PROVE RoutedTo(h, l)'
    <3>1. RoutedTo(h, l)
      BY <2>1, <2>3, NoneAssumption DEF Routed
    <3> QED BY <1>1, <2>1, <3>1, NoneAssumption DEF RoutedTo, RoutedLease, Deploying, Manifests
  <2> QED BY <2>1, <2>2, <2>3 DEF OwnStaysRouted
<1>3. CASE Collect(l)
  <2>1. /\ stage[l] = "collect" /\ stage'[l] = "declare" /\ hosts'[l] = manifest[l] \ withheld[l]
        /\ inUse' = inUse /\ declared' = declared /\ lease' = lease /\ submitted' = submitted
        /\ manifest' = manifest /\ pending' = pending /\ withheld' = withheld /\ saved' = saved
    BY <1>3 DEF Collect, clusterVars
  <2>2. RoutedLease(l)'
    BY <1>1, <2>1 DEF RoutedLease, Deploying
  <2>3. ASSUME NEW h \in Hosts, declared'[h] = l PROVE RoutedTo(h, l)'
    <3>1. RoutedTo(h, l)
      BY <2>1, <2>3, NoneAssumption DEF Routed
    <3> QED BY <2>1, <3>1 DEF RoutedTo
  <2> QED BY <2>1, <2>2, <2>3 DEF OwnStaysRouted
<1>4. ASSUME NEW g \in Hosts, Declare(l, g) PROVE OwnStaysRouted(l)
  <2>1. /\ stage[l] = "declare" /\ stage' = stage /\ g \in hosts[l] /\ hosts'[l] = hosts[l] \ {g}
        /\ inUse' = inUse /\ lease' = lease /\ submitted' = submitted /\ left' = left
        /\ manifest' = manifest /\ pending' = pending /\ withheld' = withheld /\ saved' = saved
        /\ Lower[g] = g /\ declared' = [declared EXCEPT ![g] = l]
    BY <1>4 DEF Declare, DeclareHostname
  <2>2. RoutedLease(l)'
    BY <1>1, <2>1 DEF RoutedLease, Deploying
  <2>3. ASSUME NEW h \in Hosts, declared'[h] = l PROVE RoutedTo(h, l)'
    <3>1. CASE h = g
      <4>1. h \in manifest[l] \ withheld[l] /\ saved[l] = manifest[l] /\ manifest[l] # None
        BY <1>1, <2>1, <3>1, NoneAssumption DEF RoutedLease, Manifests
      <4>2. inUse[h] = hostnameIDFromLeaseID(l)
        BY <1>1, <2>1, <3>1, <4>1 DEF RoutedLease
      <4> QED BY <2>1, <3>1, <4>1, <4>2 DEF RoutedTo
    <3>2. CASE h # g
      <4>1. RoutedTo(h, l)
        <5>1. declared[h] = l /\ l # None
          BY <2>1, <2>3, <3>2, NoneAssumption DEF StoreOK
        <5> QED BY <5>1, Zenon DEF Routed
      <4> QED BY <2>1, <4>1 DEF RoutedTo
    <3> QED BY <3>1, <3>2
  <2>4. \A h \in Hosts : declared'[h] \in {declared[h], l}
    BY <2>1 DEF StoreOK
  <2> QED BY <2>2, <2>3, <2>4 DEF OwnStaysRouted
<1> QED BY <1>2, <1>3, <1>4

LEMMA PurgeOnlyDrops ==
  ASSUME StoreOK, NEW l \in Leases, NEW hs, declared' = PurgeAll(l, hs)
  PROVE  /\ \A h \in Hosts : declared'[h] \in {declared[h], None}
         /\ hs = Hosts => \A h \in Hosts : declared'[h] # l
BY NoneAssumption DEF PurgeAll

LEMMA ResultStaysRouted ==
  ASSUME StoreOK, ManagersOK, RestOK, Routed, NEW l \in Leases,
         DeployFails(l) \/ DeploySucceeds(l)
  PROVE  OwnStaysRouted(l)
<1> USE DEF ManagersOK, RestOK
<1>1. RoutedLease(l) /\ stage[l] \in Deploying
  BY DEF Routed, DeployFails, DeploySucceeds, Deploying
<1>2. /\ inUse' = inUse /\ saved' = saved /\ lease' = lease /\ submitted' = submitted
      /\ manifest' = manifest /\ withheld' = withheld
      /\ declared' = PurgeAll(l, drop[l])
  BY Zenon DEF DeployFails, DeploySucceeds
<1>3. PICK r \in BOOLEAN : DeployResult(l, r)
  BY Zenon DEF DeployFails, DeploySucceeds
<1>4. \/ stage'[l] \in {"complete", "reserve"} /\ pending'[l] = "none"
      \/ /\ stage'[l] = "teardown" /\ left'[l] = Activities /\ pending'[l] = "none"
         /\ pending[l] = "teardown"
  BY <1>3 DEF DeployResult, startDeploy, startTeardown
<1>5. RoutedLease(l)'
  BY <1>1, <1>2, <1>4 DEF RoutedLease, Deploying
<1>6. ASSUME NEW h \in Hosts, declared'[h] = l PROVE RoutedTo(h, l)'
  <2>1. declared[h] = l
    BY <1>2, <1>6, PurgeOnlyDrops, NoneAssumption
  <2>2. RoutedTo(h, l)
    BY <2>1, NoneAssumption DEF Routed
  <2> QED BY <1>2, <1>4, <2>2 DEF RoutedTo, Activities
<1> QED BY <1>2, <1>5, <1>6, PurgeOnlyDrops DEF OwnStaysRouted

LEMMA TeardownStepStaysRouted ==
  ASSUME StoreOK, ManagersOK, RestOK, Routed, NEW l \in Leases,
         (\E a \in Activities : TeardownActivity(l, a)) \/ TeardownRetry(l)
  PROVE  OwnStaysRouted(l)
<1> USE DEF ManagersOK, RestOK
<1>1. RoutedLease(l) /\ stage[l] = "teardown" /\ lease[l] = "closed" /\ submitted[l] = None
  BY DEF Routed, RoutedLease, TeardownActivity, TeardownRetry
<1>2. /\ inUse' = inUse /\ lease' = lease /\ submitted' = submitted /\ stage' = stage
      /\ pending' = pending
  BY Zenon DEF TeardownActivity, TeardownRetry
<1>3. RoutedLease(l)'
  BY <1>1, <1>2 DEF RoutedLease, Deploying
<1>4. CASE TeardownRetry(l)
  <2>1. declared' = declared /\ left'[l] = Activities
    BY <1>4 DEF TeardownRetry, clusterVars
  <2>2. ASSUME NEW h \in Hosts, declared'[h] = l PROVE RoutedTo(h, l)'
    <3>1. RoutedTo(h, l)
      BY <2>1, <2>2, NoneAssumption DEF Routed
    <3> QED BY <1>1, <1>2, <2>1, <3>1 DEF RoutedTo, Activities
  <2> QED BY <1>3, <2>1, <2>2 DEF OwnStaysRouted
<1>5. ASSUME NEW a \in Activities, TeardownActivity(l, a) PROVE OwnStaysRouted(l)
  <2>1. CASE a = "hostnames"
    <3>1. declared' = PurgeAll(l, Hosts)
      BY <1>5, <2>1 DEF TeardownActivity
    <3> QED BY <1>3, <3>1, PurgeOnlyDrops DEF OwnStaysRouted
  <2>2. CASE a # "hostnames"
    <3>1. declared' = declared /\ left'[l] = left[l] \ {a}
      BY <1>5, <2>2 DEF TeardownActivity
    <3>2. ASSUME NEW h \in Hosts, declared'[h] = l PROVE RoutedTo(h, l)'
      <4>1. RoutedTo(h, l)
        BY <3>1, <3>2, NoneAssumption DEF Routed
      <4> QED BY <1>1, <1>2, <2>2, <3>1, <4>1 DEF RoutedTo
    <3> QED BY <1>3, <3>1, <3>2 DEF OwnStaysRouted
  <2> QED BY <2>1, <2>2
<1> QED BY <1>4, <1>5

\* The names are given up when nothing is declared for the lease any more.
LEMMA DoneStaysRouted ==
  ASSUME StoreOK, ManagersOK, RestOK, Routed, NEW l \in Leases, TeardownDone(l) \/ ManagerDone(l)
  PROVE  OwnStaysRouted(l)
<1> USE DEF ManagersOK, RestOK
<1>1. /\ RoutedLease(l) /\ lease[l] = "closed" /\ submitted[l] = None
      /\ (stage[l] = "teardown" /\ left[l] = {}) \/ stage[l] = "done"
  BY DEF Routed, RoutedLease, TeardownDone, ManagerDone
<1>2. \A h \in Hosts : declared[h] # l
  BY <1>1, NoneAssumption DEF Routed, RoutedTo
<1>3. /\ declared' = declared /\ lease' = lease /\ submitted' = submitted
      /\ stage'[l] \in {"done", "none"}
  BY DEF TeardownDone, ManagerDone, clusterVars
<1>4. RoutedLease(l)'
  BY <1>1, <1>3 DEF RoutedLease, Deploying
<1> QED BY <1>2, <1>3, <1>4 DEF OwnStaysRouted

LEMMA ManagerStaysRouted ==
  ASSUME Settings, StoreOK, ManagersOK, RestOK, Routed, NEW l \in Leases, Manager(l)
  PROVE  Routed'
<1>1. OwnStaysRouted(l)
  BY ReceivedStaysRouted, TeardownStaysRouted, ReserveStaysRouted, DeployStaysRouted,
     ResultStaysRouted, TeardownStepStaysRouted, DoneStaysRouted, Zenon DEF Manager
<1>2. ASSUME NEW m \in Leases PROVE RoutedLease(m)'
  BY <1>1, OtherStaysRouted, Zenon DEF Routed, OwnStaysRouted
<1>3. ASSUME NEW h \in Hosts, declared'[h] # None PROVE RoutedTo(h, declared[h])' 
  <2>1. CASE declared'[h] = l
    BY <1>1, <2>1, Zenon DEF OwnStaysRouted
  <2>2. CASE declared'[h] # l
    <3>1. declared'[h] = declared[h]
      BY <1>1, <1>3, <2>2, Zenon DEF OwnStaysRouted
    <3>2. PICK m \in Leases : m = declared[h]
      BY <1>3, <3>1 DEF StoreOK
    <3>3. RoutedTo(h, m)
      BY <1>3, <3>1, <3>2, Zenon DEF Routed
    <3>4. RoutedTo(h, m)'
      BY <2>2, <3>1, <3>2, <3>3, OtherStaysRouted, Zenon
    <3>5. declared'[h] = m
      BY <3>1, <3>2
    <3> QED BY <3>4, <3>5, Zenon DEF RoutedTo
  <2> QED BY <2>1, <2>2
<1> QED BY <1>2, <1>3 DEF Routed

\* AllHostnames gives every declared name back to the group of its lease.
LEMMA RestartStaysRouted ==
  ASSUME StoreOK, ManagersOK, RestOK, Routed, Restart
  PROVE  Routed'
<1> USE DEF ManagersOK, RestOK
<1>1. /\ declared' = declared /\ saved' = saved /\ lease' = lease
      /\ inUse' = [h \in Hosts |->
                     IF declared[h] = None THEN Free ELSE hostnameIDFromLeaseID(declared[h])]
      /\ \A l \in Leases :
           /\ submitted'[l] = None /\ pending'[l] = "none"
           /\ stage'[l] = IF saved[l] = None THEN "none" ELSE "reserve"
           /\ saved[l] # None => manifest'[l] = saved[l]
  BY Zenon DEF Restart, SavedManifests, clusterVars
<1>2. ASSUME NEW l \in Leases PROVE RoutedLease(l)'
  BY <1>1 DEF RoutedLease, Deploying
<1>3. ASSUME NEW h \in Hosts, declared'[h] # None PROVE RoutedTo(h, declared[h])'
  <2>1. PICK l \in Leases : declared[h] = l /\ declared'[h] = l
    BY <1>1, <1>3 DEF StoreOK
  <2>2. RoutedTo(h, l)
    BY <1>1, <1>3, <2>1, Zenon DEF Routed
  <2>3. inUse'[h] = hostnameIDFromLeaseID(l)
    BY <1>1, <2>1, NoneAssumption
  <2>4. RoutedTo(h, l)'
    BY <1>1, <2>2, <2>3 DEF RoutedTo
  <2> QED BY <2>1, <2>4, Zenon DEF RoutedTo
<1> QED BY <1>2, <1>3 DEF Routed

\* While nothing is declared without being held, every call of the hostname
\* service leaves it so; a manifest is submitted for a lease that runs nothing.
LEMMA RoutedStep ==
  ASSUME Settings, StoreOK, ManagersOK, RestOK, NotMigrating, RoutedInv, [Next]_vars
  PROVE  RoutedInv'
<1> SUFFICES ASSUME migrations' = 0, updates' = 0 PROVE Routed'
  BY DEF RoutedInv, Quiet
<1>1. migrations = 0 /\ ~Migrate
  BY NoMigrationBefore
<1>2. CASE Tenant
  <2>1. PICK l \in Leases, hs \in Manifests : SubmitManifest(l, hs)
    BY <1>2 DEF Tenant
  <2>2. updates = 0 /\ stage[l] = "none" /\ saved[l] = None
    <3>1. updates' = IF stage[l] # "none" \/ saved[l] # None THEN updates + 1 ELSE updates
      BY <2>1, Zenon DEF SubmitManifest
    <3>2. updates \in Nat
      BY BoundsAssumption DEF RestOK
    <3> QED BY <3>1, <3>2
  <2>3. Routed
    BY <1>1, <2>2 DEF RoutedInv, Quiet
  <2>4. /\ UNCHANGED <<inUse, declared, saved, lease, stage, manifest, pending, withheld, hosts, left>>
        /\ submitted' = [submitted EXCEPT ![l] = hs]
    BY <2>1, Zenon DEF SubmitManifest, clusterVars, managerVars
  <2>5. ASSUME NEW m \in Leases PROVE RoutedLease(m)'
    BY <2>2, <2>3, <2>4 DEF Routed, RoutedLease, ManagersOK
  <2>6. \A h \in Hosts : declared'[h] # None => RoutedTo(h, declared[h])'
    BY <2>3, <2>4, Zenon DEF Routed, RoutedTo
  <2> QED BY <2>5, <2>6 DEF Routed
<1>3. CASE Chain
  <2>1. PICK l \in Leases : LeaseCreated(l) \/ LeaseClosed(l)
    BY <1>3 DEF Chain
  <2>2. UNCHANGED <<inUse, declared, saved, submitted, stage, manifest, pending, withheld, hosts, left,
                    updates>>
    BY <2>1, Zenon DEF LeaseCreated, LeaseClosed, clusterVars, managerVars, boundVars
  <2>3. Routed
    BY <1>1, <2>2 DEF RoutedInv, Quiet
  <2>4. \A m \in Leases : (lease[m] = "closed" => lease'[m] = "closed")
                       /\ (lease'[m] # "closed" => lease[m] # "closed")
    BY <2>1 DEF LeaseCreated, LeaseClosed, RestOK
  <2>5. ASSUME NEW m \in Leases PROVE RoutedLease(m)'
    BY <2>2, <2>3, <2>4, Zenon DEF Routed, RoutedLease
  <2>6. \A h \in Hosts : declared'[h] # None => RoutedTo(h, declared[h])'
    <3> SUFFICES ASSUME NEW h \in Hosts, declared'[h] # None PROVE RoutedTo(h, declared[h])'
      OBVIOUS
    <3>1. PICK m \in Leases : m = declared[h] /\ m = declared'[h]
      BY <2>2 DEF StoreOK
    <3>2. RoutedTo(h, m)
      BY <2>2, <2>3, <3>1, Zenon DEF Routed
    <3>3. RoutedTo(h, m)'
      BY <2>2, <2>4, <3>2, Zenon DEF RoutedTo
    <3> QED BY <3>1, <3>3, Zenon DEF RoutedTo
  <2> QED BY <2>5, <2>6 DEF Routed
<1>4. ASSUME NEW l \in Leases, Manager(l) PROVE Routed'
  <2>1. updates' = updates
    BY <1>4, Zenon DEF Manager, ManifestReceived, Teardown, Reserve, Deploy, Collect, DeployFails,
       DeploySucceeds, Declare, TeardownActivity, TeardownRetry, TeardownDone, ManagerDone,
       boundVars
  <2>2. Routed
    BY <1>1, <2>1 DEF RoutedInv, Quiet
  <2> QED BY <1>4, <2>2, ManagerStaysRouted
<1>5. CASE Restart
  <2>1. Routed
    BY <1>1, <1>5 DEF Restart, RoutedInv, Quiet
  <2> QED BY <1>5, <2>1, RestartStaysRouted
<1>6. CASE UNCHANGED vars
  <2>1. UNCHANGED <<inUse, declared, saved, lease, submitted, stage, manifest, pending, withheld, hosts,
                    left, updates>>
    BY <1>6, Zenon DEF vars, clusterVars, managerVars, boundVars
  <2>2. Routed
    BY <1>1, <2>1 DEF RoutedInv, Quiet
  <2>3. \A l \in Leases : RoutedLease(l)'
    BY <2>1, <2>2, Zenon DEF Routed, RoutedLease
  <2>4. \A h \in Hosts : declared'[h] # None => RoutedTo(h, declared[h])'
    BY <2>1, <2>2, Zenon DEF Routed, RoutedTo
  <2> QED BY <2>3, <2>4 DEF Routed
<1> QED BY <1>1, <1>2, <1>3, <1>4, <1>5, <1>6, Zenon DEF Next

\* What the cluster declares is held by the same tenant, wherever deploys fail
\* and whenever the provider stops, for any number of leases, tenants,
\* hostnames and restarts.
THEOREM DeclaredStaysHeld ==
  ASSUME Settings
  PROVE  Spec => []DeclaredIsHeld
<1>1. Init => RoutedInv
  BY DEF Init, RoutedInv, Routed, RoutedLease, Deploying
<1>2. Init => RestOK
  BY BoundsAssumption DEF Init, RestOK, Stages, Manifests
<1>3. ASSUME StoreOK, RoutedInv PROVE DeclaredIsHeld
  <2> SUFFICES ASSUME migrations = 0, updates = 0, NEW h \in Hosts, declared[h] # None
               PROVE  InUse(inUse, h) /\ inUse[h].owner = OwnerOf[declared[h]]
    BY DEF DeclaredIsHeld
  <2>1. PICK l \in Leases : l = declared[h]
    BY <1>3 DEF StoreOK
  <2>2. inUse[h] = hostnameIDFromLeaseID(l)
    BY <1>3, <2>1 DEF RoutedInv, Quiet, Routed, RoutedTo
  <2> QED BY <2>1, <2>2, IDType, FreeAssumption DEF InUse
<1>4. QED
  BY <1>1, <1>2, <1>3, RoutedStep, RestStep, StoreTyped, ManagersTyped, NoMigrations, PTL DEF Spec

-----------------------------------------------------------------------------
(***************************************************************************)
(* The publication of one hostname in gateway mode.  The call that is      *)
(* under way knows the route by its UID, and from the moment it has        *)
(* written the filter until it returns, the filter is the route's as long  *)
(* as there is a route.                                                    *)
(***************************************************************************)
CONSTANTS Options, NoOptions, Missing, MaxCalls, MaxStatus

VARIABLES httpRoute, filter, nsExists, stamps, uids, grState, call, calls, status

Gateway == INSTANCE GatewayRoute

Routes == [uid : Nat, ref : {"bare", "filter", NoOptions}, version : Nat]

Filters == [owner : Nat, options : Options \cup {NoOptions}, generation : Nat, observed : Nat]

Calls == [options : Options \cup {NoOptions}, uid : Nat, bare : BOOLEAN, exists : BOOLEAN,
          generation : Nat, version : Nat, tries : Nat]

\* A resource that is not there is told from one that is.
ResourceSettings == Missing \notin Routes \cup Filters /\ NoOptions \notin {"bare", "filter"}

ResourcesOK ==
  /\ httpRoute \in Routes \cup {Missing}
  /\ filter \in Filters \cup {Missing}
  /\ uids \in Nat /\ call \in Calls

\* The route of the call, if there is one.
CallsRoute == httpRoute # Missing => httpRoute.uid = call.uid

\* The filter of the call, as long as there is a route.
CallsFilter == httpRoute # Missing => filter # Missing /\ filter.owner = call.uid

Accepted == httpRoute # Missing => filter.observed > 0

CallInv ==
  call.options # NoOptions =>
    /\ grState \in {"apply", "wait", "publish", "update"} =>
         (call.exists = TRUE \/ call.bare = TRUE) /\ CallsRoute
    /\ grState \in {"wait", "publish", "update"} => CallsFilter
    /\ grState \in {"publish", "update"} => Accepted

RouteInv == ResourcesOK /\ CallInv /\ Gateway!RoutedIsFiltered

LEMMA RouteInvInit == Gateway!Init => RouteInv
<1> SUFFICES ASSUME Gateway!Init PROVE RouteInv
  OBVIOUS
<1>1. Gateway!NoCall \in Calls /\ Gateway!NoCall.options = NoOptions
  BY DEF Gateway!NoCall, Calls
<1>2. httpRoute = Missing /\ filter = Missing /\ uids = 0 /\ call = Gateway!NoCall
  BY DEF Gateway!Init
<1>3. ResourcesOK
  BY <1>1, <1>2 DEF ResourcesOK
<1>4. CallInv
  BY <1>1, <1>2 DEF CallInv
<1>5. Gateway!RoutedIsFiltered
  BY <1>2 DEF Gateway!RoutedIsFiltered
<1> QED BY <1>3, <1>4, <1>5 DEF RouteInv

\* What an update of the route changes of the call, and what a placeholder does.
Retried(c, n, m) == [c EXCEPT !.version = n, !.tries = m]

LEMMA CallRetried ==
  ASSUME NEW c \in Calls, NEW n \in Nat, NEW m \in Nat
  PROVE  /\ Retried(c, n, m) \in Calls
         /\ Retried(c, n, m).uid = c.uid
         /\ Retried(c, n, m).options = c.options
         /\ Retried(c, n, m).exists = c.exists
         /\ Retried(c, n, m).bare = c.bare
BY Zenon DEF Calls, Retried

LEMMA CallPlaceholder ==
  ASSUME NEW c \in Calls, NEW n \in Nat
  PROVE  /\ [c EXCEPT !.uid = n, !.bare = TRUE] \in Calls
         /\ [c EXCEPT !.uid = n, !.bare = TRUE].uid = n
         /\ [c EXCEPT !.uid = n, !.bare = TRUE].bare = TRUE
BY Zenon DEF Calls

LEMMA NoCallIdle ==
  ASSUME RouteInv, Gateway!Return
  PROVE  call' \in Calls /\ CallInv'
<1>1. call' = Gateway!NoCall /\ call'.options = NoOptions
  BY DEF Gateway!Return, Gateway!NoCall
<1>2. call' \in Calls
  BY <1>1 DEF Gateway!NoCall, Calls
<1> QED BY <1>1, <1>2 DEF CallInv

LEMMA RouteInvStep ==
  ASSUME ResourceSettings
  PROVE  RouteInv /\ [Gateway!Next]_(Gateway!grVars) => RouteInv'
<1> SUFFICES ASSUME RouteInv, [Gateway!Next]_(Gateway!grVars) PROVE RouteInv'
  OBVIOUS
<1> USE DEF CallsRoute, CallsFilter, Accepted, Gateway!RoutedIsFiltered
<1>0. ASSUME UNCHANGED <<httpRoute, filter, uids>>, Gateway!Return PROVE RouteInv'
  BY <1>0, NoCallIdle DEF RouteInv, ResourcesOK
<1>1. ASSUME NEW o \in Options \cup {NoOptions}, Gateway!getRoute(o) PROVE RouteInv'
  <2>1. /\ call' = [options |-> o, uid |-> IF httpRoute # Missing THEN httpRoute.uid ELSE 0,
                    bare |-> FALSE, exists |-> httpRoute # Missing, generation |-> 0,
                    version |-> 0, tries |-> 0]
        /\ grState' = IF httpRoute = Missing /\ o # NoOptions THEN "placeholder" ELSE "apply"
        /\ UNCHANGED <<httpRoute, filter, uids>>
    BY <1>1, Zenon DEF Gateway!getRoute, Gateway!NoCall
  <2>2. ResourcesOK'
    BY <2>1 DEF RouteInv, ResourcesOK, Calls, Routes
  <2>3. CallInv'
    BY <2>1, Zenon DEF CallInv
  <2> QED BY <2>1, <2>2, <2>3 DEF RouteInv
<1>2. ASSUME Gateway!createPlaceholder PROVE RouteInv'
  <2>1. CASE Gateway!Return /\ UNCHANGED <<httpRoute, uids>>
    BY <1>0, <1>2, <2>1 DEF Gateway!createPlaceholder
  <2>2. CASE /\ uids' = uids + 1
             /\ httpRoute' = Gateway!Route(uids', "bare", 1)
             /\ call' = [call EXCEPT !.uid = uids', !.bare = TRUE]
             /\ grState' = "apply"
    <3>1. filter' = filter
      BY <1>2 DEF Gateway!createPlaceholder
    <3>2. httpRoute' \in Routes /\ httpRoute'.uid = uids' /\ httpRoute'.ref = "bare"
      BY <2>2 DEF Gateway!Route, Routes, RouteInv, ResourcesOK
    <3>3. call' \in Calls /\ call'.uid = uids' /\ call'.bare = TRUE
      <4>1. call \in Calls /\ uids' \in Nat
        BY <2>2 DEF RouteInv, ResourcesOK
      <4> QED BY <2>2, <4>1, CallPlaceholder, Zenon
    <3>4. ResourcesOK'
      BY <2>2, <3>1, <3>2, <3>3 DEF RouteInv, ResourcesOK
    <3>5. CallInv'
      BY <2>2, <3>2, <3>3 DEF CallInv
    <3> QED BY <3>2, <3>4, <3>5 DEF RouteInv
  <2> QED BY <1>2, <2>1, <2>2 DEF Gateway!createPlaceholder
<1>3. ASSUME Gateway!applyRouteExtensions PROVE RouteInv'
  <2>0. UNCHANGED <<httpRoute, uids>>
    BY <1>3 DEF Gateway!applyRouteExtensions
  <2>1. CASE call.options = NoOptions /\ grState' = "publish" /\ UNCHANGED <<filter, call>>
    BY <2>0, <2>1 DEF RouteInv, ResourcesOK, CallInv
  <2>2. CASE /\ call.options # NoOptions /\ grState = "apply"
             /\ filter' = Gateway!Upsert
             /\ call' = [call EXCEPT !.generation = filter'.generation]
             /\ grState' = "wait"
    <3>1. /\ filter' \in Filters /\ filter'.owner = call.uid
          /\ filter # Missing => filter'.observed = filter.observed
      <4>1. CASE filter = Missing
        BY <2>2, <4>1 DEF Gateway!Upsert, RouteInv, ResourcesOK, Filters, Calls
      <4>2. CASE filter # Missing
        <5>1. filter \in Filters /\ call.uid \in Nat /\ call.options \in Options \cup {NoOptions}
          BY <4>2 DEF RouteInv, ResourcesOK, Calls
        <5>2. PICK g \in Nat :
                filter' = [filter EXCEPT !.owner = call.uid, !.options = call.options,
                                         !.generation = g]
          <6>1. filter.generation \in Nat /\ filter.generation + 1 \in Nat
            BY <5>1 DEF Filters
          <6> QED BY <2>2, <4>2, <6>1, Zenon DEF Gateway!Upsert
        <5> QED BY <4>2, <5>1, <5>2, Zenon DEF Filters
      <4> QED BY <4>1, <4>2
    <3>2. /\ call' \in Calls /\ call'.uid = call.uid /\ call'.options = call.options
          /\ call'.exists = call.exists /\ call'.bare = call.bare
      BY <2>2, <3>1 DEF RouteInv, ResourcesOK, Calls, Filters
    <3>3. ResourcesOK'
      BY <2>0, <3>1, <3>2 DEF RouteInv, ResourcesOK
    <3>4. filter' # Missing
      BY <3>1 DEF ResourceSettings
    <3>5. (call.exists = TRUE \/ call.bare = TRUE) /\ CallsRoute
      BY <2>2 DEF RouteInv, CallInv
    <3>6. CallInv'
      BY <2>0, <2>2, <3>1, <3>2, <3>4, <3>5 DEF CallInv
    <3>7. Gateway!RoutedIsFiltered'
      BY <2>0, <3>1, <3>4, <3>5 DEF RouteInv
    <3> QED BY <3>3, <3>6, <3>7 DEF RouteInv
  <2>3. CASE Gateway!Return /\ UNCHANGED filter
    BY <1>0, <2>0, <2>3
  <2> QED BY <1>3, <2>1, <2>2, <2>3 DEF Gateway!applyRouteExtensions, Gateway!Exts
<1>4. ASSUME Gateway!waitForExtensionAccepted PROVE RouteInv'
  <2>0. UNCHANGED <<httpRoute, filter, uids>>
    BY <1>4 DEF Gateway!waitForExtensionAccepted
  <2>1. CASE filter.observed > 0 /\ grState = "wait" /\ grState' = "publish" /\ UNCHANGED call
    BY <2>0, <2>1 DEF RouteInv, ResourcesOK, CallInv
  <2> QED BY <1>0, <1>4, <2>0, <2>1 DEF Gateway!waitForExtensionAccepted, Gateway!extensionAccepted
<1>5. ASSUME Gateway!publishRoute PROVE RouteInv'
  <2>0. filter' = filter /\ grState = "publish"
    BY <1>5 DEF Gateway!publishRoute
  <2>1. CASE Gateway!Return /\ UNCHANGED <<httpRoute, uids>>
    BY <1>0, <2>0, <2>1
  <2>2. CASE uids' = uids + 1 /\ httpRoute' = Gateway!Route(uids', NoOptions, 1) /\ Gateway!Return
    <3>1. httpRoute' \in Routes /\ httpRoute'.ref = NoOptions /\ uids' \in Nat
      <4>1. uids' \in Nat
        BY <2>2 DEF RouteInv, ResourcesOK
      <4>2. /\ Gateway!Route(uids', NoOptions, 1) \in Routes
            /\ Gateway!Route(uids', NoOptions, 1).ref = NoOptions
        BY <4>1 DEF Gateway!Route, Routes
      <4> QED BY <2>2, <4>1, <4>2, Zenon
    <3> QED BY <2>0, <2>2, <3>1, NoCallIdle DEF RouteInv, ResourcesOK, ResourceSettings
  <2>3. CASE /\ httpRoute # Missing /\ grState' = "update" /\ UNCHANGED <<httpRoute, uids>>
             /\ call' = [call EXCEPT !.version = httpRoute.version, !.tries = @ + 1]
    <3>1. /\ call' \in Calls /\ call'.uid = call.uid /\ call'.options = call.options
          /\ call'.exists = call.exists /\ call'.bare = call.bare
      <4>1. call \in Calls /\ httpRoute.version \in Nat
        BY <2>3 DEF RouteInv, ResourcesOK, Routes
      <4>2. call.tries + 1 \in Nat
        BY <4>1 DEF Calls
      <4>3. call' = Retried(call, httpRoute.version, call.tries + 1)
        BY <2>3, Zenon DEF Retried
      <4> QED BY <4>1, <4>2, <4>3, CallRetried, Zenon
    <3>2. ResourcesOK'
      BY <2>0, <2>3, <3>1 DEF RouteInv, ResourcesOK
    <3>3. CallInv'
      BY <2>0, <2>3, <3>1 DEF RouteInv, CallInv
    <3> QED BY <2>0, <2>3, <3>2, <3>3 DEF RouteInv
  <2> QED BY <1>5, <2>1, <2>2, <2>3 DEF Gateway!publishRoute
<1>6. ASSUME Gateway!updateRoute PROVE RouteInv'
  <2>0. UNCHANGED <<filter, uids>> /\ grState = "update"
    BY <1>6 DEF Gateway!updateRoute
  <2>1. CASE Gateway!Return /\ UNCHANGED httpRoute
    BY <1>0, <2>0, <2>1
  <2>2. CASE httpRoute # Missing /\ grState' = "publish" /\ UNCHANGED <<call, httpRoute>>
    BY <2>0, <2>2 DEF RouteInv, ResourcesOK, CallInv
  <2>3. CASE /\ httpRoute # Missing /\ Gateway!Return
             /\ httpRoute' = Gateway!Route(httpRoute.uid, Gateway!Published, httpRoute.version + 1)
    <3>1. /\ httpRoute' \in Routes /\ httpRoute'.uid = httpRoute.uid
          /\ httpRoute'.ref = "filter" => call.options # NoOptions
      BY <2>3 DEF Gateway!Route, Gateway!Published, Gateway!Exts, Routes, RouteInv, ResourcesOK,
         ResourceSettings
    <3>2. call.options # NoOptions => CallsRoute /\ CallsFilter /\ Accepted
      BY <2>0 DEF RouteInv, CallInv
    <3>3. Gateway!RoutedIsFiltered'
      BY <2>0, <2>3, <3>1, <3>2
    <3> QED BY <2>0, <2>3, <3>1, <3>3, NoCallIdle DEF RouteInv, ResourcesOK
  <2> QED BY <1>6, <2>1, <2>2, <2>3 DEF Gateway!updateRoute
<1>7. ASSUME Gateway!DeleteHTTPRoute PROVE RouteInv'
  BY <1>7 DEF Gateway!DeleteHTTPRoute, RouteInv, ResourcesOK, CallInv
<1>8. ASSUME Gateway!acceptFilter PROVE RouteInv'
  <2>1. /\ filter # Missing /\ UNCHANGED <<httpRoute, uids, grState, call>>
        /\ filter' = [filter EXCEPT !.observed = filter.generation]
        /\ filter.observed < filter.generation
    BY <1>8 DEF Gateway!acceptFilter
  <2>2. filter \in Filters
    BY <2>1 DEF RouteInv, ResourcesOK
  <2>3. filter' \in Filters /\ filter'.owner = filter.owner /\ filter'.observed > 0
    BY <2>1, <2>2 DEF Filters
  <2>4. filter' # Missing
    BY <2>3 DEF ResourceSettings
  <2> QED BY <2>1, <2>3, <2>4 DEF RouteInv, ResourcesOK, CallInv
<1>9. ASSUME Gateway!writeRouteStatus PROVE RouteInv'
  <2>1. /\ httpRoute # Missing /\ UNCHANGED <<filter, uids, grState, call>>
        /\ httpRoute' = [httpRoute EXCEPT !.version = @ + 1]
    BY <1>9 DEF Gateway!writeRouteStatus
  <2>2. httpRoute' \in Routes /\ httpRoute'.uid = httpRoute.uid /\ httpRoute'.ref = httpRoute.ref
    BY <2>1 DEF RouteInv, ResourcesOK, Routes
  <2> QED BY <2>1, <2>2 DEF RouteInv, ResourcesOK, CallInv
<1>10. ASSUME Gateway!collectFilter PROVE RouteInv'
  <2>1. /\ filter # Missing /\ filter' = Missing /\ UNCHANGED <<httpRoute, uids, grState, call>>
        /\ httpRoute # Missing => httpRoute.uid # filter.owner
    BY <1>10 DEF Gateway!collectFilter
  <2> QED BY <2>1 DEF RouteInv, ResourcesOK, CallInv
<1>11. ASSUME Gateway!deleteNamespace PROVE RouteInv'
  BY <1>11 DEF Gateway!deleteNamespace, RouteInv, ResourcesOK, CallInv
<1>12. ASSUME UNCHANGED Gateway!grVars PROVE RouteInv'
  BY <1>12 DEF Gateway!grVars, RouteInv, ResourcesOK, CallInv
<1> QED
  BY <1>1, <1>2, <1>3, <1>4, <1>5, <1>6, <1>7, <1>8, <1>9, <1>10, <1>11, <1>12, Zenon
  DEF Gateway!Next, Gateway!Operator

\* A route that refers to its SnippetsFilter has it, owns it and has had it accepted
\* by the gateway (CreateOrUpdateHTTPRoute, waitForExtensionAccepted and DeleteHTTPRoute
\* of cluster/kube/gateway/httproute.go), whatever options follow one another,
\* wherever a call fails and whenever the namespace is deleted.
THEOREM RouteNeverWithoutFilter ==
  ResourceSettings => (Gateway!Spec => []Gateway!RoutedIsFiltered)
<1> SUFFICES ASSUME ResourceSettings PROVE Gateway!Spec => []Gateway!RoutedIsFiltered
  OBVIOUS
<1>1. RouteInv /\ [Gateway!Next]_(Gateway!grVars) => RouteInv'
  BY RouteInvStep
<1>2. RouteInv => Gateway!RoutedIsFiltered
  BY DEF RouteInv
<1> QED BY <1>1, <1>2, RouteInvInit, PTL DEF Gateway!Spec
================================================================================
