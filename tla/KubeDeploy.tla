----------------------------- MODULE KubeDeploy -----------------------------
(***************************************************************************)
(* The Kubernetes client of one lease: Deploy writes the manifest, then    *)
(* applies namespace, network policies, accounts, credentials, workloads   *)
(* and services one API call at a time, and takes back what it created     *)
(* when a call fails; TeardownLease deletes namespace and manifest.        *)
(*                                                                         *)
(* Any call may fail, with or without having taken effect, and the         *)
(* provider may stop between two calls and start again from what the       *)
(* cluster holds.  Updates by recover of objects that this Deploy changed  *)
(* carry the resource version read before the change, so the API server    *)
(* refuses them: recover only removes what is new.                         *)
(***************************************************************************)
EXTENDS Naturals, Sequences, SequencesExt

CONSTANTS Services,    \* service names
          Manifests,   \* [services : Seq(Services),
                       \*  spec : [Services -> [container, volumes, claims, affinity, count : ...]],
                       \*  perms, creds, local, global : SUBSET Services]
          Persistent,  \* the services with persistent storage
          None,
          MaxUpdates,  \* manifests the tenant sends
          MaxFaults    \* failed calls and crashes

VARIABLES mani,        \* the Manifest resource
          ns,          \* the lease's namespace: "none", "active", "terminating"
          objs,        \* <<kind, name>> |-> content, of the objects that exist
          pc, want, store,
          todo,        \* the calls of this Deploy that are left
          fresh,       \* the objects this Deploy created
          result,      \* how the last Deploy ended
          up,          \* a Deploy succeeded in a live namespace
          lease,       \* "open", "closed", "gone" once TeardownLease returned nil
          kdUpdates, kdFaults

kdVars == <<mani, ns, objs, pc, want, store, todo, fresh, result, up, lease,
            kdUpdates, kdFaults>>

RBAC == {"account", "role", "binding"}

Init ==
  /\ mani = None /\ ns = "none" /\ objs = <<>>
  /\ pc = "idle" /\ want = None /\ store = FALSE /\ todo = <<>> /\ fresh = {}
  /\ result = "none" /\ up = FALSE /\ lease = "open"
  /\ kdUpdates = 0 /\ kdFaults = 0

Fault == kdFaults < MaxFaults /\ kdFaults' = kdFaults + 1

Put(o, content) ==
  objs' = [x \in DOMAIN objs \cup {o} |-> IF x = o THEN content ELSE objs[x]]

Drop(os) == objs' = [x \in DOMAIN objs \ os |-> objs[x]]

-----------------------------------------------------------------------------
(* What the builders make of a manifest.                                   *)

Names(m) == Range(m.services)

HasPermissions(m, s) == s \in m.perms

container(m, s) == m.spec[s].container

volumes(m, s) == m.spec[s].volumes

persistentVolumeClaims(m, s) == m.spec[s].claims

affinity(m, s) == m.spec[s].affinity

replicas(m, s) == m.spec[s].count

serviceAccountName(m, s) == IF HasPermissions(m, s) THEN s ELSE None

imagePullSecrets(m, s) == IF s \in m.creds THEN s ELSE None

\* The pod template carries no resource version, so that a metadata change
\* does not roll the pods.
podTemplate(m, s) ==
  [container |-> container(m, s), account |-> serviceAccountName(m, s),
   pull |-> imagePullSecrets(m, s), volumes |-> volumes(m, s),
   affinity |-> affinity(m, s)]

deploymentCreate(m, s) ==
  [replicas |-> replicas(m, s), template |-> podTemplate(m, s)]

statefulSetCreate(m, s) ==
  [replicas |-> replicas(m, s), template |-> podTemplate(m, s),
   claims |-> persistentVolumeClaims(m, s)]

\* The updates change what is there field by field.
deploymentUpdate(obj, m, s) ==
  [obj EXCEPT !.replicas = replicas(m, s),
              !.template.container = container(m, s),
              !.template.account = serviceAccountName(m, s),
              !.template.pull = imagePullSecrets(m, s),
              !.template.volumes = volumes(m, s),
              !.template.affinity = affinity(m, s)]

statefulSetUpdate(obj, m, s) ==
  [obj EXCEPT !.replicas = replicas(m, s),
              !.template.container = container(m, s),
              !.template.account = serviceAccountName(m, s),
              !.template.pull = imagePullSecrets(m, s),
              !.template.volumes = volumes(m, s),
              !.template.affinity = affinity(m, s),
              !.claims = persistentVolumeClaims(m, s)]

AnyPort(m, s, kind) == s \in IF kind = "global" THEN m.global ELSE m.local

netPolCreate(m) ==
  LET opened == SelectSeq(m.services, LAMBDA s : s \in m.global \cup m.perms)
  IN <<<<"policy", None>>>> \o [i \in 1..Len(opened) |-> <<"policy", opened[i]>>]

isWorkload(kind, s) ==
  kind = IF s \in Persistent THEN "statefulset" ELSE "deployment"

Wanted(m, s, kind) ==
  \/ kind \in RBAC /\ HasPermissions(m, s)
  \/ kind = "creds" /\ s \in m.creds
  \/ isWorkload(kind, s)
  \/ kind \in {"local", "global"} /\ AnyPort(m, s, kind)

\* Accounts and roles come before the workload, so that they exist when
\* the pod is created.
serviceObjects(m, s) ==
  LET kinds == SelectSeq(<<"account", "role", "binding", "creds",
                           "statefulset", "deployment", "local", "global">>,
                         LAMBDA kind : Wanted(m, s, kind))
  IN [i \in 1..Len(kinds) |-> <<kinds[i], s>>]

applies(m) ==
  <<<<"ns", None>>>> \o netPolCreate(m)
  \o <<<<"cleanup", "account">>, <<"cleanup", "role">>, <<"cleanup", "binding">>>>
  \o FlattenSeq([i \in 1..Len(m.services) |-> serviceObjects(m, m.services[i])])

\* What an object is after it is applied.
Content(m, o) ==
  CASE o[1] = "deployment" ->
         IF o \in DOMAIN objs THEN deploymentUpdate(objs[o], m, o[2])
                              ELSE deploymentCreate(m, o[2])
    [] o[1] = "statefulset" ->
         IF o \in DOMAIN objs THEN statefulSetUpdate(objs[o], m, o[2])
                              ELSE statefulSetCreate(m, o[2])
    [] OTHER -> o[1]

-----------------------------------------------------------------------------
(* The tenant, the chain and Kubernetes.                                   *)

sendManifest(m) ==
  /\ pc = "idle" /\ lease = "open" /\ kdUpdates < MaxUpdates
  /\ kdUpdates' = kdUpdates + 1
  /\ pc' = "write" /\ want' = m /\ store' = TRUE /\ result' = "none"
  /\ UNCHANGED <<mani, ns, objs, todo, fresh, up, lease, kdFaults>>

closeLease ==
  /\ lease = "open"
  /\ lease' = "closed"
  /\ UNCHANGED <<mani, ns, objs, pc, want, store, todo, fresh, result, up,
                 kdUpdates, kdFaults>>

collectNamespace ==
  /\ ns = "terminating"
  /\ ns' = "none" /\ objs' = <<>>
  /\ UNCHANGED <<mani, pc, want, store, todo, fresh, result, up, lease,
                 kdUpdates, kdFaults>>

-----------------------------------------------------------------------------
(* Deploy.                                                                 *)

\* Writing the manifest: the names of its services may not change.
writeManifest ==
  /\ pc = "write"
  /\ fresh' = {}
  /\ LET renamed == store /\ mani # None /\ Names(mani) # Names(want)
     IN \/ /\ ~renamed
           /\ mani' = want
           /\ pc' = "apply" /\ todo' = applies(want)
           /\ UNCHANGED kdFaults
        \/ /\ renamed
           /\ pc' = "recover"
           /\ UNCHANGED <<mani, todo, kdFaults>>
        \/ /\ ~renamed /\ Fault
           /\ pc' = "recover"
           /\ mani' \in {mani, want}
           /\ UNCHANGED todo
  /\ UNCHANGED <<ns, objs, want, store, result, up, lease, kdUpdates>>

Step == Head(todo)

Applying(kinds) ==
  /\ pc = "apply" /\ todo # <<>>
  /\ Step[1] \in kinds
  /\ UNCHANGED <<mani, want, store, result, up, lease, kdUpdates>>

Advance == todo' = Tail(todo) /\ UNCHANGED pc

Give == pc' = "recover" /\ UNCHANGED todo

\* A failed call: it took effect or it did not.
applyNS ==
  /\ Applying({"ns"})
  /\ ns' = IF ns = "none" THEN "active" ELSE ns
  /\ fresh' = IF ns = "none" THEN fresh \cup {Step} ELSE fresh
  /\ Advance
  /\ UNCHANGED <<objs, kdFaults>>

applyNSFails ==
  /\ Applying({"ns"}) /\ Fault
  /\ ns' \in {ns, IF ns = "none" THEN "active" ELSE ns}
  /\ Give
  /\ UNCHANGED <<objs, fresh>>

\* Updating an object needs the object, creating one a live namespace.
Possible(o) == o \in DOMAIN objs \/ ns = "active"

Applied ==
  /\ Possible(Step)
  /\ Put(Step, Content(want, Step))
  /\ fresh' = IF Step \in DOMAIN objs THEN fresh ELSE fresh \cup {Step}

NotApplied ==
  /\ \/ ~Possible(Step) /\ UNCHANGED <<objs, kdFaults>>
     \/ Fault /\ UNCHANGED objs
     \/ Fault /\ Possible(Step) /\ Put(Step, Content(want, Step))
  /\ UNCHANGED fresh

applyNetPolicy ==
  /\ Applying({"policy"})
  /\ Applied /\ Advance
  /\ UNCHANGED <<ns, kdFaults>>

listNetPoliciesFails ==
  /\ Applying({"policy"}) /\ Step[2] = None
  /\ Fault /\ Give
  /\ UNCHANGED <<ns, objs, fresh>>

\* The loop stops at the first policy that fails, and its error is not
\* the one that is returned.
applyNetPolicyFails ==
  /\ Applying({"policy"})
  /\ NotApplied
  /\ todo' = SelectSeq(todo, LAMBDA o : o[1] # "policy")
  /\ UNCHANGED <<ns, pc>>

Stale(kind) == {o \in DOMAIN objs : o[1] = kind /\ ~HasPermissions(want, o[2])}

cleanupStaleRBACResources ==
  /\ Applying({"cleanup"})
  /\ \/ Drop(Stale(Step[2])) /\ Advance /\ UNCHANGED kdFaults
     \/ Fault /\ Give /\ UNCHANGED objs
  /\ UNCHANGED <<ns, fresh>>

ServiceKinds == RBAC \cup {"creds", "statefulset", "deployment", "local", "global"}

\* Mutant: an object that exists is taken to be current.
createOnly ==
  /\ Applying(ServiceKinds)
  /\ \/ Step \in DOMAIN objs /\ UNCHANGED <<objs, fresh>>
     \/ Step \notin DOMAIN objs /\ Applied
  /\ Advance
  /\ UNCHANGED <<ns, kdFaults>>

applyObject ==
  /\ Applying(ServiceKinds)
  /\ Applied /\ Advance
  /\ UNCHANGED <<ns, kdFaults>>

applyObjectFails ==
  /\ Applying(ServiceKinds)
  /\ NotApplied /\ Give
  /\ UNCHANGED ns

deployed ==
  /\ pc = "apply" /\ todo = <<>>
  /\ pc' = "idle" /\ result' = "ok" /\ up' = (up \/ ns = "active")
  /\ fresh' = {}
  /\ UNCHANGED <<mani, ns, objs, want, store, todo, lease, kdUpdates, kdFaults>>

\* New workloads are not taken back; a delete that fails is not retried.
recover ==
  /\ pc = "recover"
  /\ \E kept \in {{}, fresh} :
       /\ kept # {} => kdFaults < MaxFaults
       /\ kdFaults' = IF kept = {} THEN kdFaults ELSE kdFaults + 1
       /\ Drop({o \in fresh \ kept : o[1] \notin {"statefulset", "deployment"}})
       /\ ns' = IF <<"ns", None>> \in fresh \ kept /\ ns = "active"
                THEN "terminating" ELSE ns
  /\ pc' = "idle" /\ result' = "failed" /\ todo' = <<>> /\ fresh' = {}
  /\ UNCHANGED <<mani, want, store, up, lease, kdUpdates>>

-----------------------------------------------------------------------------
(* TeardownLease, called again until it returns nil.                       *)

\* Mutant: the errors of the two deletes are logged and dropped.
teardownOnce ==
  /\ pc = "idle" /\ lease = "closed"
  /\ up' = FALSE
  /\ \E nsFails, maniFails \in BOOLEAN :
       /\ nsFails \/ maniFails => kdFaults < MaxFaults
       /\ kdFaults' = IF nsFails \/ maniFails THEN kdFaults + 1 ELSE kdFaults
       /\ ns' = IF ~nsFails /\ ns = "active" THEN "terminating" ELSE ns
       /\ mani' = IF maniFails THEN mani ELSE None
  /\ lease' = "gone"
  /\ UNCHANGED <<objs, pc, want, store, todo, fresh, result, kdUpdates>>

\* Deleting a namespace that is being deleted is a conflict.
TeardownLease ==
  /\ pc = "idle" /\ lease = "closed"
  /\ up' = FALSE
  /\ \E nsFails, maniFails \in BOOLEAN :
       /\ nsFails \/ maniFails => kdFaults < MaxFaults
       /\ kdFaults' = IF nsFails \/ maniFails THEN kdFaults + 1 ELSE kdFaults
       /\ ns' = IF ~nsFails /\ ns = "active" THEN "terminating" ELSE ns
       /\ mani' = IF maniFails THEN mani ELSE None
       /\ lease' = IF nsFails \/ maniFails \/ ns = "terminating"
                   THEN lease ELSE "gone"
  /\ UNCHANGED <<objs, pc, want, store, todo, fresh, result, kdUpdates>>

-----------------------------------------------------------------------------
(* The provider stops and starts again.                                    *)

crash ==
  /\ pc # "down" /\ Fault
  /\ pc' = "down" /\ result' = "none" /\ todo' = <<>> /\ fresh' = {}
  /\ UNCHANGED <<mani, ns, objs, want, store, up, lease, kdUpdates>>

\* Namespaces that are being deleted are left out.
LeaseIDs == ns = "active" \/ mani # None

restart ==
  /\ pc = "down"
  /\ \/ /\ lease = "open" /\ mani # None
        /\ pc' = "write" /\ want' = mani /\ store' = FALSE
        /\ UNCHANGED lease
     \/ /\ ~(lease = "open" /\ mani # None)
        /\ pc' = "idle"
        /\ lease' = IF lease = "closed" /\ ~LeaseIDs THEN "gone" ELSE lease
        /\ UNCHANGED <<want, store>>
  /\ UNCHANGED <<mani, ns, objs, todo, fresh, result, up, kdUpdates, kdFaults>>

Deploy ==
  \/ writeManifest \/ applyNS \/ applyNSFails
  \/ applyNetPolicy \/ applyNetPolicyFails \/ listNetPoliciesFails
  \/ cleanupStaleRBACResources \/ applyObject \/ applyObjectFails
  \/ deployed \/ recover

Next ==
  \/ \E m \in Manifests : sendManifest(m)
  \/ closeLease \/ collectNamespace
  \/ Deploy \/ TeardownLease \/ crash \/ restart

Spec ==
  /\ Init /\ [][Next]_kdVars
  /\ WF_kdVars(Deploy \/ TeardownLease \/ restart)
  /\ WF_kdVars(collectNamespace)

-----------------------------------------------------------------------------
TypeOK ==
  /\ mani \in Manifests \cup {None} /\ want \in Manifests \cup {None}
  /\ ns \in {"none", "active", "terminating"}
  /\ ns = "none" => objs = <<>>
  /\ pc \in {"idle", "write", "apply", "recover", "down"}
  /\ lease \in {"open", "closed", "gone"}

\* What ServiceStatus finds: the workload of the kind Deploy creates.
ServiceStatus(s) ==
  LET kind == IF s \in Persistent THEN "statefulset" ELSE "deployment"
  IN IF s \in Names(mani) /\ <<kind, s>> \in DOMAIN objs
     THEN objs[<<kind, s>>] ELSE None

\* A Deploy that reports success in a live namespace has brought every
\* service to what the stored manifest says, whatever failed or stopped
\* before: its workload is what the manifest asks for, field by field, its account, role and
\* binding are there exactly when it has permissions, and its services and
\* credentials are there when it asks for them.
DeployedIsDeclared ==
  result = "ok" /\ pc = "idle" /\ ns = "active" /\ lease = "open" =>
    /\ mani = want
    /\ \A s \in Names(mani) :
         /\ ServiceStatus(s) = IF s \in Persistent THEN statefulSetCreate(mani, s)
                               ELSE deploymentCreate(mani, s)
         /\ \A kind \in RBAC :
              <<kind, s>> \in DOMAIN objs <=> HasPermissions(mani, s)
         /\ \A kind \in {"creds", "local", "global"} :
              Wanted(mani, s, kind) => <<kind, s>> \in DOMAIN objs

\* Once a lease runs, a later Deploy that fails, wherever it fails, leaves
\* its namespace and its workloads in place until the lease is torn down.
DeployedStays ==
  up /\ lease = "open" =>
    /\ ns = "active"
    /\ \A s \in Names(mani) : ServiceStatus(s) # None

\* The network policies of the lease are in place when Deploy has
\* reported success.
DeployedIsIsolated ==
  result = "ok" /\ pc = "idle" /\ ns = "active" /\ lease = "open" =>
    \A i \in 1..Len(netPolCreate(mani)) : netPolCreate(mani)[i] \in DOMAIN objs

\* A closed lease ends with neither namespace nor manifest in the cluster.
ClosedIsGone == lease # "open" => ns = "none" /\ mani = None
=============================================================================
