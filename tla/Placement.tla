------------------------------ MODULE Placement ------------------------------
(***************************************************************************)
(* How an order finds room in the cluster, and the pods it becomes.        *)
(* Adjust (cluster/kube/operators/clients/inventory) takes the units of an *)
(* order from the last, and for each walks the nodes from the first,       *)
(* placing replicas while the node has room; what a placed replica pins    *)
(* (gpu model, runtime class, interconnect) goes to the scheduler          *)
(* parameters of the unit.  Once the lease is won the workload builder     *)
(* makes pods of those parameters, and the admission webhook adds the      *)
(* attestation sidecar to confidential ones; the Kubernetes scheduler then *)
(* needs a node for every pod.                                             *)
(*                                                                         *)
(* The client of a provider without Kubernetes ("null") has an Adjust of   *)
(* its own, without interconnect.                                          *)
(***************************************************************************)
EXTENDS Integers, Sequences, FiniteSets, SequencesExt, TLC

CONSTANTS
  Requests,   \* [tee, fabric, units]; a unit is [count, arch, cpu, gpu, models,
              \*  group, memory, storage], models[m] is [ram, iface] of a
              \*  wanted gpu model ("*" for any), storage a sequence of
              \*  [persistent, class, size]
  FreeNodes,  \* what is free when the provider starts: a sequence of nodes
              \*  [arch, cpu, gpu, cards, hca, fabric, memory, disk, classes],
              \*  a card is [model, ram, iface]
  FreeClasses,\* free persistent storage by class
  Platform,   \* "tdx" | "snp", as detected from the nodes' labels
  Level,      \* Level[r]: how far resource r is overcommitted
  NoGroup,    \* a unit that does not ask for interconnect
  MaxGrants   \* bound: orders granted

\* The attestation sidecar and the least a primary container keeps, in units
\* of 10 millicores and 16 MiB (builder.go 76-85).
SidecarCPULimit   == 10
SidecarCPURequest == 1
MinPrimaryCPU     == 1
MinPrimaryMemory  == 1

VARIABLES
  client,      \* "kube" | "null"
  plCluster,   \* inventory: free resources, [nodes, storage]
  walk,        \* the Adjust in progress
  grants       \* granted orders: [request, params, placed]

plVars == <<client, plCluster, walk, grants>>

Idle == [state |-> "idle"]

NoParams == [model |-> "", class |-> "", hca |-> 0, fabric |-> ""]

Init ==
  /\ client \in {"kube", "null"}
  /\ plCluster = [nodes |-> FreeNodes, storage |-> FreeClasses]
  /\ walk = Idle
  /\ grants = <<>>

----------------------------------------------------------------------------
(* What is asked for.                                                      *)

\* ComputeCommittedResources.
Committed(r, q) ==
  IF Level[r] <= 1 THEN q
  ELSE IF (2 * q + Level[r]) \div (2 * Level[r]) > 1
       THEN (2 * q + Level[r]) \div (2 * Level[r]) ELSE 1

\* The order in the amounts that pods will request.
resourcesToCommit(req) ==
  [req EXCEPT !.units = [i \in DOMAIN req.units |->
    LET u == req.units[i]
    IN [u EXCEPT !.cpu = Committed("cpu", @),
                 !.gpu = IF @ = 0 THEN 0 ELSE Committed("gpu", @),
                 !.memory = Committed("memory", @),
                 !.storage = [k \in DOMAIN u.storage |->
                   [u.storage[k] EXCEPT !.size = Committed("storage", @)]]]]]

\* A persistent volume names its class, and memory does not persist.
ParseStorageAttributes(v) == ~(v.persistent /\ v.class \in {"", "ram"})

ExistsOrWildcard(models, m) ==
  CASE m \in DOMAIN models   -> <<models[m]>>
    [] m \notin DOMAIN models /\ "*" \in DOMAIN models -> <<models["*"]>>
    [] OTHER                 -> <<>>

FilterGPUInterface(iface) == IF iface \in {"sxm4", "sxm5"} THEN "sxm" ELSE iface

CPUArchMatches(nd, u) == u.arch = "" \/ nd.arch = "" \/ nd.arch = u.arch

interconnectCapsSuitable(nd, fabric) ==
  nd.fabric # "" /\ (fabric = "" \/ nd.fabric = fabric)

RuntimeClassForTEEType(tee) ==
  CASE Platform = "tdx" -> IF tee = "cpu-gpu" THEN "kata-gpu-tdx" ELSE "kata-tdx"
    [] Platform = "snp" -> IF tee = "cpu-gpu" THEN "kata-gpu-snp" ELSE "kata-snp"
    [] OTHER            -> ""

WithCC(class)  == class \in {"kata-tdx", "kata-gpu-tdx", "kata-snp", "kata-gpu-snp"}
WithGPU(class) == class \in {"kata-gpu-tdx", "kata-gpu-snp"}

SidecarMemoryLimit(class)   == IF WithGPU(class) THEN 8 ELSE 4
SidecarMemoryRequest(class) == IF WithGPU(class) THEN 4 ELSE 2

----------------------------------------------------------------------------
(* One replica on one node.                                                *)

\* The cards of a node that a request takes; `filtered' when sxm4 and sxm5
\* count as sxm.
cards(nd, models, filtered) ==
  SelectSeq(nd.cards, LAMBDA c :
    LET attr == ExistsOrWildcard(models, c.model)
    IN /\ attr # <<>>
       /\ attr[1].ram \in {"", c.ram}
       /\ attr[1].iface \in {"", IF filtered THEN FilterGPUInterface(c.iface) ELSE c.iface})

\* No gpu asked for, or enough cards of a wanted model on the node and as
\* many units free; which of the cards are free is not known.
tryAdjustGPU(nd, u, models, filtered) ==
  u.gpu = 0 \/ (u.gpu <= nd.gpu /\ u.gpu <= Len(cards(nd, models, filtered)))

\* The request that is left afterwards: the model found, nothing else.
pinned(nd, u, models, filtered) ==
  IF u.gpu = 0 THEN models
  ELSE LET m == cards(nd, models, filtered)[u.gpu].model
       IN m :> ExistsOrWildcard(models, m)[1]

tryAdjustCPU(nd, u) == CPUArchMatches(nd, u) /\ u.cpu <= nd.cpu

tryAdjustInterconnect(nd, u, fabric) ==
  u.group = NoGroup \/ (interconnectCapsSuitable(nd, fabric) /\ u.gpu <= nd.hca)

\* Volumes: memory and ephemeral storage of the node, or a storage class.
tryAdjustStorage(acc, v) ==
  LET pool == IF v.class = "ram" THEN "memory" ELSE "disk"
  IN CASE acc.status # "ok"             -> acc
       [] acc.status = "ok" /\ ~ParseStorageAttributes(v)
            -> [acc EXCEPT !.status = "cluster"]
       [] acc.status = "ok" /\ ~v.persistent
            -> IF acc.nd[pool] < v.size THEN [acc EXCEPT !.status = "node"]
               ELSE [acc EXCEPT !.nd[pool] = @ - v.size]
       [] OTHER
            -> IF v.class \notin acc.nd.classes THEN [acc EXCEPT !.status = "node"]
               ELSE IF v.class \notin DOMAIN acc.storage \/ acc.storage[v.class] < v.size
               THEN [acc EXCEPT !.status = "cluster"]
               ELSE [acc EXCEPT !.storage[v.class] = @ - v.size]

\* The sidecar's limits are taken on top of the unit.
reserveSidecar(acc, tee, class) ==
  IF acc.status # "ok" \/ tee = "none" THEN acc
  ELSE IF acc.nd.cpu < SidecarCPULimit \/ acc.nd.memory < SidecarMemoryLimit(class)
  THEN [acc EXCEPT !.status = "node"]
  ELSE [acc EXCEPT !.nd.cpu = @ - SidecarCPULimit,
                   !.nd.memory = @ - SidecarMemoryLimit(class)]

\* Memory, volumes and sidecar, once cpu, interconnect and gpu are found.
afterGPU(nd, storage, u, tee, class) ==
  LET taken == [nd EXCEPT !.cpu = @ - u.cpu, !.gpu = @ - u.gpu,
                          !.hca = IF u.group = NoGroup THEN @ ELSE @ - u.gpu,
                          !.memory = @ - u.memory]
      acc == [status |-> IF u.memory > nd.memory THEN "node" ELSE "ok",
              nd |-> taken, storage |-> storage]
  IN reserveSidecar(FoldLeft(tryAdjustStorage, acc, u.storage), tee, class)

\* tryAdjust: status "node" when the node does not do, "cluster" when no node
\* can.  The request keeps the pinned model even when what follows fails.
tryAdjust(nd, storage, u, models, tee, fabric, claimed) ==
  LET fits  == /\ ~claimed
               /\ tryAdjustCPU(nd, u)
               /\ tryAdjustInterconnect(nd, u, fabric)
               /\ tryAdjustGPU(nd, u, models, TRUE)
      class == IF tee # "none" THEN RuntimeClassForTEEType(tee)
               ELSE IF u.gpu > 0 THEN "nvidia" ELSE ""
      acc   == afterGPU(nd, storage, u, tee, class)
  IN IF ~fits THEN [status |-> "node", models |-> models]
     ELSE [status |-> acc.status, nd |-> acc.nd, storage |-> acc.storage,
           models |-> pinned(nd, u, models, TRUE),
           params |-> [model |-> IF u.gpu = 0 THEN ""
                                 ELSE cards(nd, models, TRUE)[u.gpu].model,
                       class |-> class,
                       hca |-> IF u.group = NoGroup THEN 0 ELSE u.gpu,
                       fabric |-> IF u.group = NoGroup THEN "" ELSE nd.fabric]]

nullParams(nd, u, models, class) ==
  [NoParams EXCEPT !.model = IF u.gpu = 0 THEN "" ELSE cards(nd, models, FALSE)[u.gpu].model,
                   !.class = class]

\* The null client's: interfaces as the node names them, no runtime class for
\* a plain gpu and no interconnect.
nullTryAdjust(nd, storage, u, models, tee) ==
  LET fits  == tryAdjustCPU(nd, u) /\ tryAdjustGPU(nd, u, models, FALSE)
      class == IF tee # "none" THEN RuntimeClassForTEEType(tee) ELSE ""
      acc   == afterGPU(nd, storage, [u EXCEPT !.group = NoGroup], tee, class)
  IN IF ~fits THEN [status |-> "node", models |-> models]
     ELSE [status |-> acc.status, nd |-> acc.nd, storage |-> acc.storage,
           models |-> pinned(nd, u, models, FALSE),
           params |-> nullParams(nd, u, models, class)]

----------------------------------------------------------------------------
(* Adjust.                                                                 *)

\* A turn is one unit at one node: the last unit that has replicas left.  A
\* unit begun on an earlier node works on a copy of the request.
Turn(w) ==
  LET i == Len(w.left)
  IN IF i = 0 THEN w
     ELSE [w EXCEPT !.begun = w.left[i] # w.req.units[i].count,
                    !.models = w.adjusted[i]]

\* The walk works on copies; names of groups are valid labels here.
Adjust(asked, dry) ==
  /\ walk.state \in {"idle", "refused"}
  /\ Len(grants) < MaxGrants
  /\ LET req == resourcesToCommit(asked)
     IN walk' = Turn([state |-> "walking", asked |-> asked, req |-> req, dry |-> dry,
                      node |-> 1,
                      left |-> [i \in DOMAIN req.units |-> req.units[i].count],
                      adjusted |-> [i \in DOMAIN req.units |-> req.units[i].models],
                      params |-> [i \in DOMAIN req.units |-> NoParams],
                      claims |-> {}, curr |-> plCluster, placed |-> <<>>,
                      begun |-> FALSE, models |-> <<>>, err |-> ""])
  /\ UNCHANGED <<client, plCluster, grants>>

InTurn == walk.state = "walking" /\ walk.left # <<>> /\ walk.node <= Len(FreeNodes)

Unit == walk.req.units[Len(walk.left)]

tried ==
  LET nd == walk.curr.nodes[walk.node]
  IN IF client = "null"
     THEN nullTryAdjust(nd, walk.curr.storage, Unit, walk.models, walk.req.tee)
     ELSE tryAdjust(nd, walk.curr.storage, Unit, walk.models, walk.req.tee,
                    walk.req.fabric, <<Unit.group, walk.node>> \in walk.claims)

\* All replicas of a unit must pin the same.
Mismatch ==
  LET i == Len(walk.left)
  IN /\ walk.begun
     /\ tried.models # walk.adjusted[i] \/ tried.params # walk.params[i]

\* Mutant: the node is not claimed for the group.
unclaimed(n) == walk.claims

\* Peers of a group go to different nodes.
groupClaims(n) ==
  IF Unit.group = NoGroup THEN walk.claims ELSE walk.claims \cup {<<Unit.group, n>>}

placeReplica ==
  LET i == Len(walk.left)
      t == tried
      w == [walk EXCEPT !.curr.nodes[walk.node] = t.nd,
                        !.curr.storage = t.storage,
                        !.left[i] = @ - 1,
                        !.adjusted[i] = IF walk.begun THEN @ ELSE t.models,
                        !.params[i] = IF walk.begun THEN @ ELSE t.params,
                        !.models = t.models,
                        !.claims = groupClaims(walk.node),
                        !.placed = Append(@, <<i, walk.node>>)]
  IN /\ InTurn
     /\ t.status = "ok" /\ ~Mismatch
     /\ walk' = IF w.left[i] > 0 THEN w
                ELSE Turn([w EXCEPT !.left = Front(@), !.node = 1])
     /\ UNCHANGED <<client, plCluster, grants>>

\* "cannot satisfy node-wide resources, try with next node"
nextNode ==
  LET i == Len(walk.left)
  IN /\ InTurn
     /\ tried.status = "node"
     /\ walk' = Turn([walk EXCEPT !.node = @ + 1,
                                  !.adjusted[i] = IF walk.begun THEN @ ELSE tried.models])
     /\ UNCHANGED <<client, plCluster, grants>>

\* "cannot satisfy cluster-wide resources, stop lookup"
stopLookup ==
  /\ InTurn
  /\ tried.status = "cluster"
  /\ walk' = [walk EXCEPT !.state = "refused", !.err = "capacity"]
  /\ UNCHANGED <<client, plCluster, grants>>

groupResourceMismatch ==
  /\ InTurn
  /\ tried.status = "ok" /\ Mismatch
  /\ walk' = [walk EXCEPT !.state = "refused", !.err = "mismatch"]
  /\ UNCHANGED <<client, plCluster, grants>>

insufficientCapacity ==
  /\ walk.state = "walking" /\ walk.left # <<>> /\ walk.node > Len(FreeNodes)
  /\ walk' = [walk EXCEPT !.state = "refused", !.err = "capacity"]
  /\ UNCHANGED <<client, plCluster, grants>>

\* Everything is placed; a dry run changes nothing.
allPlaced ==
  /\ walk.state = "walking" /\ walk.left = <<>>
  /\ IF walk.dry THEN UNCHANGED <<plCluster, grants>>
     ELSE /\ plCluster' = walk.curr
          /\ grants' = Append(grants, [asked |-> walk.asked, params |-> walk.params,
                                       placed |-> walk.placed])
  /\ walk' = Idle
  /\ UNCHANGED client

Next ==
  \/ \E req \in Requests, dry \in BOOLEAN : Adjust(req, dry)
  \/ placeReplica \/ nextNode \/ stopLookup \/ groupResourceMismatch
  \/ insufficientCapacity \/ allPlaced

Spec == Init /\ [][Next]_plVars

----------------------------------------------------------------------------
(* The pods of a granted order.                                            *)

AtLeast(q, least) == IF q < least THEN least ELSE q
AtMost(q, most)   == IF q > most THEN most ELSE q

sumSizes(volumes) == FoldLeft(LAMBDA a, v : a + v.size, 0, volumes)

ramOf(u) == SelectSeq(u.storage, LAMBDA v : ~v.persistent /\ v.class = "ram")
diskOf(u) == SelectSeq(u.storage, LAMBDA v : ~v.persistent /\ v.class = "")

\* Requests and limits of the tenant's container, whose share of a pod with a
\* sidecar is what the sidecar leaves.
container(u, p, sidecar) ==
  LET cpuLimit  == IF sidecar THEN AtLeast(u.cpu - SidecarCPULimit, MinPrimaryCPU) ELSE u.cpu
      cpu       == Committed("cpu", u.cpu)
      memLimit  == LET m == u.memory + sumSizes(ramOf(u))
                   IN IF sidecar THEN AtLeast(m - SidecarMemoryLimit(p.class), MinPrimaryMemory)
                                 ELSE m
      memory    == Committed("memory", u.memory)
      disks     == diskOf(u)
  IN [request |->
        [cpu |-> IF sidecar
                 THEN AtMost(AtLeast(cpu - SidecarCPURequest, MinPrimaryCPU), cpuLimit) ELSE cpu,
         memory |-> IF sidecar
                    THEN AtMost(AtLeast(memory - SidecarMemoryRequest(p.class),
                                        MinPrimaryMemory), memLimit)
                    ELSE memory,
         gpu |-> IF u.gpu = 0 THEN 0 ELSE Committed("gpu", u.gpu),
         hca |-> p.hca,
         disk |-> IF disks = <<>> THEN 0 ELSE Committed("storage", Last(disks).size)],
      limit |->
        [cpu |-> cpuLimit, memory |-> memLimit, gpu |-> u.gpu, hca |-> p.hca,
         disk |-> IF disks = <<>> THEN 0 ELSE Last(disks).size]]

\* The webhook's condition on a pod, and what it adds.
ShouldInject(p, optout) == WithCC(p.class) /\ ~optout

sidecarResources(p) ==
  [cpu |-> SidecarCPURequest, memory |-> SidecarMemoryRequest(p.class),
   gpu |-> 0, hca |-> 0, disk |-> 0]

podRequest(u, p, optout) ==
  LET c == container(u, p, ShouldInject(p, optout)).request
  IN IF ShouldInject(p, optout)
     THEN [r \in DOMAIN c |-> c[r] + sidecarResources(p)[r]] ELSE c

\* nodeSelectorsFromResources and the storage selectors of affinity().
selected(nd, u, p) ==
  /\ p.model # "" => \E i \in DOMAIN nd.cards : nd.cards[i].model = p.model
  /\ \A i \in DOMAIN u.storage :
       u.storage[i].persistent => u.storage[i].class \in nd.classes

----------------------------------------------------------------------------

Resources == {"cpu", "gpu", "memory", "hca", "disk"}

TypeOK ==
  /\ walk.state \in {"idle", "walking", "refused"}
  /\ \A n \in DOMAIN FreeNodes : \A r \in Resources :
       plCluster.nodes[n][r] \in 0..FreeNodes[n][r]

\* The pods of grant g on node n.
PodsOn(g, n) ==
  LET here == SelectSeq(g.placed, LAMBDA x : x[2] = n)
  IN [k \in DOMAIN here |-> podRequest(g.asked.units[here[k][1]], g.params[here[k][1]],
                                       g.asked.optout)]

Load(n, r) ==
  FoldLeft(LAMBDA a, g : FoldLeft(LAMBDA b, pod : b + pod[r], a, PodsOn(g, n)), 0, grants)

\* Every order the provider was granted can be scheduled: on the nodes that
\* Adjust chose the requests of all pods, the injected sidecars included, stay
\* within what was free, each node carries the labels its pods select and a
\* gpu model the tenant asked for, pods of one interconnect group are on
\* different nodes, and no container requests more than its limit
\* (workload.go 506: "pods no longer end up Pending because the bid step
\* accepted what the kube scheduler couldn't").
GrantedIsSchedulable ==
  /\ \A n \in DOMAIN FreeNodes : \A r \in Resources : Load(n, r) <= FreeNodes[n][r]
  /\ \A k \in DOMAIN grants :
       LET g == grants[k]
       IN \A a \in DOMAIN g.placed :
            LET u == g.asked.units[g.placed[a][1]]
                p == g.params[g.placed[a][1]]
                c == container(u, p, ShouldInject(p, g.asked.optout))
            IN /\ selected(FreeNodes[g.placed[a][2]], u, p)
               /\ p.model # "" => ExistsOrWildcard(u.models, p.model) # <<>>
               /\ \A r \in Resources : c.request[r] <= c.limit[r]
               /\ \A b \in DOMAIN g.placed \ {a} :
                    (client = "kube" /\ u.group # NoGroup
                      /\ g.asked.units[g.placed[b][1]].group = u.group)
                    => g.placed[b][2] # g.placed[a][2]

\* An order for one replica is refused for want of capacity only when no node
\* can take it (inventory.go 507, "cannot satisfy node-wide resources, try
\* with next node").
RefusedHasNoRoom ==
  ( /\ client = "kube" /\ walk.state = "refused" /\ walk.err = "capacity"
    /\ Len(walk.req.units) = 1 /\ walk.req.units[1].count = 1 )
  => \A n \in DOMAIN FreeNodes :
       tryAdjust(plCluster.nodes[n], plCluster.storage, walk.req.units[1],
                 walk.req.units[1].models, walk.req.tee, walk.req.fabric, FALSE).status # "ok"
=============================================================================
