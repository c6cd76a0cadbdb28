-------------------------------- MODULE Inventory ------------------------------
(***************************************************************************)
(* The inventory service of the cluster (cluster/inventory.go): the        *)
(* goroutine that answers the reserve, lookup and unreserve calls of the   *)
(* bid engine and of the cluster service, against the last snapshot of the *)
(* cluster that the inventory operator sent, and that asks the IP operator *)
(* how many leased addresses are taken.                                    *)
(*                                                                         *)
(* One number per node stands for its resources (module Placement tells    *)
(* them apart), and one for the persistent storage of the cluster.         *)
(* `holds' is the set of orders whose resources the numbers of an          *)
(* inventory leave out: those whose pods the operator counted and those    *)
(* that Adjust subtracted.                                                 *)
(***************************************************************************)
EXTENDS Naturals, Sequences, SequencesExt

CONSTANTS
  Orders,        \* orders, each for one deployment group
  Units,         \* Units[o]: its resource units, [size, volume, count, gpu]
  LeasedIPs,     \* LeasedIPs[o]: the leased addresses it asks for
  IPPorts,       \* IPPorts[o]: the ports it exposes on them
  RandomPorts,   \* RandomPorts[o]: the external ports it asks for
  Capacity,      \* Capacity[n]: what node n can hold
  Storage,       \* persistent storage of the cluster
  Model,         \* Model[n]: the gpu model of node n
  CommitLevel,   \* how far the provider overcommits, in whole numbers
  PortQuantity,  \* config.InventoryExternalPortQuantity
  IPTotal,       \* addresses of the IP operator's pool
  Word,          \* 2^w for the machine's unsigned integers
  Recovered,     \* orders deployed before the provider started
  MaxSnapshots,  \* bound: snapshots the operator sends
  MaxEvents      \* bound: deployment events published

VARIABLES
  ipClient,      \* clients.ip # nil: the provider leases addresses
  phase,         \* "waiting" | "loop" | "draining" | "stopped" | "panicked"
  reservations,  \* state.reservations: their orders, oldest first
  allocated,     \* orders whose reservation is marked allocated
  ipsConfirmed,  \* orders whose reservation has ipsConfirmed
  inventory,     \* state.inventory
  currinv,       \* the snapshot as received, before any Adjust
  invupch,       \* the one-place buffer of inventories to apply
  reservech,     \* reserve calls are taken
  runch,         \* the address check in flight
  timer,         \* the five-second timer runs
  ipAddrUsage,   \* state.ipAddrUsage.InUse; Available is IPTotal once known
  ports,         \* availableExternalPorts
  unfit,         \* history: orders whose last Adjust failed
  caller,        \* caller[o]: what the bid engine and the cluster do with o
  workload,      \* orders whose pods are in the cluster
  served,        \* served[o]: ports of o the IP operator has set up
  invch,         \* snapshots sent and not yet received
  events,        \* ClusterDeployment events published and not yet received
  snapshots,     \* snapshots sent so far
  published      \* events published so far

service  == <<phase, reservations, allocated, ipsConfirmed, inventory, currinv,
              invupch, reservech, runch, timer, ipAddrUsage, ports, unfit>>
outside  == <<workload, served, invch, events, snapshots, published>>
vars     == <<ipClient, service, caller, outside>>

\* No inventory, and the answer of Adjust when what is asked for does not fit.
Nil     == [nodes |-> <<>>, storage |-> 0, holds |-> {}]
Nodes   == DOMAIN Capacity
Total(s) == FoldLeft(+, 0, s)
SumOver(f, S) == FoldFunctionOnSet(+, 0, f, S)

----------------------------------------------------------------------------
(* Resources.                                                              *)

\* ComputeCommittedResources: the quantity divided by the commit level and
\* rounded, at least one; a level of one or less changes nothing.
Committed(q) ==
  IF CommitLevel <= 1 THEN q
  ELSE Max({1, (2 * q + CommitLevel) \div (2 * CommitLevel)})

resourcesToCommit(units) ==
  [i \in DOMAIN units |-> [units[i] EXCEPT !.size = Committed(@),
                                             !.volume = IF @ = 0 THEN 0 ELSE Committed(@)]]

\* What the reservation of o asks Adjust for.  A reservation made for a
\* deployment found in the cluster is made of its manifest, unscaled.
Requested(o) == IF o \in Recovered THEN Units[o] ELSE resourcesToCommit(Units[o])

\* The pods of an order, and their volumes, ask for the committed quantities.
PodsOf ==
  [o \in Orders |-> LET c == resourcesToCommit(Units[o])
                    IN Total([i \in DOMAIN c |-> c[i].size * c[i].count])]
VolumesOf ==
  [o \in Orders |-> LET c == resourcesToCommit(Units[o])
                    IN Total([i \in DOMAIN c |-> c[i].volume * c[i].count])]

\* How many of `left' things of this size there is room for.
Fit(left, size, room) == IF size = 0 THEN left ELSE Min({left, room \div size})

\* One node's turn for the replicas of unit u still to be placed: as many as
\* fit.  The first replica pins the gpu model, so that nodes of another are
\* passed over, and storage that runs out ends the search.
TryNode(u, p, n) ==
  LET onNode == IF u.gpu /\ p.left < u.count /\ p.model # Model[n] THEN 0
                ELSE Fit(p.left, u.size, p.inv.nodes[n])
      fit    == Fit(onNode, u.volume, p.inv.storage)
  IN IF p.failed \/ onNode = 0 THEN p
     ELSE IF fit < onNode THEN [p EXCEPT !.failed = TRUE]
     ELSE [p EXCEPT !.inv.nodes[n] = @ - fit * u.size,
                    !.inv.storage = @ - fit * u.volume,
                    !.left = @ - fit,
                    !.model = Model[n]]

\* Place all replicas of a unit, the nodes from the first.
PlaceUnit(u, inv) ==
  LET p == FoldLeft(LAMBDA q, n : TryNode(u, q, n),
                    [inv |-> inv, left |-> u.count, model |-> "none",
                     failed |-> FALSE],
                    [n \in Nodes |-> n])
  IN IF p.failed \/ p.left > 0 THEN Nil ELSE p.inv

\* inventory.Adjust: the units from the last, each from the first node again.
\* What is left when all are placed, otherwise Nil and nothing changes.
Adjust(inv, o) ==
  LET left == FoldRight(LAMBDA u, acc : IF acc = Nil THEN Nil ELSE PlaceUnit(u, acc),
                        Requested(o), inv)
  IN IF left = Nil THEN Nil ELSE [left EXCEPT !.holds = @ \cup {o}]

----------------------------------------------------------------------------
(* Leased addresses.                                                       *)

Reserved == ToSet(reservations)

\* No address asked for is confirmed from the start.
countReservedIPs == SumOver(LeasedIPs, Reserved \ ipsConfirmed)

\* The answer saturates at zero: the counts are unsigned.
availableLeasedIPs(total, inUse, reserved) ==
  IF inUse >= total \/ reserved >= total - inUse THEN 0
  ELSE total - inUse - reserved

NoUsage == [total |-> 0, inUse |-> 0]
NoCheck == [stage |-> "none", todo |-> {}, usage |-> NoUsage, confirmed |-> {}]

runCheck ==
  [NoCheck EXCEPT !.stage = "usage",
                  !.todo = (allocated' \cap ToSet(reservations')) \ ipsConfirmed']

\* updateIPs: with an IP operator no reserve call is taken until a check of
\* the addresses has returned; without one, once an inventory is known.
updateIPs(running) ==
  IF ipClient
  THEN /\ reservech' = FALSE
       /\ IF runch = NoCheck
          THEN runch' = runCheck /\ timer' = FALSE
          ELSE runch' = runch /\ timer' = running
  ELSE /\ reservech' = (reservech \/ inventory' # Nil)
       /\ UNCHANGED runch
       /\ timer' = running
----------------------------------------------------------------------------
\* run starts with the deployments found in the cluster as reservations, none
\* of them allocated, and waits for the operators.
Init ==
  /\ ipClient \in BOOLEAN
  /\ phase = "waiting"
  /\ reservations = SetToSeq(Recovered)
  /\ allocated = {} /\ ipsConfirmed = {} /\ unfit = {}
  /\ inventory = Nil /\ currinv = Nil /\ invupch = Nil
  /\ reservech = FALSE /\ timer = FALSE /\ runch = NoCheck
  /\ ipAddrUsage = NoUsage
  /\ ports = PortQuantity
  /\ caller = [o \in Orders |-> IF o \in Recovered THEN "leased" ELSE "new"]
  /\ workload = Recovered
  /\ served = [o \in Orders |-> 0]
  /\ invch = <<>> /\ events = <<>>
  /\ snapshots = 0 /\ published = 0

\* WaitForAll returns: the operators answer, or the wait fails.
OperatorsReady ==
  /\ phase = "waiting"
  /\ phase' \in {"loop", "stopped"}
  /\ UNCHANGED <<ipClient, reservations, allocated, ipsConfirmed, inventory,
                 currinv, invupch, reservech, runch, timer, ipAddrUsage, ports,
                 unfit, caller, outside>>

----------------------------------------------------------------------------
(* The calls.                                                              *)

NoAddresses(o) ==
  /\ LeasedIPs[o] # 0
  /\ \/ ~ipClient
     \/ LeasedIPs[o] > availableLeasedIPs(ipAddrUsage.total, ipAddrUsage.inUse,
                                          countReservedIPs)

Taken(o) == phase = "loop" /\ reservech /\ caller[o] = "reserving"

\* handleRequest without addresses or room for the order.
ReserveRefused(o) ==
  /\ Taken(o)
  /\ \/ NoAddresses(o)
     \/ inventory # Nil /\ Adjust(inventory, o) = Nil
  /\ caller' = [caller EXCEPT ![o] = "refused"]
  /\ UNCHANGED <<ipClient, service, outside>>

\* handleRequest with room: the reservation is listed and its room taken.
ReserveGranted(o) ==
  /\ Taken(o)
  /\ ~NoAddresses(o)
  /\ inventory # Nil /\ Adjust(inventory, o) # Nil
  /\ inventory' = Adjust(inventory, o)
  /\ reservations' = Append(reservations, o)
  /\ ipsConfirmed' = IF LeasedIPs[o] = 0 THEN ipsConfirmed \cup {o} ELSE ipsConfirmed
  /\ caller' = [caller EXCEPT ![o] = "reserved"]
  /\ UNCHANGED <<ipClient, phase, allocated, currinv, invupch, reservech, runch,
                 timer, ipAddrUsage, ports, unfit, outside>>

\* handleRequest before any snapshot: Adjust of a nil inventory panics.
ReservePanics(o) ==
  /\ Taken(o)
  /\ ~NoAddresses(o)
  /\ inventory = Nil
  /\ phase' = "panicked"
  /\ UNCHANGED <<ipClient, reservations, allocated, ipsConfirmed, inventory,
                 currinv, invupch, reservech, runch, timer, ipAddrUsage, ports,
                 unfit, caller, outside>>

\* Mutant: the ports of an allocated reservation are not given back.
UnreserveKeepsPorts(o) ==
  /\ phase = "loop"
  /\ caller[o] = "unreserving"
  /\ reservations' = RemoveFirst(reservations, o)
  /\ allocated' = allocated \ {o}
  /\ ipsConfirmed' = ipsConfirmed \ {o}
  /\ unfit' = unfit \ {o}
  /\ caller' = [caller EXCEPT ![o] = "done"]
  /\ UNCHANGED <<ipClient, phase, inventory, currinv, invupch, reservech, runch,
                 timer, ipAddrUsage, ports, outside>>

\* unreserve: the reservation leaves the list and gives its ports back.  Its
\* room stays taken until the next snapshot.
Unreserve(o) ==
  /\ phase = "loop"
  /\ caller[o] = "unreserving"
  /\ reservations' = RemoveFirst(reservations, o)
  /\ ports' = IF o \in allocated THEN (ports + RandomPorts[o]) % Word ELSE ports
  /\ allocated' = allocated \ {o}
  /\ ipsConfirmed' = ipsConfirmed \ {o}
  /\ unfit' = unfit \ {o}
  /\ caller' = [caller EXCEPT ![o] = "done"]
  /\ UNCHANGED <<ipClient, phase, inventory, currinv, invupch, reservech, runch,
                 timer, ipAddrUsage, outside>>

\* A call finds the service shutting down.
NotRunning(o) ==
  /\ phase \in {"draining", "stopped"}
  /\ caller[o] \in {"reserving", "unreserving"}
  /\ caller' = [caller EXCEPT ![o] = IF @ = "reserving" THEN "refused" ELSE "done"]
  /\ UNCHANGED <<ipClient, service, outside>>

----------------------------------------------------------------------------
(* The other cases of the loop.                                            *)

\* Mutant: the snapshot is not applied again when an allocation changes.
ClusterDeploymentNoReapply ==
  /\ phase = "loop" /\ events # <<>>
  /\ LET o   == Head(events).order
         up  == Head(events).deployed
         chg == o \in Reserved /\ up # (o \in allocated)
     IN /\ allocated' = IF ~chg THEN allocated
                        ELSE IF up THEN allocated \cup {o} ELSE allocated \ {o}
        /\ ports' = IF ~chg THEN ports
                    ELSE IF up THEN (ports + Word - RandomPorts[o]) % Word
                    ELSE (ports + RandomPorts[o]) % Word
  /\ events' = Tail(events)
  /\ UNCHANGED <<ipClient, phase, reservations, ipsConfirmed, inventory, currinv,
                 invupch, ipAddrUsage, unfit, caller, workload, served, invch,
                 snapshots, published>>
  /\ updateIPs(timer)

\* A ClusterDeployment event.  A reservation whose allocation changes takes or
\* gives back its ports, and has the last snapshot applied again.
ClusterDeployment ==
  /\ phase = "loop" /\ events # <<>>
  /\ LET o   == Head(events).order
         up  == Head(events).deployed
         chg == o \in Reserved /\ up # (o \in allocated)
     IN /\ allocated' = IF ~chg THEN allocated
                        ELSE IF up THEN allocated \cup {o} ELSE allocated \ {o}
        /\ ports' = IF ~chg THEN ports
                    ELSE IF up THEN (ports + Word - RandomPorts[o]) % Word
                    ELSE (ports + RandomPorts[o]) % Word
        /\ invupch' = IF chg /\ currinv # Nil /\ invupch = Nil THEN currinv ELSE invupch
  /\ events' = Tail(events)
  /\ UNCHANGED <<ipClient, phase, reservations, ipsConfirmed, inventory, currinv,
                 ipAddrUsage, unfit, caller, workload, served, invch, snapshots,
                 published>>
  /\ updateIPs(timer)

TimerFires ==
  /\ phase = "loop" /\ timer
  /\ UNCHANGED <<ipClient, phase, reservations, allocated, ipsConfirmed, inventory,
                 currinv, invupch, ipAddrUsage, ports, unfit, caller, outside>>
  /\ updateIPs(FALSE)

\* A snapshot arrives and replaces the one that waits to be applied.
ReceiveSnapshot ==
  /\ phase = "loop" /\ invch # <<>>
  /\ invupch' = Head(invch)
  /\ invch' = Tail(invch)
  /\ UNCHANGED <<ipClient, phase, reservations, allocated, ipsConfirmed, inventory,
                 currinv, reservech, runch, timer, ipAddrUsage, ports, unfit,
                 caller, workload, served, events, snapshots, published>>

\* The reservations that are not allocated are subtracted from the snapshot, in
\* the order they were made.  One that does not fit is only logged.
Readjust(inv, pending) ==
  FoldLeft(LAMBDA acc, o :
             IF Adjust(acc.inv, o) = Nil
             THEN [acc EXCEPT !.unfit = @ \cup {o}]
             ELSE [acc EXCEPT !.inv = Adjust(acc.inv, o), !.unfit = @ \ {o}],
           [inv |-> inv, unfit |-> unfit], pending)

Pending == SelectSeq(reservations, LAMBDA o : o \notin allocated)

ApplySnapshot ==
  /\ phase = "loop" /\ invupch # Nil
  /\ LET adjusted == Readjust(invupch, Pending)
     IN inventory' = adjusted.inv /\ unfit' = adjusted.unfit
  /\ currinv' = invupch
  /\ invupch' = Nil
  /\ UNCHANGED <<ipClient, phase, reservations, allocated, ipsConfirmed,
                 ipAddrUsage, ports, caller, outside>>
  /\ updateIPs(timer)

\* The result of an address check.  Reserve calls are taken again.
CheckDone ==
  /\ phase = "loop" /\ runch.stage \in {"done", "failed"}
  /\ IF runch.stage = "done"
     THEN /\ ipAddrUsage' = runch.usage
          /\ ipsConfirmed' = ipsConfirmed \cup (runch.confirmed \cap Reserved)
     ELSE UNCHANGED <<ipAddrUsage, ipsConfirmed>>
  /\ runch' = NoCheck
  /\ timer' = TRUE
  /\ reservech' = TRUE
  /\ UNCHANGED <<ipClient, phase, reservations, allocated, inventory, currinv,
                 invupch, ports, unfit, caller, outside>>

ShutdownRequest ==
  /\ phase = "loop"
  /\ phase' = "draining"
  /\ UNCHANGED <<ipClient, reservations, allocated, ipsConfirmed, inventory,
                 currinv, invupch, reservech, runch, timer, ipAddrUsage, ports,
                 unfit, caller, outside>>

\* The loop has ended: the check in flight is awaited.
Drained ==
  /\ phase = "draining" /\ runch.stage \in {"none", "done", "failed"}
  /\ phase' = "stopped"
  /\ UNCHANGED <<ipClient, reservations, allocated, ipsConfirmed, inventory,
                 currinv, invupch, reservech, runch, timer, ipAddrUsage, ports,
                 unfit, caller, outside>>

----------------------------------------------------------------------------
(* The address check: the usage is read first, then the status of each     *)
(* allocated reservation whose addresses are not confirmed.                *)

\* Addresses in use, as the IP operator counts them.
InUse == SumOver(LeasedIPs, {o \in Orders : served[o] > 0})

ReadUsage ==
  /\ runch.stage = "usage"
  /\ \/ runch' = [runch EXCEPT !.stage = "status",
                               !.usage = [total |-> IPTotal, inUse |-> InUse]]
     \/ runch' = [NoCheck EXCEPT !.stage = "failed"]
  /\ UNCHANGED <<ipClient, phase, reservations, allocated, ipsConfirmed, inventory,
                 currinv, invupch, reservech, timer, ipAddrUsage, ports, unfit,
                 caller, outside>>

\* The status has one entry per port; a query that fails confirms nothing.
ReadStatus(o) ==
  /\ runch.stage = "status" /\ o \in runch.todo
  /\ \/ /\ served[o] = LeasedIPs[o]
        /\ runch' = [runch EXCEPT !.todo = @ \ {o}, !.confirmed = @ \cup {o}]
     \/ runch' = [runch EXCEPT !.todo = @ \ {o}]
  /\ UNCHANGED <<ipClient, phase, reservations, allocated, ipsConfirmed, inventory,
                 currinv, invupch, reservech, timer, ipAddrUsage, ports, unfit,
                 caller, outside>>

CheckEnds ==
  /\ runch.stage = "status" /\ runch.todo = {}
  /\ runch' = [runch EXCEPT !.stage = "done"]
  /\ UNCHANGED <<ipClient, phase, reservations, allocated, ipsConfirmed, inventory,
                 currinv, invupch, reservech, timer, ipAddrUsage, ports, unfit,
                 caller, outside>>

----------------------------------------------------------------------------
(* The callers, the cluster and the operators.                             *)

\* The bid engine reserves for an order it may bid on.
AskReserve(o) ==
  /\ caller[o] = "new"
  /\ caller' = [caller EXCEPT ![o] = "reserving"]
  /\ UNCHANGED <<ipClient, service, outside>>

\* The bid is lost, or the lease closes before it has a manager.
BidLost(o) ==
  /\ caller[o] = "reserved"
  /\ caller' = [caller EXCEPT ![o] = "unreserving"]
  /\ UNCHANGED <<ipClient, service, outside>>

\* ManifestReceived: lookup finds the reservation and the lease gets a manager.
ManifestReceived(o) ==
  /\ caller[o] = "reserved"
  /\ phase = "loop" /\ o \in Reserved
  /\ caller' = [caller EXCEPT ![o] = "leased"]
  /\ UNCHANGED <<ipClient, service, outside>>

\* Pods are scheduled where there is room for them, and may be evicted.
PodsScheduled(o) ==
  /\ caller[o] = "leased" /\ o \notin workload
  /\ SumOver(PodsOf, workload \cup {o}) <= Total(Capacity)
  /\ SumOver(VolumesOf, workload \cup {o}) <= Storage
  /\ workload' = workload \cup {o}
  /\ UNCHANGED <<ipClient, service, caller, served, invch, events, snapshots, published>>

PodsEvicted(o) ==
  /\ caller[o] = "leased" /\ o \in workload
  /\ workload' = workload \ {o}
  /\ UNCHANGED <<ipClient, service, caller, served, invch, events, snapshots, published>>

\* The lease's monitor publishes what it found: deployed only if the pods run.
Publish(o) ==
  /\ caller[o] = "leased" /\ published < MaxEvents
  /\ \E up \in {o \in workload, FALSE} :
       events' = Append(events, [order |-> o, deployed |-> up])
  /\ published' = published + 1
  /\ UNCHANGED <<ipClient, service, caller, workload, served, invch, snapshots>>

\* The lease has closed and its manager has torn its workload down.
TearDown(o) ==
  /\ caller[o] = "leased"
  /\ workload' = workload \ {o}
  /\ caller' = [caller EXCEPT ![o] = "unreserving"]
  /\ UNCHANGED <<ipClient, service, served, invch, events, snapshots, published>>

\* The inventory operator sends what the pods leave free, wherever they are
\* scheduled; a client that loses the operator sends an empty cluster.
Snapshot ==
  /\ snapshots < MaxSnapshots
  /\ snapshots' = snapshots + 1
  /\ \/ \E nodes \in [Nodes -> 0..Max(ToSet(Capacity))] :
          /\ \A n \in Nodes : nodes[n] <= Capacity[n]
          /\ Total(nodes) + SumOver(PodsOf, workload) = Total(Capacity)
          /\ invch' = Append(invch, [nodes |-> nodes,
                                     storage |-> Storage - SumOver(VolumesOf, workload),
                                     holds |-> workload])
     \/ invch' = Append(invch, [nodes |-> [n \in Nodes |-> 0], storage |-> 0,
                                holds |-> {}])
  /\ UNCHANGED <<ipClient, service, caller, workload, served, events, published>>

\* The IP operator sets up the ports of a lease one by one.
ServePort(o) ==
  /\ caller[o] = "leased" /\ LeasedIPs[o] > 0 /\ served[o] < IPPorts[o]
  /\ served[o] > 0 \/ InUse + LeasedIPs[o] <= IPTotal
  /\ served' = [served EXCEPT ![o] = @ + 1]
  /\ UNCHANGED <<ipClient, service, caller, workload, invch, events, snapshots, published>>

WithdrawPorts(o) ==
  /\ caller[o] \in {"unreserving", "done"} /\ served[o] > 0
  /\ served' = [served EXCEPT ![o] = 0]
  /\ UNCHANGED <<ipClient, service, caller, workload, invch, events, snapshots, published>>

Next ==
  \/ OperatorsReady \/ ClusterDeployment \/ TimerFires \/ ReceiveSnapshot
  \/ ApplySnapshot \/ CheckDone \/ ShutdownRequest \/ Drained
  \/ ReadUsage \/ CheckEnds \/ Snapshot
  \/ \E o \in Orders :
       \/ ReserveRefused(o) \/ ReserveGranted(o) \/ ReservePanics(o)
       \/ Unreserve(o) \/ NotRunning(o) \/ ReadStatus(o)
       \/ AskReserve(o) \/ BidLost(o) \/ ManifestReceived(o)
       \/ PodsScheduled(o) \/ PodsEvicted(o) \/ Publish(o) \/ TearDown(o)
       \/ ServePort(o) \/ WithdrawPorts(o)

Spec == Init /\ [][Next]_vars

----------------------------------------------------------------------------
(* Properties.                                                             *)

Inventories == [nodes : [Nodes -> Nat], storage : Nat, holds : SUBSET Orders]

\* Every variable has its type; ports stay within the machine word, and a
\* check is in flight only when there is an IP operator.
TypeOK ==
  /\ ipClient \in BOOLEAN
  /\ phase \in {"waiting", "loop", "draining", "stopped", "panicked"}
  /\ IsInjective(reservations) /\ Reserved \subseteq Orders
  /\ allocated \subseteq Reserved /\ ipsConfirmed \subseteq Reserved
  /\ unfit \subseteq Reserved
  /\ inventory \in Inventories \cup {Nil}
  /\ currinv \in Inventories \cup {Nil}
  /\ invupch \in Inventories \cup {Nil}
  /\ reservech \in BOOLEAN /\ timer \in BOOLEAN
  /\ runch \in [stage : {"none", "usage", "status", "done", "failed"},
                todo : SUBSET Orders,
                usage : [total : 0..IPTotal, inUse : 0..IPTotal],
                confirmed : SUBSET Orders]
  /\ ~ipClient => runch = NoCheck
  /\ ports \in 0..(Word - 1)

\* The external ports left are the configured ones less those of the allocated
\* reservations, whatever deployments come up, fail and close, and whichever
\* of them were there before the provider started.
PortsAccounted ==
  (ports + SumOver(RandomPorts, allocated)) % Word = PortQuantity % Word

\* The room the service believes to be free is not room of an order that its
\* inventory holds: no Adjust grants a node's room, or storage, a second time.
HeldRoomIsTaken ==
  inventory # Nil =>
    /\ Total(inventory.nodes) + SumOver(PodsOf, inventory.holds) <= Total(Capacity)
    /\ inventory.storage + SumOver(VolumesOf, inventory.holds) <= Storage

\* A reservation that stands is held by the inventory that the next request is
\* matched against.  The exceptions are named: one deployed before a snapshot
\* counted its pods, one that did not fit the last snapshot, and the moment
\* between a change of allocation and the snapshot applied again.
StandingIsHeld ==
  inventory # Nil =>
    \A o \in Reserved :
      \/ o \in inventory.holds
      \/ o \in allocated \ currinv.holds
      \/ o \in unfit
      \/ invupch # Nil
      \/ caller[o] = "unreserving"

\* The addresses of a confirmed reservation exist: they stop being counted as
\* reserved only once the IP operator has set them up.
ConfirmedExist ==
  \A o \in ipsConfirmed :
    caller[o] = "leased" /\ LeasedIPs[o] > 0 => served[o] > 0

\* Reserve calls wait for nothing but the first snapshot or an address check
\* that is in flight: however events, timers, snapshots and results follow each
\* other, no closed channel is left without the step that opens it.
GateReopens ==
  phase = "loop" /\ ~reservech => inventory = Nil \/ runch # NoCheck

================================================================================
