--------------------------- MODULE ReservationsMC ---------------------------
(***************************************************************************)
(* Who holds what: the hostname service with all its callers, and the      *)
(* inventory service and its reservations. One of them runs in a           *)
(* behaviour.                                                              *)
(***************************************************************************)
EXTENDS LeaseHostnames, TLC

CONSTANT Parts   \* the components that may run: "hostnames", "inventory"

VARIABLES
  ipClient, invPhase, reservations, allocated, ipsConfirmed, inventory, currinv,
  invupch, reservech, checkch, timer, ipAddrUsage, ports, unfit, caller, workload,
  served, invch, events, snapshots, published,
  part   \* the component that runs

\* Two leases of two tenants that want the same hostname, in two spellings.
OwnerOfLease == [l \in Leases |-> IF l = "l3" THEN "t2" ELSE "t1"]
OwnGroup     == [l \in Leases |-> l]
LowerOf      == [h \in Hosts |-> IF h = "A" THEN "a" ELSE h]

\* Two leases of one group, as after the group was closed and started again.
OneOwner    == [l \in Leases |-> "t1"]
SharedGroup == [l \in Leases |-> "l1"]

\* Each lease is offered two manifests, and there is one update, migration or
\* restart, at any moment.
Offered == [l1 |-> {{}, {"a"}, None}, l3 |-> {{"A"}, {"a", "A"}, None}]
OneDisturbance ==
  /\ updates' + migrations' + restarts' <= 1
  /\ \A l \in Leases : submitted'[l] \in Offered[l]

\* The resource units of the two orders of the inventory service.
Units ==
  [b |-> << [size |-> 1, volume |-> 0, count |-> 1, gpu |-> FALSE],
            [size |-> 2, volume |-> 1, count |-> 2, gpu |-> TRUE] >>,
   c |-> << [size |-> 2, volume |-> 2, count |-> 1, gpu |-> FALSE] >>]

\* To keep the instance small the inventory service stops only while it has a call
\* and a check to attend to, nothing changes outside it before its loop or after,
\* pods are evicted only where no addresses are leased, and there are at most three
\* snapshots and events.
Bounded ==
  /\ invPhase = "loop" \/ UNCHANGED <<workload, served, invch, events, snapshots, published>>
  /\ invPhase = "loop" /\ invPhase' = "draining" =>
       checkch.stage # "none" /\ \E o \in {"b", "c"} : caller[o] \in {"reserving", "unreserving"}
  /\ snapshots' + published' <= 3
  /\ ipClient => \A o \in workload : o \in workload' \/ caller'[o] # "leased"

I == INSTANCE Inventory WITH
  Orders <- {"b", "c"}, Units <- Units, LeasedIPs <- [b |-> 1, c |-> 0],
  IPPorts <- [b |-> 1, c |-> 0], RandomPorts <- [b |-> 1, c |-> 2], Capacity <- <<2, 2>>,
  Storage <- 4, Model <- <<"x", "y">>, CommitLevel <- 2, PortQuantity <- 2, IPTotal <- 1,
  Word <- 8, Recovered <- {"c"}, MaxSnapshots <- 2, MaxEvents <- 2, phase <- invPhase,
  runch <- checkch

inventoryVars == <<ipClient, invPhase, reservations, allocated, ipsConfirmed, inventory,
                   currinv, invupch, reservech, checkch, timer, ipAddrUsage, ports,
                   unfit, caller, workload, served, invch, events, snapshots, published>>

allVars == <<vars, inventoryVars, part>>

\* The components that do not run stay in one of their initial states.
MCInit ==
  /\ part \in Parts
  /\ Init
  /\ I!Init /\ (part # "inventory" => ipClient)

Hostnames ==
  /\ part = "hostnames" /\ Next /\ OneDisturbance
  /\ UNCHANGED <<inventoryVars, part>>
Inventory ==
  /\ part = "inventory" /\ I!Next /\ Bounded
  /\ UNCHANGED <<vars, part>>

MCNext == Hostnames \/ Inventory

MCSpec == MCInit /\ [][MCNext]_allVars

-----------------------------------------------------------------------------

\* Nothing is granted twice: the external ports and the room that the inventory
\* service believes to be free are those no reservation holds, and addresses stop
\* counting as reserved only once the IP operator has set them up.
RoomAccounted ==
  part = "inventory" => I!PortsAccounted /\ I!HeldRoomIsTaken /\ I!ConfirmedExist

\* A reservation that stands is held by the inventory the next request is matched
\* against, and reserve calls wait for nothing but the first snapshot or an
\* address check in flight.
StandingIsHeld == part = "inventory" => I!StandingIsHeld /\ I!GateReopens
=============================================================================
