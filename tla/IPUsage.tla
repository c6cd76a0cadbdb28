------------------------------- MODULE IPUsage -------------------------------
(***************************************************************************)
(* How the provider knows how many leased IP addresses are left.  MetalLB  *)
(* assigns addresses of a pool to load balancer services.  The IP operator *)
(* creates those services, reads MetalLB's counts after each change and    *)
(* from time to time, and serves them from a prepared answer, behind a     *)
(* barrier that is closed while it observes nothing.  The inventory        *)
(* service of the provider asks for the counts, then asks the operator     *)
(* about every deployed lease that is not confirmed, and takes both        *)
(* results at once.  Addresses of unconfirmed leases count as reserved.    *)
(*                                                                         *)
(* Every lease takes one address.  Module IPOperator has the operator's    *)
(* bookkeeping of services; here an event makes or removes one.            *)
(***************************************************************************)
EXTENDS Integers, Sequences, FiniteSets

CONSTANTS
  Leases,         \* leases that want an address
  Pools,          \* sizes the pool may be given
  MaxIuChanges,   \* bound: reservations, and changes of the pool
  MaxIuFaults     \* bound: failing reads and closed watches

VARIABLES
  booked,     \* booked[l]: "free" | "reserved" | "declared" | "allocated" | "confirmed"
  balancer,   \* balancer[l]: "none" | "pending" | "up"
  poolSize,   \* addresses MetalLB has
  ipq,        \* events for the operator: <<lease, "add" | "delete">>
  poolq,      \* changes of MetalLB's configuration not taken yet
  iop,        \* the operator: [pc, counts, flagged]
  prepared,   \* the answer of /usage, or NoAnswer
  barrier,    \* [enabled, active]
  check,      \* the inventory service's check in progress
  known,      \* ipAddrUsage of the inventory service
  iuChanges, iuFaults

iuVars == <<booked, balancer, poolSize, ipq, poolq, iop, prepared, barrier, check,
            known, iuChanges, iuFaults>>

providerVars == <<booked, check, known>>
operatorVars == <<ipq, poolq, iop, prepared>>

Zero     == [total |-> 0, inUse |-> 0]
NoAnswer == [total |-> -1, inUse |-> -1]

NoCheck == [pc |-> "idle", confirm |-> {}, usage |-> Zero, confirmed |-> {}]

\* metallb_allocator_addresses_in_use_total
Used == Cardinality({l \in Leases : balancer[l] = "up"})

Usage == [total |-> poolSize, inUse |-> Used]

Init ==
  /\ booked = [l \in Leases |-> "free"]
  /\ balancer = [l \in Leases |-> "none"]
  /\ poolSize \in Pools
  /\ ipq = <<>> /\ poolq = 0
  /\ iop = [pc |-> "start", counts |-> Zero, flagged |-> TRUE]
  /\ prepared = NoAnswer
  /\ barrier = [enabled |-> FALSE, active |-> 0]
  /\ check = NoCheck
  /\ known = Zero
  /\ iuChanges = 0 /\ iuFaults = 0

----------------------------------------------------------------------------
(* The provider: reservations and deployments.                             *)

countReservedIPs == Cardinality({l \in Leases : booked[l] \in {"reserved", "declared", "allocated"}})

availableLeasedIPs(total, inUse, reserved) ==
  IF inUse >= total \/ reserved >= total - inUse THEN 0 ELSE total - inUse - reserved

\* Reservations wait while a check runs.
reserve(l) ==
  /\ iuChanges < MaxIuChanges
  /\ check.pc = "idle"
  /\ booked[l] = "free" /\ balancer[l] = "none"
  /\ \A i \in DOMAIN ipq : ipq[i][1] # l
  /\ availableLeasedIPs(known.total, known.inUse, countReservedIPs) >= 1
  /\ booked' = [booked EXCEPT ![l] = "reserved"]
  /\ iuChanges' = iuChanges + 1
  /\ UNCHANGED <<balancer, poolSize, operatorVars, barrier, check, known, iuFaults>>

declareIP(l) ==
  /\ booked[l] = "reserved"
  /\ booked' = [booked EXCEPT ![l] = "declared"]
  /\ ipq' = IF iop.pc = "loop" THEN Append(ipq, <<l, "add">>) ELSE ipq
  /\ UNCHANGED <<balancer, poolSize, poolq, iop, prepared, barrier, check, known,
                 iuChanges, iuFaults>>

deployed(l) ==
  /\ booked[l] = "declared"
  /\ booked' = [booked EXCEPT ![l] = "allocated"]
  /\ UNCHANGED <<balancer, poolSize, operatorVars, barrier, check, known, iuChanges, iuFaults>>

\* Teardown: the namespace goes with its services, then the reservation.
unreserve(l) ==
  /\ booked[l] \in {"reserved", "allocated", "confirmed"}
  /\ booked' = [booked EXCEPT ![l] = "free"]
  /\ balancer' = [balancer EXCEPT ![l] = "none"]
  /\ ipq' = IF booked[l] # "reserved" /\ iop.pc = "loop"
            THEN Append(ipq, <<l, "delete">>) ELSE ipq
  /\ UNCHANGED <<poolSize, poolq, iop, prepared, barrier, check, known, iuChanges, iuFaults>>

----------------------------------------------------------------------------
(* The provider: runCheck.                                                 *)

runCheck ==
  /\ check.pc = "idle"
  /\ check' = [NoCheck EXCEPT !.pc = "usage",
                              !.confirm = {l \in Leases : booked[l] = "allocated"}]
  /\ UNCHANGED <<booked, balancer, poolSize, operatorVars, barrier, known, iuChanges, iuFaults>>

\* An answer that is no usage ends the check without result.
checkFails(c) == [c EXCEPT !.pc = "failed"]

\* barrier.enter reads `enabled', then counts the request; a request that does
\* not get in is answered 503.
enter ==
  /\ check.pc = "usage" \/ (check.pc = "status" /\ check.confirm # {})
  /\ \/ /\ barrier.enabled
        /\ check' = [check EXCEPT !.pc = @ \o "-passed"]
     \/ /\ ~barrier.enabled
        /\ check' = IF check.pc = "usage" THEN checkFails(check)
                    ELSE [check EXCEPT !.confirm = check.confirm \ {CHOOSE l \in check.confirm : TRUE}]
  /\ UNCHANGED <<booked, balancer, poolSize, operatorVars, barrier, known, iuChanges, iuFaults>>

enterCounted ==
  /\ check.pc \in {"usage-passed", "status-passed"}
  /\ barrier' = [barrier EXCEPT !.active = @ + 1]
  /\ check' = [check EXCEPT !.pc = IF @ = "usage-passed" THEN "usage-inside" ELSE "status-inside"]
  /\ UNCHANGED <<booked, balancer, poolSize, operatorVars, known, iuChanges, iuFaults>>

\* What was prepared last; without any the answer is "no content".
servePreparedResult ==
  /\ check.pc = "usage-inside"
  /\ barrier' = [barrier EXCEPT !.active = @ - 1]
  /\ check' = IF prepared = NoAnswer THEN checkFails(check)
              ELSE [check EXCEPT !.usage = prepared, !.pc = "status"]
  /\ UNCHANGED <<booked, balancer, poolSize, operatorVars, known, iuChanges, iuFaults>>

\* The lease's services as they are now; one without an address is an error.
GetIPAddressStatusForLease(l) ==
  CASE balancer[l] = "none"    -> 0
    [] balancer[l] = "pending" -> -1
    [] balancer[l] = "up"      -> 1

handleIPLeaseStatusGet ==
  /\ check.pc = "status-inside"
  /\ LET l == CHOOSE x \in check.confirm : TRUE
     IN check' = [check EXCEPT !.pc = "status", !.confirm = @ \ {l},
                    !.confirmed = IF GetIPAddressStatusForLease(l) = 1 THEN @ \cup {l} ELSE @]
  /\ barrier' = [barrier EXCEPT !.active = @ - 1]
  /\ UNCHANGED <<booked, balancer, poolSize, operatorVars, known, iuChanges, iuFaults>>

\* Both results are taken at once.
takeResult ==
  /\ \/ /\ check.pc = "status" /\ check.confirm = {}
        /\ known' = check.usage
        /\ booked' = [l \in Leases |->
             IF l \in check.confirmed /\ booked[l] # "free" THEN "confirmed" ELSE booked[l]]
     \/ /\ check.pc = "failed"
        /\ UNCHANGED <<known, booked>>
  /\ check' = NoCheck
  /\ UNCHANGED <<balancer, poolSize, operatorVars, barrier, iuChanges, iuFaults>>

----------------------------------------------------------------------------
(* The operator.                                                           *)

\* An error ends the observation and closes the barrier.
stopObserving == iop' = [iop EXCEPT !.pc = "drain"] /\ barrier' = [barrier EXCEPT !.enabled = FALSE]

prepare(c, flagged) == IF flagged THEN c ELSE prepared

\* The counts before anything is observed.
startCounts ==
  /\ iop.pc = "start"
  /\ iop' = [pc |-> "observe", counts |-> Usage, flagged |-> TRUE]
  /\ UNCHANGED <<providerVars, balancer, poolSize, ipq, poolq, prepared, barrier,
                 iuChanges, iuFaults>>

startFails ==
  /\ iop.pc \in {"start", "observe"} /\ iuFaults < MaxIuFaults
  /\ iuFaults' = iuFaults + 1
  /\ iop' = [iop EXCEPT !.pc = "start"]
  /\ UNCHANGED <<providerVars, balancer, poolSize, ipq, poolq, prepared, barrier, iuChanges>>

\* Watches begin with what is declared; then requests are let in.
observe ==
  /\ iop.pc = "observe"
  /\ \E order \in [1..Cardinality({l \in Leases : booked[l] \notin {"free", "reserved"}}) -> Leases] :
       /\ \A l \in Leases : booked[l] \notin {"free", "reserved"} => \E i \in DOMAIN order : order[i] = l
       /\ ipq' = [i \in DOMAIN order |-> <<order[i], "add">>]
  /\ poolq' = 0
  /\ prepared' = prepare(iop.counts, iop.flagged)
  /\ iop' = [iop EXCEPT !.pc = "loop", !.flagged = FALSE]
  /\ barrier' = [barrier EXCEPT !.enabled = TRUE]
  /\ UNCHANGED <<providerVars, balancer, poolSize, iuChanges, iuFaults>>

\* updateCounts and PrepareAll, at the end of a turn of the loop.
updateCounts ==
  \/ /\ iop' = [iop EXCEPT !.counts = Usage']
     /\ prepared' = Usage'
     /\ UNCHANGED <<barrier, iuFaults>>
  \/ /\ iuFaults < MaxIuFaults
     /\ iuFaults' = iuFaults + 1
     /\ stopObserving
     /\ UNCHANGED prepared

applyEvent ==
  /\ iop.pc = "loop" /\ ipq # <<>>
  /\ LET l == Head(ipq)[1]
     IN balancer' = [balancer EXCEPT ![l] =
          IF Head(ipq)[2] = "delete" THEN "none"
          ELSE IF @ = "none" /\ booked[l] # "free" THEN "pending" ELSE @]
  /\ ipq' = Tail(ipq)
  /\ UNCHANGED <<providerVars, poolSize, poolq, iuChanges>>
  /\ updateCounts

poolChanged ==
  /\ iop.pc = "loop" /\ poolq > 0
  /\ poolq' = poolq - 1
  /\ UNCHANGED <<providerVars, balancer, poolSize, ipq, iuChanges>>
  /\ updateCounts

updateTick ==
  /\ iop.pc = "loop"
  /\ UNCHANGED <<providerVars, balancer, poolSize, ipq, poolq, iuChanges>>
  /\ updateCounts

observationStopped ==
  /\ iop.pc = "loop" /\ iuFaults < MaxIuFaults
  /\ iuFaults' = iuFaults + 1
  /\ stopObserving
  /\ UNCHANGED <<providerVars, balancer, poolSize, ipq, poolq, prepared, iuChanges>>

\* Requests inside are waited for, up to 30 seconds.
waitUntilClear ==
  /\ iop.pc = "drain"
  /\ iop' = [iop EXCEPT !.pc = "start"]
  /\ ipq' = <<>>
  /\ UNCHANGED <<providerVars, balancer, poolSize, poolq, prepared, barrier, iuChanges, iuFaults>>

----------------------------------------------------------------------------
(* MetalLB.                                                                *)

assignAddress(l) ==
  /\ balancer[l] = "pending" /\ Used < poolSize
  /\ balancer' = [balancer EXCEPT ![l] = "up"]
  /\ UNCHANGED <<providerVars, poolSize, operatorVars, barrier, iuChanges, iuFaults>>

changePool ==
  /\ iuChanges < MaxIuChanges
  /\ \E n \in Pools \ {poolSize} :
       /\ n >= Used
       /\ poolSize' = n
  /\ poolq' = poolq + 1
  /\ iuChanges' = iuChanges + 1
  /\ UNCHANGED <<providerVars, balancer, ipq, iop, prepared, barrier, iuFaults>>

Check    == enter \/ enterCounted \/ servePreparedResult \/ handleIPLeaseStatusGet \/ takeResult
Restart  == startCounts \/ observe \/ waitUntilClear

Next ==
  \/ \E l \in Leases : reserve(l) \/ declareIP(l) \/ deployed(l) \/ unreserve(l) \/ assignAddress(l)
  \/ runCheck \/ Check \/ Restart
  \/ startFails \/ applyEvent \/ poolChanged \/ updateTick \/ observationStopped
  \/ changePool

Spec == Init /\ [][Next]_iuVars

\* The check is on a timer of five seconds; the operator's loop is a select
\* over queue, watch and tickers; MetalLB assigns what it can.
Fairness ==
  /\ WF_iuVars(runCheck) /\ WF_iuVars(Check)
  /\ WF_iuVars(Restart) /\ WF_iuVars(applyEvent) /\ WF_iuVars(poolChanged)
  /\ WF_iuVars(updateTick)
  /\ \A l \in Leases : WF_iuVars(assignAddress(l))

FairSpec == Spec /\ Fairness

----------------------------------------------------------------------------

TypeOK ==
  /\ booked \in [Leases -> {"free", "reserved", "declared", "allocated", "confirmed"}]
  /\ balancer \in [Leases -> {"none", "pending", "up"}]
  /\ iop.pc \in {"start", "observe", "loop", "drain"}
  /\ barrier.active \in 0..1 /\ barrier.enabled \in BOOLEAN
  /\ iuChanges \in 0..MaxIuChanges /\ iuFaults \in 0..MaxIuFaults

\* When nothing changes any more the provider ends up with MetalLB's counts,
\* and has confirmed the leases that were deployed and have their address:
\* through failed reads, observations that were restarted, requests that were
\* turned away, and addresses assigned after the counts were read.
KnownIsActual ==
  /\ known = Usage
  /\ \A l \in Leases : booked[l] = "allocated" => balancer[l] # "up"

\* The provider never promises more addresses than the pool has: an address is
\* in use or reserved "until the IP address operator has reported that it has
\* actually created the associated resources" (inventory.go 857).  Stated for
\* a pool that is not changed.
NotOversold == Cardinality({l \in Leases : booked[l] # "free"}) <= poolSize
=============================================================================
