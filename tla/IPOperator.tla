------------------------------- MODULE IPOperator ------------------------------
(***************************************************************************)
(* The IP operator (operator/ip) with its MetalLB client: one goroutine    *)
(* lists the load balancer services that exist, lists and watches the      *)
(* ProviderLeasedIP resources, and creates and deletes the services that   *)
(* pass a leased address to a lease.  Any error ends the round and the     *)
(* operator starts again from the lists.  The provider declares, migrates  *)
(* and purges leased IPs (cluster/kube/cluster_ip_connections.go).         *)
(*                                                                         *)
(* A key is a sharing key with an external port; the leases are all of one *)
(* owner, whose address is part of every sharing key.                      *)
(***************************************************************************)
EXTENDS Naturals, FiniteSets, SequencesExt

CONSTANTS Keys, Leases, Services, None,
          FailureLimit,               \* of the ignore list
          MaxChanges, MaxFaults       \* bounds on the provider's calls, on failures

Protos == {"tcp", "udp"}

VARIABLES leased,      \* the ProviderLeasedIP of each key and protocol
          namespaces,  \* the leases whose namespace exists
          balancers,   \* the load balancer services: [lease, svc, key, proto]
          ipState,     \* where monitorUntilError is
          managed,     \* op.state: [lease, svc, proto] by key; proto is None if unknown
          ipFailures,  \* op.leasesIgnored
          ipEvents,    \* what observeIPState has still to deliver
          ipSkipped,   \* history: resources with an event ignored for the lease
          mixed,       \* history: keys that had both protocols at a time
          ipChanges, ipFaults

api == <<leased, namespaces, mixed, ipChanges>>

ipVars == <<leased, namespaces, balancers, ipState, managed, ipFailures, ipEvents,
            ipSkipped, mixed, ipChanges, ipFaults>>

Names == Keys \X Protos   \* of ProviderLeasedIP resources

Event(type, n, d) == [type |-> type, key |-> n[1], proto |-> n[2], lease |-> d.lease, svc |-> d.svc]

Unmanaged == [k \in Keys |-> None]

Init ==
  /\ leased = [n \in Names |-> None]
  /\ namespaces = Leases
  /\ balancers = {}
  /\ ipState = "start"
  /\ managed = Unmanaged
  /\ ipFailures = [l \in Leases |-> 0]
  /\ ipEvents = <<>>
  /\ ipSkipped = {} /\ mixed = {}
  /\ ipChanges = 0 /\ ipFaults = 0

--------------------------------------------------------------------------------
(***************************************************************************)
(* The provider.                                                           *)
(***************************************************************************)

Change ==
  /\ ipChanges < MaxChanges
  /\ ipChanges' = ipChanges + 1

Watched(evs) == IF ipState = "loop" THEN ipEvents \o evs ELSE ipEvents

\* The manager declares without overwriting; a migration overwrites.
DeclareIP(l, svc, n, overwrite) ==
  LET d == [lease |-> l, svc |-> svc]
  IN  /\ l \in namespaces
      /\ leased[n] = None \/ overwrite
      /\ leased[n] # d
      /\ Change
      /\ leased' = [leased EXCEPT ![n] = d]
      /\ ipEvents' = Watched(<<Event(IF leased[n] = None THEN "add" ELSE "update", n, d)>>)
      /\ mixed' = mixed \cup {k \in Keys : \A p \in Protos : leased'[<<k, p>>] # None}
      /\ UNCHANGED <<namespaces, balancers, ipState, managed, ipFailures, ipSkipped, ipFaults>>

Purge(ns) ==
  LET s == SetToSeq(ns)
  IN  /\ Change
      /\ leased' = [n \in Names |-> IF n \in ns THEN None ELSE leased[n]]
      /\ ipEvents' = Watched([i \in 1..Len(s) |-> Event("delete", s[i], leased[s[i]])])
      /\ UNCHANGED <<namespaces, balancers, ipState, managed, ipFailures, ipSkipped, mixed, ipFaults>>

Existing == {n \in Names : leased[n] # None}

\* The selector built for the lease, service, protocol and port is not the one
\* the call is made with: every managed ProviderLeasedIP is deleted.
PurgeDeclaredIP(l, n) ==
  /\ n \in Existing
  /\ leased[n].lease = l
  /\ Purge(Existing)

PurgeDeclaredIPs(l) ==
  LET own == {n \in Existing : leased[n].lease = l}
  IN  own # {} /\ Purge(own)

\* TeardownLease: the services in the namespace go with it.
DeleteNamespace(l) ==
  /\ l \in namespaces
  /\ Change
  /\ namespaces' = namespaces \ {l}
  /\ balancers' = {b \in balancers : b.lease # l}
  /\ UNCHANGED <<leased, ipState, managed, ipFailures, ipEvents, ipSkipped, mixed, ipFaults>>

--------------------------------------------------------------------------------
(***************************************************************************)
(* The MetalLB client.  A service is named by the manifest's service, the  *)
(* external port and the protocol, in the lease's namespace.               *)
(***************************************************************************)

createIPPassthroughResourceName(d) == <<d.svc, d.key[2], d.proto>>

Balancer(d) == [lease |-> d.lease, svc |-> d.svc, key |-> d.key, proto |-> d.proto]

SameName(b, d) ==
  /\ b.lease = d.lease
  /\ createIPPassthroughResourceName(b) = createIPPassthroughResourceName(d)

\* Updates a service of that name, or creates it.
CreateIPPassthrough(bs, d) == {b \in bs : ~SameName(b, d)} \cup {Balancer(d)}

\* One that is not found is no error.
PurgeIPPassthrough(bs, d) == {b \in bs : ~SameName(b, d)}

\* The list has no target port and monitorUntilError keeps no protocol: the
\* entry matches no event.  Of two services with a key the last one stays.
GetIPPassthroughs(f) ==
  \A k \in Keys :
    LET bs == {b \in balancers : b.key = k}
    IN  IF bs = {} THEN f[k] = None
        ELSE \E b \in bs : f[k] = [lease |-> b.lease, svc |-> b.svc, proto |-> None]

--------------------------------------------------------------------------------
(***************************************************************************)
(* One round of monitorUntilError.                                         *)
(***************************************************************************)

Fault ==
  /\ ipFaults < MaxFaults
  /\ ipFaults' = ipFaults + 1

EndRound ==
  /\ ipState' = "start"
  /\ managed' = Unmanaged
  /\ ipEvents' = <<>>

listPassthroughs ==
  /\ ipState = "start"
  /\ \E f \in [Keys -> {None} \cup [lease : Leases, svc : Services, proto : {None}]] :
       GetIPPassthroughs(f) /\ managed' = f
  /\ ipState' = "list"
  /\ UNCHANGED <<api, balancers, ipFailures, ipEvents, ipSkipped, ipFaults>>

\* The watch continues from the list's resource version.
observeIPState ==
  LET s == SetToSeq(Existing)
  IN  /\ ipState = "list"
      /\ ipState' = "loop"
      /\ ipEvents' = [i \in 1..Len(s) |-> Event("add", s[i], leased[s[i]])]
      /\ UNCHANGED <<api, balancers, managed, ipFailures, ipSkipped, ipFaults>>

\* A list, a watch or updateCounts fails, or a watch (of the leased IPs or of
\* MetalLB's pools) is closed; or the process is restarted, which also empties
\* the ignore list.
observationStopped ==
  /\ ipState \in {"list", "loop"}
  /\ Fault
  /\ EndRound
  /\ ipFailures' \in {ipFailures, [l \in Leases |-> 0]}
  /\ UNCHANGED <<api, balancers, ipSkipped>>

IsFlagged(l) == ipFailures[l] >= FailureLimit

Fails ==
  /\ Fault
  /\ EndRound
  /\ UNCHANGED <<ipFailures, ipSkipped>>

recordEventError(l) ==
  /\ ipFailures' = [ipFailures EXCEPT ![l] = @ + 1]
  /\ EndRound
  /\ UNCHANGED <<ipSkipped, ipFaults>>

Applied(entry, k) ==
  /\ managed' = [managed EXCEPT ![k] = entry]
  /\ ipEvents' = Tail(ipEvents)
  /\ UNCHANGED <<ipState, ipFailures, ipSkipped, ipFaults>>

\* The state key has no protocol: the entry of the key goes, whichever it was.
applyDeleteEvent(ev) ==
  \/ balancers' = PurgeIPPassthrough(balancers, ev) /\ Applied(None, ev.key)
  \/ Fails /\ UNCHANGED balancers

\* The service is created, or refused because the namespace is gone, or the
\* call fails before or after it took effect.
Create(bs, ev) ==
  \/ /\ ev.lease \in namespaces
     /\ balancers' = CreateIPPassthrough(bs, ev)
     /\ \/ Applied([lease |-> ev.lease, svc |-> ev.svc, proto |-> ev.proto], ev.key)
        \/ Fails
  \/ /\ ev.lease \notin namespaces
     /\ balancers' = bs
     /\ recordEventError(ev.lease)
  \/ /\ balancers' = bs
     /\ Fails

HasChanged(entry, ev) == entry.svc # ev.svc \/ entry.proto # ev.proto

Directive(entry, k) == [lease |-> entry.lease, svc |-> entry.svc, key |-> k, proto |-> entry.proto]

applyAddOrUpdateEvent(ev) ==
  LET entry == managed[ev.key]
  IN  \/ /\ entry = None
         /\ Create(balancers, ev)
      \/ /\ entry # None /\ entry.lease = ev.lease
         /\ IF HasChanged(entry, ev)
            THEN Create(balancers, ev)
            ELSE Applied(entry, ev.key) /\ UNCHANGED balancers
      \/ /\ entry # None /\ entry.lease # ev.lease
         /\ \/ Create(PurgeIPPassthrough(balancers, Directive(entry, ev.key)), ev)
            \/ Fails /\ UNCHANGED balancers

isEventIgnored(ev) ==
  /\ IsFlagged(ev.lease)
  /\ ipEvents' = Tail(ipEvents)
  /\ ipSkipped' = ipSkipped \cup {<<ev.key, ev.proto>>}
  /\ UNCHANGED <<balancers, ipState, managed, ipFailures, ipFaults>>

applyEvent ==
  /\ ipState = "loop"
  /\ ipEvents # <<>>
  /\ LET ev == Head(ipEvents)
     IN  \/ ev.type = "delete" /\ applyDeleteEvent(ev)
         \/ ev.type # "delete" /\ isEventIgnored(ev)
         \/ ev.type # "delete" /\ ~IsFlagged(ev.lease) /\ applyAddOrUpdateEvent(ev)
  /\ UNCHANGED api

Provider ==
  \/ \E l \in Leases, svc \in Services, n \in Names, overwrite \in BOOLEAN : DeclareIP(l, svc, n, overwrite)
  \/ \E l \in Leases, n \in Names : PurgeDeclaredIP(l, n)
  \/ \E l \in Leases : PurgeDeclaredIPs(l) \/ DeleteNamespace(l)

Operator == listPassthroughs \/ observeIPState \/ applyEvent

Next == Provider \/ Operator \/ observationStopped

Spec == Init /\ [][Next]_ipVars /\ WF_ipVars(Operator)

--------------------------------------------------------------------------------

TypeOK ==
  /\ leased \in [Names -> {None} \cup [lease : Leases, svc : Services]]
  /\ namespaces \subseteq Leases
  /\ balancers \subseteq [lease : Leases, svc : Services, key : Keys, proto : Protos]
  /\ ipState \in {"start", "list", "loop"}
  /\ managed \in [Keys -> {None} \cup [lease : Leases, svc : Services, proto : Protos \cup {None}]]
  /\ ipFailures \in [Leases -> Nat]

(***************************************************************************)
(* Every declared leased IP of a lease that stands has its load balancer   *)
(* service.  The operator keeps one entry for a key's two protocols, so    *)
(* keys that had both at a time are left out.                              *)
(***************************************************************************)
DeclaredIsPassed ==
  \A n \in Names \ ipSkipped :
    leased[n] # None /\ n[1] \notin mixed /\ leased[n].lease \in namespaces
      => [lease |-> leased[n].lease, svc |-> leased[n].svc, key |-> n[1], proto |-> n[2]] \in balancers

(***************************************************************************)
(* applyAddOrUpdateEvent deletes the entry and recreates it with the new   *)
(* lease: no address, port and protocol is passed to two leases.           *)
(***************************************************************************)
MovedIsPurged ==
  \A b, c \in balancers : b.key = c.key /\ b.proto = c.proto => b.lease = c.lease
================================================================================
