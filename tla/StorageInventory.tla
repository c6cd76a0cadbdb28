---------------------------- MODULE StorageInventory ---------------------------
(***************************************************************************)
(* The storage part of the inventory operator: the Ceph driver             *)
(* (operator/inventory/ceph.go) with its scraper goroutine, the local-path *)
(* driver (rancher.go), and the cluster state they feed (state.go).  Both  *)
(* drivers count the capacity of the persistent volumes of every storage   *)
(* class from events and report the managed classes.  A volume has         *)
(* capacity 1; every class is managed.                                     *)
(***************************************************************************)
EXTENDS Integers, FiniteSets, SequencesExt

CONSTANTS CephClasses, LocalClasses, Volumes,
          NoClass,           \* the empty name of a storage class
          MaxStorageChanges

Classes == CephClasses \cup LocalClasses

VARIABLES classOf,      \* the class each volume is of
          classes, volumes, cluster,          \* what exists in Kubernetes
          cephq, localq, localClassq,         \* events not yet taken
          ceph, local,  \* the drivers' variables
          scrape,       \* the scrape request: its stage and whether it has the cluster
          config,       \* the classes clusterState's configuration has
          storage,      \* clusterState: what each driver reported last
          reported,     \* clusterState: the classes it reports, with their allocation
          unfiltered,   \* history: configuration newer than reported
          dropped,      \* history: classes deleted once
          stChanges

stVars == <<classOf, classes, volumes, cluster, cephq, localq, localClassq, ceph, local, scrape,
            config, storage, reported, unfiltered, dropped, stChanges>>

api == <<classOf, classes, volumes, cluster, dropped, stChanges>>

ClassEvent(type, c) == [kind |-> "class", type |-> type, name |-> c]
VolumeEvent(type, v) == [kind |-> "volume", type |-> type, name |-> v]
ClusterEvent(type) == [kind |-> "cluster", type |-> type, name |-> NoClass]

Request(stage, with) == [stage |-> stage, with |-> with]

NoScrape == Request("none", FALSE)

Untracked == [c \in {} |-> 0]

Init ==
  /\ classOf \in [Volumes -> Classes]
  /\ classes = {} /\ volumes = {} /\ cluster = FALSE
  /\ cephq = <<>> /\ localq = <<>> /\ localClassq = <<>>
  /\ ceph = [scs |-> Untracked, pvs |-> {}, cluster |-> FALSE, free |-> TRUE, again |-> FALSE]
  /\ local = [scs |-> Untracked, pvs |-> {}, watching |-> FALSE, scrape |-> FALSE]
  /\ scrape = NoScrape
  /\ config = Classes
  /\ storage = [d \in {"ceph", "rancher"} |-> {}]
  /\ reported = {}
  /\ unfiltered = FALSE /\ dropped = {}
  /\ stChanges = 0

--------------------------------------------------------------------------------
(***************************************************************************)
(* Kubernetes: its informers keep the order of one kind's events; the      *)
(* local-path driver has a volume watch of its own.                        *)
(***************************************************************************)

Change == stChanges < MaxStorageChanges /\ stChanges' = stChanges + 1

drivers == <<ceph, local, scrape, config, storage, reported, unfiltered>>

changeClass(c) ==
  LET e == ClassEvent(IF c \in classes THEN "deleted" ELSE "added", c)
  IN  /\ Change
      /\ classes' = IF c \in classes THEN classes \ {c} ELSE classes \cup {c}
      /\ dropped' = IF c \in classes THEN dropped \cup {c} ELSE dropped
      /\ cephq' = Append(cephq, e) /\ localClassq' = Append(localClassq, e)
      /\ UNCHANGED <<classOf, volumes, cluster, localq, drivers>>

\* A volume is provisioned through its class and may outlive it.
changeVolume(v) ==
  LET e == VolumeEvent(IF v \in volumes THEN "deleted" ELSE "added", v)
  IN  /\ Change
      /\ v \in volumes \/ classOf[v] \in classes
      /\ volumes' = IF v \in volumes THEN volumes \ {v} ELSE volumes \cup {v}
      /\ cephq' = Append(cephq, e)
      /\ localq' = IF local.watching THEN Append(localq, e) ELSE localq
      /\ UNCHANGED <<classOf, classes, cluster, dropped, localClassq, drivers>>

changeCluster ==
  /\ Change
  /\ cluster' = ~cluster
  /\ cephq' = Append(cephq, ClusterEvent(IF cluster THEN "deleted" ELSE "added"))
  /\ UNCHANGED <<classOf, classes, volumes, dropped, localq, localClassq, drivers>>

\* The configuration is taken, but the storage is not filtered again.
changeConfig ==
  /\ Change
  /\ \E cs \in SUBSET Classes : config' = cs
  /\ unfiltered' = TRUE
  /\ UNCHANGED <<classOf, classes, volumes, cluster, dropped, cephq, localq, localClassq, ceph, local,
                 scrape, storage, reported>>

--------------------------------------------------------------------------------
(***************************************************************************)
(* clusterState.run on a storageSignal.                                    *)
(***************************************************************************)

storageSignal(driver, result) ==
  /\ storage' = [storage EXCEPT ![driver] = result]
  /\ reported' = {r \in UNION {storage'[d] : d \in DOMAIN storage} : r.class \in config}
  /\ unfiltered' = FALSE

Quiet == UNCHANGED <<storage, reported, unfiltered>>

Result(scs, cs) == {[class |-> c, allocated |-> scs[c]] : c \in DOMAIN scs \cap cs}

With(scs, c, n) == [x \in DOMAIN scs \cup {c} |-> IF x = c THEN n ELSE scs[x]]

Allocated(scs, c) == IF c \in DOMAIN scs THEN scs[c] ELSE 0

--------------------------------------------------------------------------------
(***************************************************************************)
(* The Ceph driver.  One scrape is under way at a time; what happens       *)
(* meanwhile asks for another one when it has been answered.               *)
(***************************************************************************)

signalScrape(c) ==
  IF c.free
  THEN ceph' = [c EXCEPT !.free = FALSE, !.again = FALSE] /\ scrape' = Request("queued", c.cluster)
  ELSE ceph' = [c EXCEPT !.again = TRUE] /\ UNCHANGED scrape

\* The class of a volume is read when its event comes first.  One that is gone
\* is read as an empty object and kept under its empty name.
cephVolume(e) ==
  LET c == classOf[e.name]
      k == IF c \in DOMAIN ceph.scs \/ c \in classes THEN c ELSE NoClass
  IN  IF e.type = "added"
      THEN [ceph EXCEPT !.pvs = @ \cup {e.name},
                        !.scs = With(@, k, Allocated(@, k) + (IF e.name \in ceph.pvs THEN 0 ELSE 1))]
      ELSE [ceph EXCEPT !.pvs = @ \ {e.name},
                        !.scs = IF c \in DOMAIN @ THEN With(@, c, @[c] - 1) ELSE @]

cephClass(e) ==
  IF e.type = "added"
  THEN [ceph EXCEPT !.scs = With(@, e.name, Allocated(@, e.name))]
  ELSE [ceph EXCEPT !.scs = [c \in DOMAIN @ \ {e.name} |-> @[c]]]

cephEvent(i) ==
  LET e == cephq[i]
  IN  /\ \A j \in 1..(i - 1) : cephq[j].kind # e.kind
      /\ signalScrape(CASE e.kind = "class"   -> cephClass(e)
                        [] e.kind = "volume"  -> cephVolume(e)
                        [] e.kind = "cluster" -> [ceph EXCEPT !.cluster = e.type = "added"])
      /\ cephq' = RemoveAt(cephq, i)
      /\ UNCHANGED <<api, localq, localClassq, local, config>> /\ Quiet

\* The scraper runs ceph df on the clusters of the request.
scraper ==
  /\ scrape.stage = "queued"
  /\ scrape' = Request("answered", scrape.with)
  /\ UNCHANGED <<api, cephq, localq, localClassq, ceph, local, config>> /\ Quiet

\* An empty result is not published.
cephReport ==
  /\ scrape.stage = "answered"
  /\ LET result == Result(ceph.scs, CephClasses)
     IN  IF scrape.with /\ result # {} THEN storageSignal("ceph", result) ELSE Quiet
  /\ IF ceph.again
     THEN ceph' = [ceph EXCEPT !.again = FALSE] /\ scrape' = Request("queued", ceph.cluster)
     ELSE ceph' = [ceph EXCEPT !.free = TRUE] /\ scrape' = NoScrape
  /\ UNCHANGED <<api, cephq, localq, localClassq, local, config>>

--------------------------------------------------------------------------------
(***************************************************************************)
(* The local-path driver.  Its volume watch starts when it has seen every  *)
(* class there is; a deleted class is kept.                                *)
(***************************************************************************)

localClass ==
  /\ localClassq # <<>>
  /\ LET e == Head(localClassq)
         scs == With(local.scs, e.name, Allocated(local.scs, e.name))
         listed == {v \in volumes : classOf[v] \in DOMAIN scs}
         starts == ~local.watching /\ Cardinality(classes) = Cardinality(DOMAIN scs)
     IN  /\ IF e.type = "deleted"
            THEN local' = [local EXCEPT !.scrape = TRUE] /\ UNCHANGED localq
            ELSE IF starts
            THEN /\ local' = [local EXCEPT
                                !.scs = [c \in DOMAIN scs |->
                                           scs[c] + Cardinality({v \in listed : classOf[v] = c})],
                                !.pvs = listed, !.watching = TRUE, !.scrape = TRUE]
                 /\ localq' = SetToSeq({VolumeEvent("added", v) : v \in volumes})
            ELSE local' = [local EXCEPT !.scs = scs, !.scrape = TRUE] /\ UNCHANGED localq
         /\ localClassq' = Tail(localClassq)
  /\ UNCHANGED <<api, cephq, ceph, scrape, config>> /\ Quiet

localVolume ==
  /\ localq # <<>>
  /\ LET v == Head(localq).name
         c == classOf[v]
     IN  local' = [local EXCEPT
           !.scrape = TRUE,
           !.pvs = IF Head(localq).type = "added" THEN @ \cup {v} ELSE @ \ {v},
           !.scs = CASE Head(localq).type = "added" ->
                          With(@, c, Allocated(@, c) + (IF v \in local.pvs THEN 0 ELSE 1))
                     [] c \in DOMAIN @ -> With(@, c, @[c] - 1)
                     [] OTHER -> @]
  /\ localq' = Tail(localq)
  /\ UNCHANGED <<api, cephq, localClassq, ceph, scrape, config>> /\ Quiet

localReport ==
  /\ local.scrape
  /\ local' = [local EXCEPT !.scrape = FALSE]
  /\ LET result == Result(local.scs, LocalClasses)
     IN  IF result # {} THEN storageSignal("rancher", result) ELSE Quiet
  /\ UNCHANGED <<api, cephq, localq, localClassq, ceph, scrape, config>>

--------------------------------------------------------------------------------

Kubernetes == \/ \E c \in Classes : changeClass(c)
              \/ \E v \in Volumes : changeVolume(v)
              \/ changeCluster \/ changeConfig

Ceph == (\E i \in DOMAIN cephq : cephEvent(i)) \/ scraper \/ cephReport

Local == localClass \/ localVolume \/ localReport

Next == Kubernetes \/ Ceph \/ Local

Spec == Init /\ [][Next]_stVars /\ WF_stVars(Ceph) /\ WF_stVars(Local)

TypeOK ==
  /\ DOMAIN ceph.scs \subseteq Classes \cup {NoClass}
  /\ DOMAIN local.scs \subseteq Classes
  /\ ceph.pvs \subseteq Volumes /\ local.pvs \subseteq Volumes
  /\ ceph.free <=> scrape = NoScrape

(***************************************************************************)
(* The allocation the operator reports, once the cluster is quiet: of a    *)
(* class that was never deleted and that the configuration has, what its   *)
(* volumes take.  A class the Ceph driver lost loses its count (ceph.go    *)
(* deletes it, rancher.go keeps it, but does not start its volume watch    *)
(* while it knows more classes than there are), a configuration that came  *)
(* later than the last report has no effect until the next one, and Ceph   *)
(* reports only clusters that exist.                                       *)
(***************************************************************************)
ReportedIsAllocated ==
  \A c \in (classes \ dropped) \cap config :
    /\ ~unfiltered
    /\ c \in CephClasses => cluster
    /\ c \in LocalClasses => dropped = {}
    => [class |-> c, allocated |-> Cardinality({v \in volumes : classOf[v] = c})] \in reported
================================================================================
