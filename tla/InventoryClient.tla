----------------------------- MODULE InventoryClient ---------------------------
(***************************************************************************)
(* The provider's client of the inventory operator (cluster/kube/operators *)
(* /clients/inventory/client.go): discovery follows the operator's service *)
(* and keeps one connector, whose inventoryRun streams the cluster over    *)
(* gRPC into a channel of capacity 1; every subscriber queues what it gets *)
(* for its reader.  The operator (operator/inventory/cmd.go StreamCluster) *)
(* sends a new stream the cluster it published last.  An inventory is the  *)
(* number of changes it reflects; Empty stands for none.                   *)
(***************************************************************************)
EXTENDS Naturals, SequencesExt

CONSTANTS Subscribers, Empty,
          MaxUpdates, MaxBreaks   \* bounds on inventory changes, on broken streams and dials

VARIABLES cluster,    \* what the operator published last
          service,    \* the operator's service exists
          svcEvents,  \* service events the client has yet to take
          dstate,     \* "loop", or "blocked" on the channel of the reconnect timer
          svc,        \* the service discovery knows
          timer,      \* the reconnect timer runs
          exited,     \* ctrlexitch holds the end of the connector
          run,        \* inventoryRun: "none", "dial", "stream", "deliver", "lost"
          stream,     \* inventories sent on the stream and not yet received
          message,    \* what inventoryRun has received
          invch,      \* the channel of capacity 1, as a sequence
          inv, isConnected,
          subs,       \* subscribers registered
          pending, out, read,   \* per subscriber: its queue, its channel, what its reader got last
          updates, breaks

icVars == <<cluster, service, svcEvents, dstate, svc, timer, exited, run, stream, message, invch, inv,
            isConnected, subs, pending, out, read, updates, breaks>>

Init ==
  /\ cluster = 0
  /\ service = FALSE /\ svcEvents = <<>>
  /\ dstate = "loop" /\ svc = FALSE /\ timer = FALSE /\ exited = FALSE
  /\ run = "none" /\ stream = <<>> /\ message = Empty
  /\ invch = <<>> /\ inv = Empty /\ isConnected = FALSE
  /\ subs = {}
  /\ pending = [s \in Subscribers |-> <<>>]
  /\ out = [s \in Subscribers |-> <<>>]
  /\ read = [s \in Subscribers |-> Empty]
  /\ updates = 0 /\ breaks = 0

--------------------------------------------------------------------------------
(***************************************************************************)
(* The operator and the network.                                           *)
(***************************************************************************)

publishCluster ==
  /\ updates < MaxUpdates
  /\ updates' = updates + 1
  /\ cluster' = cluster + 1
  /\ stream' = IF run \in {"stream", "deliver"} THEN Append(stream, cluster') ELSE stream
  /\ UNCHANGED <<service, svcEvents, dstate, svc, timer, exited, run, message, invch, inv, isConnected,
                 subs, pending, out, read, breaks>>

installService ==
  /\ ~service
  /\ service' = TRUE
  /\ svcEvents' = Append(svcEvents, "added")
  /\ UNCHANGED <<cluster, dstate, svc, timer, exited, run, stream, message, invch, inv, isConnected,
                 subs, pending, out, read, updates, breaks>>

Break == breaks < MaxBreaks /\ breaks' = breaks + 1

removeService ==
  /\ service
  /\ Break
  /\ service' = FALSE
  /\ svcEvents' = Append(svcEvents, "deleted")
  /\ UNCHANGED <<cluster, dstate, svc, timer, exited, run, stream, message, invch, inv, isConnected,
                 subs, pending, out, read, updates>>

--------------------------------------------------------------------------------
(***************************************************************************)
(* inventoryRun.  A broken stream is reported and dialled again.           *)
(***************************************************************************)

StreamCluster ==
  /\ run = "dial"
  /\ service
  /\ run' = "stream"
  /\ stream' = <<cluster>>
  /\ UNCHANGED <<cluster, service, svcEvents, dstate, svc, timer, exited, message, invch, inv,
                 isConnected, subs, pending, out, read, updates, breaks>>

Recv ==
  /\ run = "stream"
  /\ \/ /\ stream # <<>>
        /\ message' = Head(stream)
        /\ stream' = Tail(stream)
        /\ run' = "deliver"
        /\ UNCHANGED breaks
     \/ /\ Break \/ (~service /\ UNCHANGED breaks)
        /\ message' = Empty
        /\ stream' = <<>>
        /\ run' = "lost"
  /\ UNCHANGED <<cluster, service, svcEvents, dstate, svc, timer, exited, invch, inv, isConnected,
                 subs, pending, out, read, updates>>

deliver ==
  /\ run \in {"deliver", "lost"}
  /\ Len(invch) < 1
  /\ invch' = Append(invch, message)
  /\ message' = Empty
  /\ run' = IF run = "deliver" THEN "stream" ELSE "dial"
  /\ UNCHANGED <<cluster, service, svcEvents, dstate, svc, timer, exited, stream, inv, isConnected,
                 subs, pending, out, read, updates, breaks>>

\* The port forwarding of a provider outside the cluster ends: the connector
\* is over, and reports an empty inventory if there is room.
connectorEnds ==
  /\ run # "none"
  /\ Break
  /\ run' = "none" /\ stream' = <<>> /\ message' = Empty
  /\ invch' = IF Len(invch) < 1 THEN <<Empty>> ELSE invch
  /\ exited' = TRUE
  /\ UNCHANGED <<cluster, service, svcEvents, dstate, svc, timer, inv, isConnected, subs, pending, out,
                 read, updates>>

--------------------------------------------------------------------------------
(***************************************************************************)
(* discovery.                                                              *)
(***************************************************************************)

\* A connector that cannot be set up (there is no pod yet) is tried later.
startConnector(running) ==
  /\ exited' = FALSE
  /\ invch' = <<>>
  /\ isConnected' = FALSE
  /\ stream' = <<>> /\ message' = Empty
  /\ \/ run' = "dial" /\ timer' = running /\ UNCHANGED breaks
     \/ run' = "none" /\ timer' = TRUE /\ Break

takeExit ==
  /\ dstate = "loop"
  /\ exited
  /\ exited' = FALSE
  /\ timer' = TRUE
  /\ UNCHANGED <<cluster, service, svcEvents, dstate, svc, run, stream, message, invch, inv, isConnected,
                 subs, pending, out, read, updates, breaks>>

\* Mutant: the timer fires once and nothing is started.
forgetConnector ==
  /\ dstate = "loop"
  /\ timer
  /\ timer' = FALSE
  /\ UNCHANGED <<cluster, service, svcEvents, dstate, svc, exited, run, stream, message, invch, inv,
                 isConnected, subs, pending, out, read, updates, breaks>>

reconnect ==
  /\ dstate = "loop"
  /\ timer
  /\ IF svc
     THEN startConnector(FALSE)
     ELSE timer' = FALSE /\ UNCHANGED <<exited, invch, isConnected, stream, message, run, breaks>>
  /\ UNCHANGED <<cluster, service, svcEvents, dstate, svc, inv, subs, pending, out, read, updates>>

\* When the service is deleted and the timer does not run, discovery waits for
\* the channel of the stopped timer.
takeService ==
  /\ dstate = "loop"
  /\ svcEvents # <<>>
  /\ svcEvents' = Tail(svcEvents)
  /\ \/ /\ Head(svcEvents) = "added"
        /\ svc' = TRUE
        /\ startConnector(timer)
        /\ UNCHANGED <<dstate, inv>>
     \/ /\ Head(svcEvents) = "deleted"
        /\ svc' = FALSE
        /\ run' = "none" /\ stream' = <<>> /\ message' = Empty
        /\ invch' = IF run # "none" /\ Len(invch) < 1 THEN <<Empty>> ELSE invch
        /\ exited' = (exited \/ run # "none")
        /\ dstate' = IF timer THEN "loop" ELSE "blocked"
        /\ timer' = FALSE
        /\ inv' = Empty
        /\ UNCHANGED <<isConnected, breaks>>
  /\ UNCHANGED <<cluster, service, subs, pending, out, read, updates>>

takeInventory ==
  /\ dstate = "loop"
  /\ invch # <<>>
  /\ invch' = Tail(invch)
  /\ inv' = Head(invch)
  /\ isConnected' = TRUE
  /\ pending' = [s \in Subscribers |-> IF s \in subs THEN Append(pending[s], inv') ELSE pending[s]]
  /\ UNCHANGED <<cluster, service, svcEvents, dstate, svc, timer, exited, run, stream, message, subs, out,
                 read, updates, breaks>>

ResultChan(s) ==
  /\ dstate = "loop"
  /\ s \notin subs
  /\ subs' = subs \cup {s}
  /\ pending' = IF isConnected THEN [pending EXCEPT ![s] = <<inv>>] ELSE pending
  /\ UNCHANGED <<cluster, service, svcEvents, dstate, svc, timer, exited, run, stream, message, invch, inv,
                 isConnected, out, read, updates, breaks>>

subscriber(s) ==
  /\ pending[s] # <<>>
  /\ out[s] = <<>>
  /\ out' = [out EXCEPT ![s] = <<Head(pending[s])>>]
  /\ pending' = [pending EXCEPT ![s] = Tail(@)]
  /\ UNCHANGED <<cluster, service, svcEvents, dstate, svc, timer, exited, run, stream, message, invch, inv,
                 isConnected, subs, read, updates, breaks>>

\* The inventory service reads when it has time.
reader(s) ==
  /\ out[s] # <<>>
  /\ read' = [read EXCEPT ![s] = Head(out[s])]
  /\ out' = [out EXCEPT ![s] = <<>>]
  /\ UNCHANGED <<cluster, service, svcEvents, dstate, svc, timer, exited, run, stream, message, invch, inv,
                 isConnected, subs, pending, updates, breaks>>

--------------------------------------------------------------------------------

Operator == publishCluster \/ removeService \/ connectorEnds

Runner == StreamCluster \/ Recv \/ deliver

Discovery == takeExit \/ reconnect \/ takeService \/ takeInventory

Serving == \E s \in Subscribers : ResultChan(s) \/ subscriber(s) \/ reader(s)

Next == Operator \/ installService \/ Runner \/ Discovery \/ Serving

\* The service comes back, and every goroutine goes on.
Spec ==
  /\ Init /\ [][Next]_icVars
  /\ WF_icVars(installService) /\ WF_icVars(Runner) /\ WF_icVars(Discovery)
  /\ \A s \in Subscribers : WF_icVars(ResultChan(s) \/ subscriber(s) \/ reader(s))

TypeOK ==
  /\ run \in {"none", "dial", "stream", "deliver", "lost"}
  /\ Len(invch) <= 1 /\ \A s \in Subscribers : Len(out[s]) <= 1
  /\ run = "none" => stream = <<>> /\ message = Empty

(***************************************************************************)
(* What a reader of the client has, once the operator is quiet: the        *)
(* cluster the operator published last, however often streams broke,       *)
(* connectors ended and dials failed before.  A client that is blocked has *)
(* seen the service deleted.                                               *)
(***************************************************************************)
ReadIsCurrent == dstate = "loop" => \A s \in Subscribers : read[s] = cluster
================================================================================
