--------------------------- MODULE ProviderProcess ---------------------------
(***************************************************************************)
(* The provider process: what `provider-services run' starts, in which     *)
(* order, and how all of it ends (cmd/provider-services/cmd/run.go and     *)
(* service.go).                                                            *)
(*                                                                         *)
(* doRunCmd starts one thing after the other and returns at the first      *)
(* error.  NewService starts the balance checker, the cluster service (and *)
(* with it the inventory service), the bid engine and the manifest         *)
(* service.  What then runs is a group of goroutines: the first one that   *)
(* returns an error, or a signal, cancels the context; everything ends and *)
(* the process exits.                                                      *)
(*                                                                         *)
(* A service is asked to stop through its lifecycle: WatchContext hands    *)
(* the request, once, to whoever reads ShutdownRequest.  The loops of the  *)
(* inventory service, the bid engine and the manifest service read it in   *)
(* two places: their select, and trySignal.  What a service does before it *)
(* has ended is in the modules of the services.                            *)
(***************************************************************************)
EXTENDS Naturals, Sequences, FiniteSets

CONSTANT
  MaxPpFaults   \* bound: failures

VARIABLES
  proc,       \* the step of doRunCmd, "wait", "exited"
  cancelled,  \* the context of the group
  svc,        \* svc[c]: "off" | "waiting" (for the operators) | "loop" | "lost" (in its
              \* loop, its shutdown request read by trySignal) | "draining" | "done"
  psvc,       \* service: [pc, started, own], own: its context was cancelled
  group,      \* group[g]: a goroutine of the group, "off" | "running" | "returned"
  evtSvc,     \* the events service has stopped by itself
  querier,    \* the account querier: "off" | "running" | "failed"
  storage,    \* persistent configuration: "open" | "closed"
  registered, \* the admission webhook is registered in the cluster
  deleted,    \* its deletion was tried: "no" | "done" | "failed"
  ppFaults

ppVars == <<proc, cancelled, svc, psvc, group, evtSvc, querier, storage, registered,
            deleted, ppFaults>>

Children   == {"balance", "inventory", "cluster", "bidengine", "manifest"}
Signalling == {"inventory", "bidengine", "manifest"}

\* "servers" stands for the gateways, the webhook's and the metrics server, each
\* one with the goroutine that closes it, and for the one that closes the
\* account querier.
Goroutines == {"events", "service", "servers", "webhook"}

\* PreRunE: storage and clients are there, nothing runs.
Init ==
  /\ proc = "pricing" /\ cancelled = FALSE
  /\ svc = [c \in Children |-> "off"]
  /\ psvc = [pc |-> "off", started |-> {}, own |-> FALSE]
  /\ group = [g \in Goroutines |-> "off"]
  /\ evtSvc = "off" /\ querier = "off" /\ storage = "open"
  /\ registered = FALSE /\ deleted = "no"
  /\ ppFaults = 0

----------------------------------------------------------------------------
(* Starting.                                                               *)

\* One step of doRunCmd, without more of a result than that it was taken.
Step(from, to) == proc = from /\ proc' = to

\* An error ends the command; what has been started ends with the process.
fails ==
  /\ ppFaults < MaxPpFaults
  /\ ppFaults' = ppFaults + 1
  /\ proc' = "exited"

notStarted == <<svc, psvc, group, evtSvc, querier, storage, registered, deleted>>

createBidPricingStrategy ==
  /\ Step("pricing", "migrations")
  /\ UNCHANGED <<cancelled, notStarted, ppFaults>>

runMigrationsOnStartup ==
  /\ Step("migrations", "query")
  /\ UNCHANGED <<cancelled, notStarted, ppFaults>>

\* The provider's entry on the chain.
queryProvider ==
  /\ Step("query", "settings")
  /\ UNCHANGED <<cancelled, notStarted, ppFaults>>

\* Settings, with the endpoints of the API server, and their validation.
kubeSettings ==
  /\ Step("settings", "client")
  /\ UNCHANGED <<cancelled, notStarted, ppFaults>>

createClusterClient ==
  /\ Step("client", "config")
  /\ UNCHANGED <<cancelled, notStarted, ppFaults>>

serviceConfig ==
  /\ Step("config", "operators")
  /\ UNCHANGED <<cancelled, notStarted, ppFaults>>

\* Clients of the operators, and the waiter that asks them until all answer.
operatorClients ==
  /\ Step("operators", "service")
  /\ psvc' = [psvc EXCEPT !.pc = "new"]
  /\ UNCHANGED <<cancelled, svc, group, evtSvc, querier, storage, registered, deleted, ppFaults>>

\* The steps before the service that can fail.
startFails ==
  /\ proc \in {"pricing", "migrations", "query", "settings", "client", "config", "operators"}
  /\ fails
  /\ UNCHANGED <<cancelled, notStarted>>

----------------------------------------------------------------------------
(* NewService.                                                             *)

Order == <<"balance", "cluster", "bidengine", "manifest">>

\* The cluster service brings the inventory service with it.
begun(c) == IF c = "cluster" THEN {"cluster", "inventory"} ELSE {c}

\* The services that wait for the operators first.
waits(c) == c \in {"inventory", "cluster", "bidengine"}

newChild ==
  /\ proc = "service" /\ psvc.pc = "new"
  /\ Len(Order) > Cardinality(psvc.started)
  /\ LET c == Order[Cardinality(psvc.started) + 1]
     IN /\ psvc' = [psvc EXCEPT !.started = @ \cup {c}]
        /\ svc' = [s \in Children |->
             IF s \in begun(c) THEN IF waits(s) THEN "waiting" ELSE "loop" ELSE svc[s]]
  /\ UNCHANGED <<proc, cancelled, group, evtSvc, querier, storage, registered, deleted, ppFaults>>

\* A service that cannot be created: those that run are told to end and are
\* waited for.
newChildFails ==
  /\ proc = "service" /\ psvc.pc = "new"
  /\ Len(Order) > Cardinality(psvc.started)
  /\ ppFaults < MaxPpFaults
  /\ ppFaults' = ppFaults + 1
  /\ psvc' = [psvc EXCEPT !.pc = "failing", !.own = TRUE]
  /\ UNCHANGED <<proc, cancelled, svc, group, evtSvc, querier, storage, registered,
                 deleted>>

newServiceReturns ==
  /\ psvc.pc = "failing"
  /\ \A c \in psvc.started : svc[c] = "done"
  /\ psvc' = [psvc EXCEPT !.pc = "off"]
  /\ proc' = "exited"
  /\ UNCHANGED <<cancelled, svc, group, evtSvc, querier, storage, registered, deleted, ppFaults>>

NewService ==
  /\ psvc.pc = "new" /\ psvc.started = {Order[i] : i \in DOMAIN Order}
  /\ Step("service", "querier")
  /\ psvc' = [psvc EXCEPT !.pc = "run"]
  /\ UNCHANGED <<cancelled, svc, group, evtSvc, querier, storage, registered, deleted, ppFaults>>

----------------------------------------------------------------------------
(* After the service.                                                      *)

go(gs) == group' = [g \in Goroutines |-> IF g \in gs THEN "running" ELSE group[g]]

newAccountQuerier ==
  /\ Step("querier", "gateways")
  /\ querier' = "running"
  /\ UNCHANGED <<cancelled, svc, psvc, group, evtSvc, storage, registered, deleted, ppFaults>>

\* The gRPC server adds itself to the group.
gateways ==
  /\ Step("gateways", "events")
  /\ go({"servers"})
  /\ UNCHANGED <<cancelled, svc, psvc, evtSvc, querier, storage, registered, deleted, ppFaults>>

newEventsService ==
  /\ Step("events", "webhook")
  /\ evtSvc' = "running"
  /\ go({"events", "service"})
  /\ UNCHANGED <<cancelled, svc, psvc, querier, storage, registered, deleted, ppFaults>>

\* With the webhook enabled: the registration first, then its server.
startWebhook ==
  /\ Step("webhook", "metrics")
  /\ registered' = TRUE
  /\ go({"webhook"})
  /\ UNCHANGED <<cancelled, svc, psvc, evtSvc, querier, storage, deleted, ppFaults>>

noWebhook ==
  /\ Step("webhook", "metrics")
  /\ UNCHANGED <<cancelled, notStarted, ppFaults>>

\* From here on the group decides.
startMetrics ==
  /\ Step("metrics", "wait")
  /\ UNCHANGED <<cancelled, notStarted, ppFaults>>

lateFails ==
  /\ proc \in {"querier", "gateways", "events", "webhook"}
  /\ fails
  /\ UNCHANGED <<cancelled, notStarted>>

----------------------------------------------------------------------------
(* The services.                                                           *)

Cancelled == cancelled \/ psvc.own

operatorsReady(c) ==
  /\ proc # "exited" /\ svc[c] = "waiting"
  /\ svc' = [svc EXCEPT ![c] = "loop"]
  /\ UNCHANGED <<proc, cancelled, psvc, group, evtSvc, querier, storage, registered,
                 deleted, ppFaults>>

\* WaitForAll returns the context's error, and the service ends.
waitEnds(c) ==
  /\ proc # "exited" /\ svc[c] = "waiting" /\ Cancelled
  /\ svc' = [svc EXCEPT ![c] = "done"]
  /\ UNCHANGED <<proc, cancelled, psvc, group, evtSvc, querier, storage, registered,
                 deleted, ppFaults>>

\* The loop's select reads the request WatchContext has for it; managers, orders
\* and watchdogs end, and the cluster service has the inventory to wait for.
ShutdownRequest(c) ==
  /\ proc # "exited" /\ svc[c] = "loop" /\ Cancelled
  /\ svc' = [svc EXCEPT ![c] = IF c = "cluster" THEN "draining" ELSE "done"]
  /\ UNCHANGED <<proc, cancelled, psvc, group, evtSvc, querier, storage, registered,
                 deleted, ppFaults>>

\* A turn of the loop that ends with trySignal, whose select takes any of what
\* is ready: with a request there, and always when the signal channel is full,
\* that is the request.
trySignal(c) ==
  /\ proc # "exited" /\ svc[c] = "loop" /\ Cancelled
  /\ svc' = [svc EXCEPT ![c] = "lost"]
  /\ UNCHANGED <<proc, cancelled, psvc, group, evtSvc, querier, storage, registered,
                 deleted, ppFaults>>

inventoryDone ==
  /\ proc # "exited" /\ svc["cluster"] = "draining" /\ svc["inventory"] = "done"
  /\ svc' = [svc EXCEPT !["cluster"] = "done"]
  /\ UNCHANGED <<proc, cancelled, psvc, group, evtSvc, querier, storage, registered,
                 deleted, ppFaults>>

\* service.run: a shutdown request or a service that has ended ends them all.
runEnds ==
  /\ proc # "exited" /\ psvc.pc = "run"
  /\ cancelled \/ \E c \in {"cluster", "bidengine", "manifest"} : svc[c] = "done"
  /\ psvc' = [psvc EXCEPT !.pc = "closing", !.own = TRUE]
  /\ UNCHANGED <<proc, cancelled, svc, group, evtSvc, querier, storage, registered,
                 deleted, ppFaults>>

\* Mutant: the bid engine is not waited for.
allDoneButBids ==
  /\ proc # "exited" /\ psvc.pc = "closing"
  /\ \A c \in {"cluster", "manifest", "balance"} : svc[c] = "done"
  /\ psvc' = [psvc EXCEPT !.pc = "done"]
  /\ UNCHANGED <<proc, cancelled, svc, group, evtSvc, querier, storage, registered,
                 deleted, ppFaults>>

allDone ==
  /\ proc # "exited" /\ psvc.pc = "closing"
  /\ \A c \in {"cluster", "bidengine", "manifest", "balance"} : svc[c] = "done"
  /\ psvc' = [psvc EXCEPT !.pc = "done"]
  /\ UNCHANGED <<proc, cancelled, svc, group, evtSvc, querier, storage, registered,
                 deleted, ppFaults>>

----------------------------------------------------------------------------
(* The group: the first error cancels the context.                         *)

returns(g, err) ==
  /\ proc # "exited" /\ group[g] = "running"
  /\ group' = [group EXCEPT ![g] = "returned"]
  /\ cancelled' = (cancelled \/ err)

\* watchEvents: an events service that stops by itself is an error.
watchEvents ==
  /\ evtSvc = "stopped" \/ cancelled
  /\ returns("events", ~cancelled)
  /\ UNCHANGED <<proc, svc, psvc, evtSvc, querier, storage, registered, deleted, ppFaults>>

\* Close returns the error the service ended with, the context's.
serviceDone ==
  /\ psvc.pc = "done"
  /\ returns("service", cancelled)
  /\ UNCHANGED <<proc, svc, psvc, evtSvc, querier, storage, registered, deleted, ppFaults>>

\* A server serves until it is closed, or fails to listen.  The querier's context
\* is done with the group's: its Close waits for nothing and returns no error.
serverReturns ==
  /\ \/ cancelled /\ UNCHANGED ppFaults
     \/ ~cancelled /\ ppFaults < MaxPpFaults /\ ppFaults' = ppFaults + 1
  /\ returns("servers", TRUE)
  /\ UNCHANGED <<proc, svc, psvc, evtSvc, querier, storage, registered, deleted>>

\* Deregistration, then the webhook's server is shut down.
DeregisterWebhookConfiguration ==
  /\ cancelled
  /\ returns("webhook", FALSE)
  /\ \/ registered' = FALSE /\ deleted' = "done" /\ UNCHANGED ppFaults
     \/ /\ ppFaults < MaxPpFaults /\ ppFaults' = ppFaults + 1
        /\ deleted' = "failed" /\ UNCHANGED registered
  /\ UNCHANGED <<proc, svc, psvc, evtSvc, querier, storage>>

allReturned == \A g \in Goroutines : group[g] # "running"

\* group.Wait in doRunCmd.
Wait ==
  /\ proc = "wait" /\ allReturned
  /\ proc' = "exited"
  /\ UNCHANGED <<cancelled, notStarted, ppFaults>>

\* group.Wait in PreRunE, which then closes the storage.
closeStorage ==
  /\ proc = "wait" /\ allReturned /\ storage = "open"
  /\ storage' = "closed"
  /\ UNCHANGED <<proc, cancelled, svc, psvc, group, evtSvc, querier, registered, deleted, ppFaults>>

----------------------------------------------------------------------------
(* Signals and failures.                                                   *)

signalled ==
  /\ proc # "exited" /\ ~cancelled
  /\ cancelled' = TRUE
  /\ UNCHANGED <<proc, notStarted, ppFaults>>

eventsStop ==
  /\ proc # "exited" /\ evtSvc = "running" /\ ppFaults < MaxPpFaults
  /\ ppFaults' = ppFaults + 1
  /\ evtSvc' = "stopped"
  /\ UNCHANGED <<proc, cancelled, svc, psvc, group, querier, storage, registered, deleted>>

\* One of the querier's goroutines returns an error, which cancels the others.
querierFails ==
  /\ proc # "exited" /\ querier = "running" /\ ppFaults < MaxPpFaults
  /\ ppFaults' = ppFaults + 1
  /\ querier' = "failed"
  /\ UNCHANGED <<proc, cancelled, svc, psvc, group, evtSvc, storage, registered, deleted>>

Startup ==
  \/ createBidPricingStrategy \/ runMigrationsOnStartup \/ queryProvider \/ kubeSettings
  \/ createClusterClient \/ serviceConfig \/ operatorClients
  \/ newChild \/ newServiceReturns \/ NewService
  \/ newAccountQuerier \/ gateways \/ newEventsService \/ startWebhook \/ noWebhook
  \/ startMetrics

Child(c) ==
  operatorsReady(c) \/ waitEnds(c) \/ ShutdownRequest(c)

Group ==
  \/ watchEvents \/ serviceDone \/ serverReturns
  \/ DeregisterWebhookConfiguration

Next ==
  \/ Startup \/ startFails \/ newChildFails \/ lateFails
  \/ \E c \in Children : Child(c)
  \/ \E c \in Signalling : trySignal(c)
  \/ inventoryDone \/ runEnds \/ allDone \/ Group \/ Wait \/ closeStorage
  \/ signalled \/ eventsStop \/ querierFails

Spec == Init /\ [][Next]_ppVars

\* Every goroutine goes on, and a select that can take a case for ever takes it.
Fairness ==
  /\ WF_ppVars(Startup)
  /\ \A c \in Children : WF_ppVars(Child(c))
  /\ WF_ppVars(inventoryDone) /\ WF_ppVars(runEnds) /\ WF_ppVars(allDone)
  /\ WF_ppVars(watchEvents) /\ WF_ppVars(serviceDone)
  /\ WF_ppVars(DeregisterWebhookConfiguration)
  /\ WF_ppVars(cancelled /\ serverReturns)
  /\ WF_ppVars(Wait)

FairSpec == Spec /\ Fairness

----------------------------------------------------------------------------

TypeOK ==
  /\ svc \in [Children -> {"off", "waiting", "loop", "lost", "draining", "done"}]
  /\ psvc.pc \in {"off", "new", "failing", "run", "closing", "done"}
  /\ cancelled \in BOOLEAN /\ registered \in BOOLEAN
  /\ ppFaults \in 0..MaxPpFaults

Lost == \E c \in Children : svc[c] = "lost"

\* An orderly end leaves nothing behind: the persistent configuration is closed
\* only when the services NewService created have ended (the inventory service
\* of a cluster service that gave up waiting for the operators may still run),
\* and a provider that has ended through its group has no admission webhook
\* registered, which would keep pods from being created while it is down ("Call
\* this on shutdown to avoid dangling webhooks", registration.go 130), unless
\* the deletion failed.
EndsClean ==
  /\ storage = "closed" => \A c \in Children \ {"inventory"} : svc[c] = "done"
  /\ proc = "exited" /\ group["webhook"] = "returned" => deleted = "failed" \/ ~registered

\* The provider comes to its end once its context is cancelled or one of its
\* services cannot be created, as long as no service has read its shutdown
\* request in trySignal.
Ends == []<>(cancelled \/ psvc.pc = "failing" => proc = "exited" \/ Lost)

\* The provider stops when the events service has stopped by itself
\* (chain_events.go 16, "so the provider stops rather than keep bidding and
\* serving leases without chain events").
StopsWithoutEvents == (evtSvc = "stopped") ~> (proc = "exited")

\* An error of the account querier ends the provider (run.go 803, "Monitor
\* accountQuerier lifecycle and propagate errors from internal errgroup").
StopsWithoutQuerier == (querier = "failed") ~> (proc = "exited")
=============================================================================
