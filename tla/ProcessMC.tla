----------------------------- MODULE ProcessMC ------------------------------
(***************************************************************************)
(* The provider's process: the order in which its services start and end,  *)
(* the websockets of its gateway, the agents that look up its operators,   *)
(* and the two stores of its persistent configuration. None of them shares *)
(* state with another, so one of them runs in a behaviour.                 *)
(***************************************************************************)
EXTENDS BoltStore, Sequences, FiniteSets, TLC

CONSTANTS p1, p2, ev, c1, c2,
  Parts   \* the components that may run: "bolt", "process", "shell", "logs", "discovery", "memory"

VARIABLES
  proc, cancelled, svc, psvc, group, evtSvc, querier, storage, registered, deleted,
  ppFaults,
  options, client, handler, websocket, inbox, reader, sizes, ping, stream, copier,
  result, sentMsgs,
  request, peer, writer, orderly, cctx, pong, source, scan, feedCtx, donech, drain,
  lines, sent,
  agent, discover, lookup, discoverch, found, pending, caller, lock, sdClient,
  failures, nows,
  held, bidengine, memAnswer, memOps,
  part   \* the component that runs



P == INSTANCE ProviderProcess WITH
  MaxPpFaults <- 1
L == INSTANCE LeaseShell WITH
  MaxMessages <- 3
W == INSTANCE LeaseStreams WITH
  Pods <- {p1, p2}, Feed <- ev, MaxLines <- 2
D == INSTANCE ServiceDiscovery WITH
  Callers <- {c1, c2}, MaxDiscoverNow <- 2, client <- sdClient
R == INSTANCE MemoryStore WITH
  MaxMemOps <- MaxBoltOps

processVars == <<proc, cancelled, svc, psvc, group, evtSvc, querier, storage, registered,
                 deleted, ppFaults>>
shellVars == <<options, client, handler, websocket, inbox, reader, sizes, ping, stream,
               copier, result, sentMsgs>>
streamVars == <<request, peer, writer, orderly, cctx, pong, source, scan, feedCtx,
                donech, drain, lines, sent>>
discoveryVars == <<agent, discover, lookup, discoverch, found, pending, caller, lock,
                   sdClient, failures, nows>>
memoryVars == <<held, bidengine, memAnswer, memOps>>

allVars == <<vars, processVars, shellVars, streamVars, discoveryVars, memoryVars, part>>

\* The components that do not run stay in one of their initial states.
MCInit ==
  /\ part \in Parts
  /\ Init
  /\ P!Init
  /\ L!Init /\ (part # "shell" => options = [tty |-> TRUE, stdin |-> TRUE])
  /\ W!Init /\ (part # "logs" => request = [kind |-> "logs", follow |-> TRUE])
  /\ D!Init
  /\ R!Init

Bolt ==
  /\ part = "bolt" /\ Next
  /\ UNCHANGED <<processVars, shellVars, streamVars, discoveryVars, memoryVars, part>>
Process ==
  /\ part = "process" /\ P!Next
  /\ UNCHANGED <<vars, shellVars, streamVars, discoveryVars, memoryVars, part>>
Shell ==
  /\ part = "shell" /\ L!Next
  /\ UNCHANGED <<vars, processVars, streamVars, discoveryVars, memoryVars, part>>
Stream ==
  /\ part = "logs" /\ W!Next
  /\ UNCHANGED <<vars, processVars, shellVars, discoveryVars, memoryVars, part>>
Discovery ==
  /\ part = "discovery" /\ D!Next
  /\ UNCHANGED <<vars, processVars, shellVars, streamVars, memoryVars, part>>
Memory ==
  /\ part = "memory" /\ R!Next
  /\ UNCHANGED <<vars, processVars, shellVars, streamVars, discoveryVars, part>>

MCNext == Bolt \/ Process \/ Shell \/ Stream \/ Discovery \/ Memory

MCSpec == MCInit /\ [][MCNext]_allVars

\* The state of the component that runs.
runningVars == CASE part = "bolt" -> vars
                 [] part = "process" -> processVars
                 [] part = "shell" -> shellVars
                 [] part = "logs" -> streamVars
                 [] part = "discovery" -> discoveryVars
                 [] part = "memory" -> memoryVars

Runs(p) == part = p /\ UNCHANGED part

\* The fairness each component states for itself. As only one of them runs, one
\* conjunct serves a fair step of each.
MCFairSpec ==
  /\ MCSpec
  /\ WF_runningVars(\/ Runs("process") /\ P!Startup
                    \/ Runs("shell") /\ L!Handler
                    \/ Runs("logs") /\ W!Opening
                    \/ Runs("discovery") /\ D!Agent)
  /\ WF_runningVars(\/ Runs("process") /\ P!Child("balance")
                    \/ Runs("shell") /\ L!leaseShellPingHandler
                    \/ Runs("logs") /\ W!Scanner(p1)
                    \/ Runs("discovery") /\ D!lookupEnds)
  /\ WF_runningVars(\/ Runs("process") /\ P!Child("inventory")
                    \/ Runs("shell") /\ L!Reader
                    \/ Runs("logs") /\ W!Scanner(p2)
                    \/ Runs("discovery") /\ D!contextDone(c1))
  /\ WF_runningVars(\/ Runs("process") /\ P!Child("cluster")
                    \/ Runs("shell") /\ L!copyInput
                    \/ Runs("logs") /\ W!Scanner(ev)
                    \/ Runs("discovery") /\ D!contextDone(c2))
  /\ WF_runningVars(\/ Runs("process") /\ P!Child("bidengine")
                    \/ Runs("shell") /\ L!terminalSizeNext
                    \/ Runs("logs") /\ (W!takeLine(p1) \/ W!writeFails(p1))
                    \/ Runs("discovery") /\ D!GetClient(c1))
  /\ WF_runningVars(\/ Runs("process") /\ P!Child("manifest")
                    \/ Runs("logs") /\ (W!takeLine(p2) \/ W!writeFails(p2))
                    \/ Runs("discovery") /\ D!GetClient(c2))
  /\ WF_runningVars(\/ Runs("process") /\ P!inventoryDone
                    \/ Runs("logs") /\ (W!takeLine(ev) \/ W!writeFails(ev)))
  /\ WF_runningVars(\/ Runs("process") /\ P!runEnds
                    \/ Runs("logs") /\ W!drainLine(p1))
  /\ WF_runningVars(\/ Runs("process") /\ P!allDone
                    \/ Runs("logs") /\ W!drainLine(p2))
  /\ WF_runningVars(\/ Runs("process") /\ P!watchEvents
                    \/ Runs("logs") /\ W!drainLine(ev))
  /\ WF_runningVars(\/ Runs("process") /\ P!serviceDone
                    \/ Runs("logs") /\ W!feedEnds)
  /\ WF_runningVars(\/ Runs("process") /\ P!DeregisterWebhookConfiguration
                    \/ Runs("logs") /\ W!scannersWait)
  /\ WF_runningVars(\/ Runs("process") /\ (cancelled /\ P!serverReturns)
                    \/ Runs("logs") /\ W!takeDone)
  /\ WF_runningVars(\/ Runs("process") /\ P!Wait
                    \/ Runs("logs") /\ W!pingFails)
  /\ WF_runningVars(Runs("logs") /\ W!drainEnds)
  /\ WF_runningVars(Runs("logs") /\ W!wsSetupPongHandler)

-----------------------------------------------------------------------------

\* An orderly end leaves nothing behind: storage is closed after the services
\* that write to it have ended, and no admission webhook stays registered.
EndsClean == P!EndsClean

\* Nothing stays behind: a cancelled context or a service that cannot be created
\* brings the process to its end, as long as no service read its shutdown request
\* in trySignal; the shell's handler returns once the command is over, unless its
\* reader holds input nobody takes any more; the goroutines of a log or event
\* stream end when the client is gone or there is no more to send; and every call
\* for an operator's client, which holds the client's lock while it waits for the
\* discovery agent, returns with the client or without.
NothingHangs == P!Ends /\ L!SessionReturns /\ W!StreamsEnd /\ D!CallsReturn

\* The memory store of the persistent configuration keeps what a store promises
\* (AccountStore), as the bolt store does.
MemoryImplements == R!ImplementsStore

\* A log or event stream that ends because there is no more to send has sent all
\* there was.
OrderlyIsComplete == W!OrderlyIsComplete
=============================================================================
