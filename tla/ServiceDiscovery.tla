---------------------------- MODULE ServiceDiscovery ---------------------------
(***************************************************************************)
(* The service discovery agent (cluster/util/service_discovery_agent.go)   *)
(* under the lock of an operator client (cluster/kube/operators/clients/   *)
(* ip/client.go, metallb/client.go): one goroutine resolves the operator's *)
(* service in the background and hands the result to the calls that wait.  *)
(***************************************************************************)
EXTENDS Naturals, FiniteSets

CONSTANTS Callers, MaxDiscoverNow

VARIABLES agent,       \* "loop", or "blocked" on the channel of the retry timer
          discover,    \* the variable discover of run
          lookup,      \* discoveryResult: "nil", "running", "found", "failed", "taken"
          discoverch,  \* the channel of DiscoverNow, of capacity 1
          found,       \* sda.result is set
          pending,     \* sda.pendingRequests
          caller,      \* where each call is
          lock,        \* the caller holding the client's lock, or "free"
          client,      \* the client has been set up
          failures,    \* history: failed lookups
          nows         \* calls of DiscoverNow so far

sdVars == <<agent, discover, lookup, discoverch, found, pending, caller, lock, client, failures, nows>>

Init ==
  /\ agent = "loop" /\ discover = TRUE /\ lookup = "nil" /\ discoverch = FALSE
  /\ found = FALSE /\ pending = {}
  /\ caller = [c \in Callers |-> "idle"]
  /\ lock = "free" /\ client = FALSE
  /\ failures = 0 /\ nows = 0

--------------------------------------------------------------------------------
(***************************************************************************)
(* run.  Whatever the case taken, a lookup starts after it if one is       *)
(* wanted and the variable discoveryResult is nil.                         *)
(***************************************************************************)

Looked(d, l) ==
  /\ discover' = d
  /\ lookup' = IF d /\ l = "nil" THEN "running" ELSE l

takeDiscover ==
  /\ agent = "loop"
  /\ discoverch
  /\ discoverch' = FALSE
  /\ Looked(TRUE, lookup)
  /\ UNCHANGED <<agent, found, pending, caller, lock, client, failures, nows>>

\* The lookup, on a goroutine of its own.
lookupEnds ==
  /\ lookup = "running"
  /\ lookup' \in {"found", "failed"}
  /\ UNCHANGED <<agent, discover, discoverch, found, pending, caller, lock, client, failures, nows>>

\* setResult answers what waits.  After a failure the retry timer, which has
\* been stopped since it was made, is stopped again: its channel stays empty.
takeResult ==
  /\ agent = "loop"
  /\ lookup \in {"found", "failed"}
  /\ found' = (lookup = "found")
  /\ caller' = [c \in Callers |-> IF c \in pending /\ caller[c] = "waiting"
                                  THEN IF lookup = "found" THEN "answered" ELSE "failed"
                                  ELSE caller[c]]
  /\ pending' = {}
  /\ failures' = failures + (IF lookup = "failed" THEN 1 ELSE 0)
  /\ agent' = IF lookup = "failed" THEN "blocked" ELSE "loop"
  /\ Looked(discover, "taken")
  /\ UNCHANGED <<discoverch, lock, client, nows>>

handleRequest(c) ==
  /\ agent = "loop"
  /\ caller[c] = "sending"
  /\ caller' = [caller EXCEPT ![c] = IF found THEN "answered" ELSE "waiting"]
  /\ pending' = IF found THEN pending ELSE pending \cup {c}
  /\ Looked(discover, lookup)
  /\ UNCHANGED <<agent, discoverch, found, lock, client, failures, nows>>

DiscoverNow ==
  /\ nows < MaxDiscoverNow
  /\ nows' = nows + 1
  /\ discoverch' = TRUE
  /\ UNCHANGED <<agent, discover, lookup, found, pending, caller, lock, client, failures>>

--------------------------------------------------------------------------------
(***************************************************************************)
(* The callers.                                                            *)
(***************************************************************************)

newRequest(c) ==
  /\ caller[c] = "idle"
  /\ lock = "free"
  /\ lock' = IF client THEN lock ELSE c
  /\ caller' = [caller EXCEPT ![c] = IF client THEN "idle" ELSE "sending"]
  /\ UNCHANGED <<agent, discover, lookup, discoverch, found, pending, client, failures, nows>>

\* The context of the request is done.
contextDone(c) ==
  /\ caller[c] \in {"sending", "waiting"}
  /\ caller' = [caller EXCEPT ![c] = "failed"]
  /\ UNCHANGED <<agent, discover, lookup, discoverch, found, pending, lock, client, failures, nows>>

GetClient(c) ==
  /\ caller[c] \in {"answered", "failed"}
  /\ client' = (caller[c] = "answered")
  /\ lock' = "free"
  /\ caller' = [caller EXCEPT ![c] = "idle"]
  /\ UNCHANGED <<agent, discover, lookup, discoverch, found, pending, failures, nows>>

Agent == takeDiscover \/ takeResult \/ \E c \in Callers : handleRequest(c)

Next == \/ Agent \/ lookupEnds \/ DiscoverNow
        \/ \E c \in Callers : newRequest(c) \/ contextDone(c) \/ GetClient(c)

Fairness == /\ WF_sdVars(Agent) /\ WF_sdVars(lookupEnds)
            /\ \A c \in Callers : WF_sdVars(contextDone(c)) /\ WF_sdVars(GetClient(c))

Spec == Init /\ [][Next]_sdVars /\ Fairness

--------------------------------------------------------------------------------

TypeOK ==
  /\ agent \in {"loop", "blocked"}
  /\ lookup \in {"nil", "running", "found", "failed", "taken"}
  /\ pending \subseteq Callers
  /\ caller \in [Callers -> {"idle", "sending", "waiting", "answered", "failed"}]
  /\ lock \in Callers \cup {"free"}

(***************************************************************************)
(* A call for the operator's client returns, with the client or without:   *)
(* it holds the client's lock while it waits for the agent, so one that    *)
(* did not would keep every later call out.                                *)
(***************************************************************************)
CallsReturn == \A c \in Callers : []<>(caller[c] = "idle")

(***************************************************************************)
(* discoverKube says that it is retried forever: after a lookup failed,    *)
(* another one runs.  It does not: the agent waits for the retry timer's   *)
(* channel, which nothing fills.                                           *)
(***************************************************************************)
RetriedForever == (failures > 0 /\ ~found) ~> (lookup = "running")
================================================================================
