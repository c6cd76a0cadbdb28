------------------------------ MODULE GatewayRoute -----------------------------
(***************************************************************************)
(* Publishing one hostname in gateway mode (cluster/kube/gateway/          *)
(* httproute.go): the HTTPRoute and the SnippetsFilter that carries the    *)
(* http options of the manifest are two resources, written one after the   *)
(* other by the operator, while the gateway controller accepts filters and *)
(* writes the route's status, the garbage collector deletes filters whose  *)
(* owner is gone, and the lease's namespace may be deleted.                *)
(***************************************************************************)
EXTENDS Naturals

CONSTANTS Options, NoOptions,   \* the http options; none set
          Missing,              \* no such resource
          MaxCalls, MaxStatus   \* bounds on the operator's calls, on status writes

Retries == 5   \* retry.DefaultRetry

VARIABLES httpRoute,  \* [uid, ref, version] or Missing; ref is "bare", NoOptions or "filter"
          filter,     \* [owner, options, generation, observed] or Missing
          nsExists,
          stamps,     \* whether the controller sets observedGeneration
          uids,       \* UIDs given so far
          grState,    \* where CreateOrUpdateHTTPRoute is
          call,       \* its directive and what it has read
          calls, status

grVars == <<httpRoute, filter, nsExists, stamps, uids, grState, call, calls, status>>

NoCall == [options |-> NoOptions, uid |-> 0, bare |-> FALSE, exists |-> FALSE,
           generation |-> 0, version |-> 0, tries |-> 0]

Init ==
  /\ httpRoute = Missing /\ filter = Missing
  /\ nsExists = TRUE
  /\ stamps \in BOOLEAN
  /\ uids = 0
  /\ grState = "idle"
  /\ call = NoCall
  /\ calls = 0 /\ status = 0

Return == grState' = "idle" /\ call' = NoCall

Exts == call.options # NoOptions

Route(uid, ref, v) == [uid |-> uid, ref |-> ref, version |-> v]

--------------------------------------------------------------------------------
(***************************************************************************)
(* CreateOrUpdateHTTPRoute and DeleteHTTPRoute.                            *)
(***************************************************************************)

getRoute(o) ==
  /\ grState = "idle"
  /\ calls < MaxCalls
  /\ calls' = calls + 1
  /\ call' = [NoCall EXCEPT !.options = o,
                            !.exists = httpRoute # Missing,
                            !.uid = IF httpRoute # Missing THEN httpRoute.uid ELSE 0]
  /\ grState' = IF httpRoute = Missing /\ o # NoOptions THEN "placeholder" ELSE "apply"
  /\ UNCHANGED <<httpRoute, filter, nsExists, uids, status, stamps>>

\* A route without parents and rules, for the UID the filter's owner needs.
createPlaceholder ==
  /\ grState = "placeholder"
  /\ \/ /\ nsExists
        /\ uids' = uids + 1
        /\ httpRoute' = Route(uids', "bare", 1)
        /\ call' = [call EXCEPT !.uid = uids', !.bare = TRUE]
        /\ grState' = "apply"
     \/ Return /\ UNCHANGED <<httpRoute, uids>>
  /\ UNCHANGED <<filter, nsExists, calls, status, stamps>>

\* A change of the options is a new generation; a new owner alone is not.
Upsert ==
  IF filter = Missing
  THEN [owner |-> call.uid, options |-> call.options, generation |-> 1, observed |-> 0]
  ELSE [filter EXCEPT !.owner = call.uid, !.options = call.options,
                      !.generation = IF filter.options = call.options THEN @ ELSE @ + 1]

applyRouteExtensions ==
  /\ grState = "apply"
  /\ \/ /\ ~Exts
        /\ grState' = "publish"
        /\ UNCHANGED <<filter, call>>
     \/ /\ Exts /\ nsExists
        /\ filter' = Upsert
        /\ call' = [call EXCEPT !.generation = filter'.generation]
        /\ grState' = "wait"
     \/ /\ Exts
        /\ Return
        /\ UNCHANGED filter
  /\ UNCHANGED <<httpRoute, nsExists, uids, calls, status, stamps>>

extensionAccepted ==
  /\ filter.observed > 0
  /\ ~stamps \/ filter.observed >= call.generation

\* Mutant: one read of the filter, whatever it says.
notWaiting ==
  /\ grState = "wait"
  /\ filter # Missing
  /\ grState' = "publish"
  /\ UNCHANGED <<httpRoute, filter, nsExists, uids, call, calls, status, stamps>>

\* Polls until accepted; ends with an error when the filter is gone, a call
\* fails or routeExtensionAcceptTimeout is over.
waitForExtensionAccepted ==
  /\ grState = "wait"
  /\ \/ /\ filter # Missing
        /\ extensionAccepted
        /\ grState' = "publish"
        /\ UNCHANGED call
     \/ Return
  /\ UNCHANGED <<httpRoute, filter, nsExists, uids, calls, status, stamps>>

Published == IF Exts THEN "filter" ELSE NoOptions

\* A route without extensions that did not exist is created as it is.  Any
\* other is read again for its version and updated, up to Retries times.
publishRoute ==
  /\ grState = "publish"
  /\ \/ /\ ~call.exists /\ ~call.bare
        /\ \/ /\ nsExists /\ httpRoute = Missing
              /\ uids' = uids + 1
              /\ httpRoute' = Route(uids', NoOptions, 1)
           \/ UNCHANGED <<httpRoute, uids>>
        /\ Return
     \/ /\ call.exists \/ call.bare
        /\ \/ /\ httpRoute # Missing
              /\ call' = [call EXCEPT !.version = httpRoute.version, !.tries = @ + 1]
              /\ grState' = "update"
           \/ Return
        /\ UNCHANGED <<httpRoute, uids>>
  /\ UNCHANGED <<filter, nsExists, calls, status, stamps>>

updateRoute ==
  /\ grState = "update"
  /\ \/ /\ httpRoute # Missing
        /\ httpRoute.version = call.version
        /\ httpRoute' = Route(httpRoute.uid, Published, httpRoute.version + 1)
        /\ Return
     \/ /\ httpRoute # Missing
        /\ httpRoute.version # call.version
        /\ IF call.tries < Retries THEN grState' = "publish" /\ UNCHANGED call ELSE Return
        /\ UNCHANGED httpRoute
     \/ /\ Return
        /\ UNCHANGED httpRoute
  /\ UNCHANGED <<filter, nsExists, uids, calls, status, stamps>>

DeleteHTTPRoute ==
  /\ grState = "idle"
  /\ httpRoute # Missing
  /\ calls < MaxCalls
  /\ calls' = calls + 1
  /\ httpRoute' = Missing
  /\ UNCHANGED <<filter, nsExists, uids, grState, call, status, stamps>>

--------------------------------------------------------------------------------
(***************************************************************************)
(* The cluster, as the code above expects it.                              *)
(***************************************************************************)

acceptFilter ==
  /\ filter # Missing
  /\ filter.observed < filter.generation
  /\ filter' = [filter EXCEPT !.observed = filter.generation]
  /\ UNCHANGED <<httpRoute, nsExists, uids, grState, call, calls, status, stamps>>

writeRouteStatus ==
  /\ httpRoute # Missing
  /\ status < MaxStatus
  /\ status' = status + 1
  /\ httpRoute' = [httpRoute EXCEPT !.version = @ + 1]
  /\ UNCHANGED <<filter, nsExists, uids, grState, call, calls, stamps>>

collectFilter ==
  /\ filter # Missing
  /\ ~(httpRoute # Missing /\ httpRoute.uid = filter.owner)
  /\ filter' = Missing
  /\ UNCHANGED <<httpRoute, nsExists, uids, grState, call, calls, status, stamps>>

deleteNamespace ==
  /\ nsExists
  /\ nsExists' = FALSE
  /\ httpRoute' = Missing /\ filter' = Missing
  /\ UNCHANGED <<uids, grState, call, calls, status, stamps>>

Operator == \/ \E o \in Options \cup {NoOptions} : getRoute(o)
            \/ createPlaceholder \/ applyRouteExtensions \/ waitForExtensionAccepted
            \/ publishRoute \/ updateRoute \/ DeleteHTTPRoute

Next == Operator \/ acceptFilter \/ writeRouteStatus \/ collectFilter \/ deleteNamespace

Spec == Init /\ [][Next]_grVars

--------------------------------------------------------------------------------

TypeOK ==
  /\ httpRoute # Missing => httpRoute.uid \in 1..uids /\ httpRoute.ref \in {"bare", NoOptions, "filter"}
  /\ filter # Missing => filter.observed <= filter.generation /\ filter.options \in Options
  /\ grState \in {"idle", "placeholder", "apply", "wait", "publish", "update"}

(***************************************************************************)
(* CreateOrUpdateHTTPRoute promises that the backend is never exposed      *)
(* without its options and that no route refers to a filter the gateway    *)
(* has not seen: a route that refers to its filter has it, owns it (so the *)
(* collector keeps it), and the gateway has accepted it once.              *)
(***************************************************************************)
RoutedIsFiltered ==
  httpRoute # Missing /\ httpRoute.ref = "filter"
    => /\ filter # Missing
       /\ filter.owner = httpRoute.uid
       /\ filter.observed > 0
================================================================================
