-------------------------- MODULE ProviderAttributes --------------------------
(* The provider attribute and auditor signature cache of the bid engine
   (bidengine/provider_attributes.go).  One loop owns the cache; every query
   of the chain is a goroutine of its own that hands its result to the loop
   over an unbuffered channel.  Attributes and signatures are numbers that
   grow with every change on the chain, 0 standing for none. *)
EXTENDS Integers, Sequences, FiniteSets

CONSTANTS
  Auditors,        \* auditors whose signatures are asked for
  Callers,         \* calls, one each of the two kinds the service offers
  AuditorOf,       \* the auditor a call asks for, Own for the attributes
  Own,
  MaxEntries,      \* entries the cache holds before it is pruned
  MaxPaChanges,    \* bound: changes on the chain and cache entries that age
  MaxPaFaults      \* bound: queries that fail

VARIABLES
  signed, offered, \* the chain: signatures per auditor, own attributes
  paLoop,          \* the loop: "run", "wait" for the goroutines, "done"
  paEvents,        \* the bus
  data, aged,      \* the cache, and the entries past their ttl
  waiting,         \* pass.pending: the calls an auditor's result answers
  fetching,        \* goroutine of a call's query: off, query, a result
  attr, fetchAttr, pushAttr, currAttr, newAttr, retry,
  missed,          \* history: a fetch was asked for while one was running
  stale,           \* history: old answers given since attr was set
  call, reqAttr,
  paChanges, paFaults

chainVars == <<signed, offered, paEvents>>
cacheVars == <<data, aged, waiting, fetching>>
attrVars == <<attr, fetchAttr, pushAttr, currAttr, newAttr, retry, missed, stale>>
callVars == <<call, reqAttr>>
boundVars == <<paChanges, paFaults>>
paVars == <<chainVars, paLoop, cacheVars, attrVars, callVars, boundVars>>

\* What a query's goroutine is at, besides the version it has read.
Off == -1
Query == -2
Failed == -3

Init ==
  /\ signed = [a \in Auditors |-> 1] /\ offered = 1 /\ paEvents = <<>>
  /\ paLoop = "run"
  /\ data = [a \in Auditors |-> 0] /\ aged = {}
  /\ waiting = [a \in Auditors |-> {}]
  /\ fetching = [c \in Callers |-> Off]
  /\ attr = 0 /\ fetchAttr = TRUE /\ pushAttr = FALSE /\ currAttr = 0
  /\ newAttr = Off /\ retry = FALSE /\ missed = FALSE /\ stale = 0
  /\ call = [c \in Callers |-> "idle"] /\ reqAttr = {}
  /\ paChanges = 0 /\ paFaults = 0

Change == paChanges < MaxPaChanges /\ paChanges' = paChanges + 1
Fault == paFaults < MaxPaFaults /\ paFaults' = paFaults + 1

-----------------------------------------------------------------------------
\* The chain: an auditor signs or withdraws, the provider updates its record.
\* The event is published when the change has happened.
auditorChanges(a) ==
  /\ Change /\ paLoop = "run"
  /\ signed' = [signed EXCEPT ![a] = @ + 1]
  /\ paEvents' = Append(paEvents, a)
  /\ UNCHANGED <<offered, paLoop, cacheVars, attrVars, callVars, paFaults>>

providerUpdated ==
  /\ Change /\ paLoop = "run"
  /\ offered' = offered + 1
  /\ paEvents' = Append(paEvents, Own)
  /\ UNCHANGED <<signed, paLoop, cacheVars, attrVars, callVars, paFaults>>

ages(a) ==
  /\ Change /\ data[a] # 0 /\ a \notin aged
  /\ aged' = aged \cup {a}
  /\ UNCHANGED <<chainVars, paLoop, data, waiting, fetching, attrVars, callVars,
                 paFaults>>

shutdown ==
  /\ paLoop = "run" /\ paLoop' = "wait"
  /\ UNCHANGED <<chainVars, cacheVars, attrVars, callVars, boundVars>>

-----------------------------------------------------------------------------
\* The loop's cases.
purgeAuditor(a) ==
  /\ data' = [data EXCEPT ![a] = 0] /\ aged' = aged \ {a}
  /\ UNCHANGED <<waiting, fetching, attrVars>>

handleEvent ==
  /\ paLoop = "run" /\ paEvents # <<>>
  /\ paEvents' = Tail(paEvents)
  /\ LET ev == Head(paEvents) IN
       IF ev = Own
       THEN fetchAttr' = TRUE
            /\ UNCHANGED <<cacheVars, attr, pushAttr, currAttr, newAttr, retry, missed, stale>>
       ELSE purgeAuditor(ev)
  /\ UNCHANGED <<signed, offered, paLoop, callVars, boundVars>>

\* A cached signature answers at once.  inProgress is never filled in, so
\* that maybeStart begins a query for every other request.
addRequest(c) ==
  LET a == AuditorOf[c] IN
  /\ paLoop = "run" /\ call[c] = "idle" /\ a # Own
  /\ IF data[a] # 0 /\ a \notin aged
     THEN /\ call' = [call EXCEPT ![c] = "ok"]
          /\ UNCHANGED <<waiting, fetching>>
     ELSE /\ call' = [call EXCEPT ![c] = "wait"]
          /\ waiting' = [waiting EXCEPT ![a] = @ \cup {c}]
          /\ fetching' = [fetching EXCEPT ![c] = Query]
  /\ UNCHANGED <<chainVars, paLoop, data, aged, attrVars, reqAttr, boundVars>>

\* The goroutine of one query: what it read waits for the loop to take it.
fetch(c) ==
  /\ fetching[c] = Query
  /\ \/ /\ fetching' = [fetching EXCEPT ![c] = signed[AuditorOf[c]]]
        /\ UNCHANGED paFaults
     \/ Fault /\ fetching' = [fetching EXCEPT ![c] = Failed]
  /\ UNCHANGED <<chainVars, paLoop, data, aged, waiting, attrVars, callVars, paChanges>>

\* Aged entries go; past the limit entries go until half of it is freed.
trimmed(d, old) ==
  LET kept == {a \in Auditors : d[a] # 0 /\ a \notin old} IN
  IF Cardinality(kept) <= MaxEntries THEN {kept}
  ELSE {k \in SUBSET kept : Cardinality(kept \ k) = Cardinality(kept) - MaxEntries}

Answer(a, st) == [c \in Callers |-> IF c \in waiting[a] /\ call[c] = "wait" THEN st ELSE call[c]]

failAllPending(a) ==
  /\ call' = Answer(a, "failed")
  /\ UNCHANGED <<data, aged>>

completeAllPending(a, v) ==
  /\ call' = Answer(a, "ok")
  /\ \E k \in trimmed([data EXCEPT ![a] = v], aged \ {a}) :
       data' = [b \in Auditors |-> IF b \notin k THEN 0 ELSE IF b = a THEN v ELSE data[b]]
  /\ aged' = {}

\* Mutant: a result answers the call that began the query and no other.
takeOwnResult(c) ==
  LET a == AuditorOf[c] IN
  /\ paLoop = "run" /\ fetching[c] \notin {Off, Query}
  /\ fetching' = [fetching EXCEPT ![c] = Off]
  /\ IF fetching[c] = Failed THEN failAllPending(a)
     ELSE /\ call' = [call EXCEPT ![c] = "ok"]
          /\ data' = [data EXCEPT ![a] = fetching[c]] /\ aged' = {}
  /\ waiting' = [waiting EXCEPT ![a] = {}]
  /\ UNCHANGED <<chainVars, paLoop, attrVars, reqAttr, boundVars>>

takeResult(c) ==
  LET a == AuditorOf[c] IN
  /\ paLoop = "run" /\ fetching[c] \notin {Off, Query}
  /\ fetching' = [fetching EXCEPT ![c] = Off]
  /\ IF fetching[c] = Failed THEN failAllPending(a) ELSE completeAllPending(a, fetching[c])
  /\ waiting' = [waiting EXCEPT ![a] = {}]
  /\ UNCHANGED <<chainVars, paLoop, attrVars, reqAttr, boundVars>>

\* One fetch of the attributes at a time: asked for during one, none starts.
tryFetchAttributes ==
  /\ paLoop = "run" /\ fetchAttr
  /\ fetchAttr' = FALSE
  /\ IF newAttr = Off THEN newAttr' = Query /\ UNCHANGED missed
     ELSE missed' = TRUE /\ UNCHANGED newAttr
  /\ UNCHANGED <<chainVars, paLoop, cacheVars, attr, pushAttr, currAttr, retry, stale,
                 callVars, boundVars>>

\* The goroutine of the attributes: a failure gives the slot back and has the
\* loop start the retry timer.
fetchAttributes ==
  /\ newAttr = Query
  /\ \/ newAttr' = offered /\ UNCHANGED <<retry, paFaults>>
     \/ Fault /\ newAttr' = Off /\ retry' = TRUE
  /\ UNCHANGED <<chainVars, paLoop, cacheVars, attr, fetchAttr, pushAttr, currAttr,
                 missed, stale, callVars, paChanges>>

retryTimer ==
  /\ retry /\ retry' = FALSE /\ fetchAttr' = TRUE
  /\ UNCHANGED <<chainVars, paLoop, cacheVars, attr, pushAttr, currAttr, newAttr,
                 missed, stale, callVars, boundVars>>

takeAttributes ==
  /\ paLoop = "run" /\ newAttr \notin {Off, Query}
  /\ attr' = newAttr /\ newAttr' = Off /\ pushAttr' = TRUE /\ stale' = 0
  /\ UNCHANGED <<chainVars, paLoop, cacheVars, fetchAttr, currAttr, retry, missed,
                 callVars, boundVars>>

pushCurrent ==
  /\ paLoop = "run" /\ pushAttr
  /\ pushAttr' = FALSE
  /\ currAttr' = IF currAttr = 0 THEN attr ELSE currAttr
  /\ UNCHANGED <<chainVars, paLoop, cacheVars, attr, fetchAttr, newAttr, retry, missed,
                 stale, callVars, boundVars>>

\* GetAttributes, then the goroutine processAttrReq starts for it.
GetAttributes(c) ==
  /\ paLoop = "run" /\ call[c] = "idle" /\ AuditorOf[c] = Own
  /\ call' = [call EXCEPT ![c] = "wait"] /\ reqAttr' = reqAttr \cup {c}
  /\ UNCHANGED <<chainVars, paLoop, cacheVars, attrVars, boundVars>>

\* The goroutine waits for the attributes until its timeout.
processAttrReq(c) ==
  /\ c \in reqAttr /\ reqAttr' = reqAttr \ {c}
  /\ \/ /\ currAttr # 0
        /\ stale' = IF currAttr # attr THEN stale + 1 ELSE stale
        /\ currAttr' = 0 /\ pushAttr' = TRUE
        /\ call' = [call EXCEPT ![c] = IF @ = "wait" THEN "ok" ELSE @]
     \/ /\ call' = [call EXCEPT ![c] = IF @ = "wait" THEN "failed" ELSE @]
        /\ UNCHANGED <<currAttr, pushAttr, stale>>
  /\ UNCHANGED <<chainVars, paLoop, cacheVars, attr, fetchAttr, newAttr, retry, missed,
                 boundVars>>

\* A call made to, or left waiting at, a service that shuts down.
callEnds(c) ==
  /\ paLoop # "run" /\ call[c] \in {"idle", "wait"}
  /\ call' = [call EXCEPT ![c] = "down"]
  /\ UNCHANGED <<chainVars, paLoop, cacheVars, attrVars, reqAttr, boundVars>>

\* pass.wg.Wait: a query's goroutine is done once its result was taken.
wait ==
  /\ paLoop = "wait" /\ \A c \in Callers : fetching[c] = Off
  /\ paLoop' = "done"
  /\ UNCHANGED <<chainVars, cacheVars, attrVars, callVars, boundVars>>

-----------------------------------------------------------------------------
Loop ==
  \/ handleEvent \/ tryFetchAttributes \/ takeAttributes \/ pushCurrent \/ wait
  \/ \E c \in Callers : addRequest(c) \/ takeResult(c) \/ GetAttributes(c)

Goroutines ==
  \/ fetchAttributes \/ retryTimer
  \/ \E c \in Callers : fetch(c) \/ processAttrReq(c) \/ callEnds(c)

Next ==
  \/ Loop \/ Goroutines \/ shutdown \/ providerUpdated
  \/ \E a \in Auditors : auditorChanges(a) \/ ages(a)

Fairness ==
  /\ WF_paVars(handleEvent) /\ WF_paVars(tryFetchAttributes)
  /\ WF_paVars(takeAttributes) /\ WF_paVars(pushCurrent) /\ WF_paVars(wait)
  /\ WF_paVars(fetchAttributes) /\ WF_paVars(retryTimer)
  /\ \A c \in Callers : WF_paVars(takeResult(c)) /\ WF_paVars(fetch(c))
                        /\ WF_paVars(callEnds(c)) /\ WF_paVars(processAttrReq(c))

Spec == Init /\ [][Next]_paVars

FairSpec == Spec /\ Fairness

Versions == 0..(MaxPaChanges + 1)

TypeOK ==
  /\ signed \in [Auditors -> Versions] /\ offered \in Versions
  /\ paEvents \in Seq(Auditors \cup {Own}) /\ paLoop \in {"run", "wait", "done"}
  /\ data \in [Auditors -> Versions] /\ aged \subseteq Auditors
  /\ waiting \in [Auditors -> SUBSET Callers]
  /\ fetching \in [Callers -> Versions \cup {Off, Query, Failed}]
  /\ attr \in Versions /\ currAttr \in Versions /\ stale \in 0..Cardinality(Callers)
  /\ newAttr \in Versions \cup {Off, Query}
  /\ {fetchAttr, pushAttr, retry, missed} \subseteq BOOLEAN
  /\ call \in [Callers -> {"idle", "wait", "ok", "failed", "down"}]
  /\ reqAttr \subseteq Callers

\* The attributes that bids are checked with are those of the chain, unless
\* a change met a fetch that was under way (tryFetchAttributes then drops it).
Followed == paLoop = "run" /\ ~missed => attr = offered

\* A call is over.
Returned == \A c \in Callers : call[c] # "wait"

\* provider_attributes_test.go stops the service and fails with "timed out
\* waiting for service to stop": asked to stop, the service ends.
ServiceStops == (paLoop = "wait") ~> (paLoop = "done")
=============================================================================
