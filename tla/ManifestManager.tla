---------------------------- MODULE ManifestManager ----------------------------
(***************************************************************************)
(* The manager of one deployment's manifests, manifest/manager.go: a loop  *)
(* that reads the deployment and its leases from the chain, checks the     *)
(* manifests tenants submit against the hash it has read, and publishes    *)
(* the accepted one to the cluster service.                                *)
(*                                                                         *)
(* A chain read is answered by a node that may be behind the nodes that    *)
(* answered before, and that may leave out the height of its answer.       *)
(* Events can be late or missing.  A manifest is the hash it has;          *)
(* Malformed stands for one that Validate refuses.  The stop timer is left *)
(* out: the code only restarts a timer that exists, and creates none.      *)
(***************************************************************************)
EXTENDS Naturals, Sequences

CONSTANTS
  Requests,     \* calls of Submit
  Hashes,       \* deployment hashes
  Malformed,    \* a manifest that is not valid
  Leases,
  MaxHeight     \* bound on the blocks of the chain

VARIABLES
  chain,      \* the blocks: deployment hash and active leases at a height
  events,     \* events of the bus that have not reached the manager
  loop,       \* "running", "draining" or "done"
  fetched, localLeases,
  expected,   \* m.expected; a hash that is not set is Malformed
  latest,     \* the last of m.manifests, Malformed for none
  runch,      \* the chain read
  requests,   \* m.requests
  reread,     \* requests that have had their second read
  manifest,   \* the manifest of a request that was submitted
  reply,      \* what was sent on the channel of a request
  ctxDone,    \* requests whose context is over
  seen,       \* history: the greatest height a read reported
  reads       \* history: chain reads started since a request was received

chainVars == <<chain, events>>
vars == <<chainVars, loop, fetched, localLeases, expected, latest, runch, requests, reread,
          manifest, reply, ctxDone, seen, reads>>

Blocks == [hash : Hashes, leases : SUBSET Leases]

Events == {"leaseWon", "leaseClosed", "updated"}

Replies == {"none", "ok", "invalid", "version", "hostnames", "noLease", "error", "notRunning"}

Answers == [step : {"answered"}, hash : Hashes, leases : SUBSET Leases, height : 0..MaxHeight]

NotReading == [step |-> "none"]
Reading    == [step |-> "reading"]
Failed     == [step |-> "failed"]

TypeOK ==
  /\ chain \in Seq(Blocks) /\ Len(chain) \in 1..MaxHeight
  /\ events \in Seq(Events)
  /\ loop \in {"running", "draining", "done"}
  /\ fetched \in BOOLEAN
  /\ localLeases \subseteq Leases
  /\ expected \in [hash : Hashes \cup {Malformed}, height : 0..MaxHeight]
  /\ latest \in Hashes \cup {Malformed}
  /\ runch \in {NotReading, Reading, Failed} \cup Answers
  /\ requests \subseteq Requests
  /\ reread \subseteq requests
  /\ manifest \in [Requests -> Hashes \cup {Malformed}]
  /\ reply \in [Requests -> Replies]
  /\ ctxDone \subseteq Requests
  /\ seen \in 0..MaxHeight
  /\ reads \in [Requests -> 0..2]

\* The service creates a manager for the first lease or the first manifest.
Init ==
  /\ \E b \in Blocks : chain = <<b>>
  /\ events = <<>>
  /\ loop = "running"
  /\ fetched = FALSE
  /\ localLeases = {}
  /\ expected = [hash |-> Malformed, height |-> 0]
  /\ latest = Malformed
  /\ runch = NotReading
  /\ requests = {}
  /\ reread = {}
  /\ manifest = [r \in Requests |-> Malformed]
  /\ reply = [r \in Requests |-> "none"]
  /\ ctxDone = {}
  /\ seen = 0
  /\ reads = [r \in Requests |-> 0]

-----------------------------------------------------------------------------
(***************************************************************************)
(* The chain and the tenant.                                               *)
(***************************************************************************)
Last == chain[Len(chain)]

NewBlock(b, e) ==
  /\ Len(chain) < MaxHeight
  /\ chain' = Append(chain, b)
  /\ events' \in {events, Append(events, e)}
  /\ UNCHANGED <<loop, fetched, localLeases, expected, latest, runch, requests, reread, manifest,
                 reply, ctxDone, seen, reads>>

Update(h) == h # Last.hash /\ NewBlock([Last EXCEPT !.hash = h], "updated")

CreateLease(l) == l \notin Last.leases /\ NewBlock([Last EXCEPT !.leases = @ \cup {l}], "leaseWon")

CloseLease(l) == l \in Last.leases /\ NewBlock([Last EXCEPT !.leases = @ \ {l}], "leaseClosed")

\* The context of a request is over before it is answered.
GiveUp(r) ==
  /\ r \in requests /\ r \notin ctxDone
  /\ ctxDone' = ctxDone \cup {r}
  /\ UNCHANGED <<chainVars, loop, fetched, localLeases, expected, latest, runch, requests, reread,
                 manifest, reply, seen, reads>>

-----------------------------------------------------------------------------
(***************************************************************************)
(* Answering requests.  rs are the requests the manager has, leases its    *)
(* localLeases and exp its expected version at that point of the handler.  *)
(***************************************************************************)
\* Mutant: the requests are dropped without an answer.
RefuseNobody(rs, why) == reply

Refuse(rs, why) == [r \in Requests |-> IF r \in rs THEN why ELSE reply[r]]

\* m.requests with the second read they have had; history counts a new read.
StartRead(rs, again) ==
  /\ runch' = Reading
  /\ requests' = rs
  /\ reread' = again
  /\ reads' = [r \in Requests |-> IF r \in rs THEN reads[r] + 1 ELSE reads[r]]

\* Mutant: a mismatch is refused at once.
MayRereadNever(r) == FALSE

\* A mismatch may come from a read that is too old: the chain is read once more.
MayReread(r) == r \notin reread

\* fillAllRequests(ErrNoLeaseForDeployment): the requests that wait for another
\* read are answered with the accepted ones, and there is nothing to read for.
NoLease(rs, accepted, again) ==
  /\ reply' = [r \in Requests |-> IF r \in accepted \cup again THEN "noLease" ELSE rs[r]]
  /\ requests' = {} /\ reread' = {}
  /\ runch' = NotReading
  /\ UNCHANGED reads

\* validateRequests, maybeEmitReceivedEvents and maybeRereadData.  taken are the
\* requests whose hostnames the hostname service refuses.
Process(rs, leases, exp, taken) ==
  LET alive    == rs \ ctxDone
      invalid  == {r \in alive : manifest'[r] = Malformed}
      mismatch == {r \in alive \ invalid : manifest'[r] # exp.hash}
      again    == {r \in mismatch : MayReread(r)}
      accepted == (alive \ (invalid \cup mismatch)) \ taken
      refused  == [r \in Requests |->
                     CASE r \in invalid -> "invalid"
                       [] r \in mismatch \ again -> "version"
                       [] r \in (alive \ (invalid \cup mismatch)) \cap taken -> "hostnames"
                       [] OTHER -> reply[r]]
      newest   == IF accepted = {} THEN latest ELSE exp.hash
      emits    == (again = {} \/ accepted # {}) /\ newest # Malformed
  IN /\ latest' = newest
     /\ IF emits /\ leases = {}
        THEN NoLease(refused, accepted, again)
        ELSE /\ reply' = [r \in Requests |-> IF r \in accepted THEN "ok" ELSE refused[r]]
             /\ IF again # {} THEN StartRead(again, again)
                              ELSE /\ runch' = NotReading
                                   /\ requests' = {} /\ reread' = {}
                                   /\ UNCHANGED reads
     /\ IF requests' # {} THEN fetched' = FALSE /\ localLeases' = {}
                          ELSE fetched' = TRUE /\ localLeases' = leases

-----------------------------------------------------------------------------
(***************************************************************************)
(* The loop.                                                               *)
(***************************************************************************)
Running == loop = "running"

clearFetched == fetched' = FALSE /\ localLeases' = {}

\* handleManifest, and what the loop does with the request.  The cached read is
\* used if there is one that is not older than CachedResultMaxAge.
ManifestReceived(r, m, old, taken) ==
  LET rs == requests \cup {r}
  IN /\ Running
     /\ reply[r] = "none" /\ r \notin requests \cup ctxDone
     /\ manifest' = [manifest EXCEPT ![r] = m]
     /\ \/ /\ runch # NotReading
           /\ requests' = rs
           /\ UNCHANGED <<fetched, localLeases, latest, runch, reread, reply, reads>>
        \/ /\ runch = NotReading
           /\ ~fetched \/ old
           /\ clearFetched
           /\ StartRead(rs, reread)
           /\ UNCHANGED <<latest, reply>>
        \/ /\ runch = NotReading
           /\ fetched /\ ~old
           /\ Process(rs, localLeases, expected, taken)
     /\ UNCHANGED <<chainVars, loop, expected, ctxDone, seen>>

\* The manager has stopped: handleManifest answers.
ManifestRefused(r) ==
  /\ ~Running
  /\ reply[r] = "none" /\ r \notin ctxDone
  /\ reply' = Refuse({r}, "notRunning")
  /\ UNCHANGED <<chainVars, loop, fetched, localLeases, expected, latest, runch, requests, reread,
                 manifest, ctxDone, seen, reads>>

\* handleLease, removeLease and handleUpdate: what was read is forgotten, and a
\* new lease starts a read unless one is running.
EventReceived ==
  /\ Running
  /\ events # <<>>
  /\ events' = Tail(events)
  /\ clearFetched
  /\ IF Head(events) = "leaseWon" /\ runch = NotReading
     THEN StartRead(requests, reread)
     ELSE UNCHANGED <<runch, requests, reread, reads>>
  /\ UNCHANGED <<chain, loop, expected, latest, manifest, reply, ctxDone, seen>>

\* doFetchData: the deployment comes from a node at height i, the leases from
\* one at height j; the header of the first answer may lack the height.
doFetchData(i, j, header) ==
  /\ runch = Reading
  /\ runch' = [step |-> "answered", hash |-> chain[i].hash, leases |-> chain[j].leases,
               height |-> IF header THEN i ELSE 0]
  /\ UNCHANGED <<chainVars, loop, fetched, localLeases, expected, latest, requests, reread,
                 manifest, reply, ctxDone, seen, reads>>

FetchFails ==
  /\ runch = Reading
  /\ runch' = Failed
  /\ UNCHANGED <<chainVars, loop, fetched, localLeases, expected, latest, requests, reread,
                 manifest, reply, ctxDone, seen, reads>>

\* Mutant: the last read wins.
applyFetchResultLast(a) == [hash |-> a.hash, height |-> a.height]

\* The expected version after a read: it never comes from a smaller height.
applyFetchResult(a) ==
  IF a.height < expected.height THEN expected ELSE [hash |-> a.hash, height |-> a.height]

ReadDone(taken) ==
  LET exp == applyFetchResult(runch)
  IN /\ Running
     /\ runch.step = "answered"
     /\ expected' = exp
     /\ seen' = IF runch.height > seen THEN runch.height ELSE seen
     /\ UNCHANGED <<chainVars, loop, manifest, ctxDone>>
     /\ Process(requests, runch.leases, exp, taken)

ReadFailed ==
  /\ Running
  /\ runch = Failed
  /\ runch' = NotReading
  /\ reply' = Refuse(requests, "error")
  /\ requests' = {} /\ reread' = {}
  /\ UNCHANGED <<chainVars, loop, fetched, localLeases, expected, latest, manifest, ctxDone, seen,
                 reads>>

\* The deployment is closed or the service shuts down.
Shutdown ==
  /\ Running
  /\ loop' = "draining"
  /\ reply' = Refuse(requests, "notRunning")
  /\ requests' = {} /\ reread' = {}
  /\ UNCHANGED <<chainVars, fetched, localLeases, expected, latest, runch, manifest, ctxDone, seen,
                 reads>>

Drained ==
  /\ loop = "draining"
  /\ runch # Reading
  /\ loop' = "done"
  /\ runch' = NotReading
  /\ UNCHANGED <<chainVars, fetched, localLeases, expected, latest, requests, reread, manifest,
                 reply, ctxDone, seen, reads>>

-----------------------------------------------------------------------------
Chain ==
  \/ \E h \in Hashes : Update(h)
  \/ \E l \in Leases : CreateLease(l) \/ CloseLease(l)

Tenant ==
  \E r \in Requests :
    \/ GiveUp(r) \/ ManifestRefused(r)
    \/ \E m \in Hashes \cup {Malformed}, old \in BOOLEAN, taken \in SUBSET (requests \cup {r}) :
         ManifestReceived(r, m, old, taken)

Read == FetchFails \/ \E i, j \in DOMAIN chain, header \in BOOLEAN : doFetchData(i, j, header)

Result == ReadFailed \/ \E taken \in SUBSET requests : ReadDone(taken)

Next == Chain \/ Tenant \/ Read \/ Result \/ EventReceived \/ Shutdown \/ Drained

Spec == Init /\ [][Next]_vars

\* A read ends within RPCQueryTimeout, and the loop reads its channels.
FairSpec == Spec /\ WF_vars(Read) /\ WF_vars(Result) /\ WF_vars(Drained)

-----------------------------------------------------------------------------
(***************************************************************************)
(* Properties.                                                             *)
(***************************************************************************)

\* A request never waits for a read that nobody started: while the manager holds
\* requests a chain read is on its way.
WaitingHasRead == Running /\ requests # {} => runch # NotReading

\* A manifest is refused for its version only after a chain read that started
\* when the request was already there: the update it is for may be newer than
\* what the manager had read.
RefusedAfterFreshRead == \A r \in Requests : reply[r] = "version" => reads[r] > 0

\* What is accepted is the version of the newest block the manager has read: a
\* node that lags behind cannot bring a replaced manifest back.
AcceptsNewestSeen ==
  [][\A r \in Requests : reply[r] # "ok" /\ reply'[r] = "ok" /\ seen' > 0 =>
       manifest'[r] = chain[seen'].hash]_vars

\* A manifest that reached the manager leaves it with an answer, unless its tenant
\* is gone.
NoneDropped == [][\A r \in requests \ requests' : reply'[r] # "none" \/ r \in ctxDone']_vars

\* Every manifest that reached the manager is answered, or its tenant is gone:
\* none stays with the manager, and none is dropped without an answer.
AllAnswered == NoneDropped /\ \A r \in Requests : []<>(r \notin requests)
================================================================================
