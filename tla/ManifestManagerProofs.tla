------------------------- MODULE ManifestManagerProofs -------------------------
(***************************************************************************)
(* Proofs about ManifestManager for any set of requests, hashes and leases *)
(* and for chains of any length.                                           *)
(***************************************************************************)
EXTENDS ManifestManager, TLAPS

\* What a handler leaves when it has processed the requests.
LEMMA ProcessEffect ==
  ASSUME NEW rs, NEW leases, NEW exp, NEW taken, Process(rs, leases, exp, taken)
  PROVE  /\ requests' = {} \/ runch' = Reading
         /\ runch' \in {Reading, NotReading}
         /\ \A r \in Requests : reply'[r] = "ok" => reply[r] = "ok" \/ manifest'[r] = exp.hash
<1> DEFINE alive    == rs \ ctxDone
           invalid  == {r \in alive : manifest'[r] = Malformed}
           mismatch == {r \in alive \ invalid : manifest'[r] # exp.hash}
           again    == {r \in mismatch : MayReread(r)}
           accepted == (alive \ (invalid \cup mismatch)) \ taken
           refused  == [r \in Requests |->
                          CASE r \in invalid -> "invalid"
                            [] r \in mismatch \ again -> "version"
                            [] r \in (alive \ (invalid \cup mismatch)) \cap taken -> "hostnames"
                            [] OTHER -> reply[r]]
           newest   == IF accepted = {} THEN latest ELSE exp.hash
           emits    == (again = {} \/ accepted # {}) /\ newest # Malformed
<1>1. /\ IF emits /\ leases = {}
         THEN NoLease(refused, accepted, again)
         ELSE /\ reply' = [r \in Requests |-> IF r \in accepted THEN "ok" ELSE refused[r]]
              /\ IF again # {} THEN StartRead(again, again)
                               ELSE /\ runch' = NotReading
                                    /\ requests' = {} /\ reread' = {}
                                    /\ UNCHANGED reads
  BY Zenon DEF Process
<1>2. \A r \in Requests : refused[r] = "ok" => reply[r] = "ok"
  OBVIOUS
<1>3. \A r \in accepted : manifest'[r] = exp.hash
  OBVIOUS
<1> HIDE DEF refused, accepted, again, emits
<1>4. CASE emits /\ leases = {}
  <2>1. NoLease(refused, accepted, again)
    BY <1>1, <1>4
  <2>2. QED
    BY <2>1, <1>2 DEF NoLease
<1>5. CASE ~(emits /\ leases = {})
  BY <1>1, <1>2, <1>3, <1>5 DEF StartRead
<1>6. QED
  BY <1>4, <1>5

-----------------------------------------------------------------------------
\* The manager's loop never holds a request without a chain read on its way, so
\* no submission is forgotten.
THEOREM NoRequestForgotten == Spec => []WaitingHasRead
<1>1. Init => WaitingHasRead
  BY DEF Init, WaitingHasRead
<1>2. WaitingHasRead /\ [Next]_vars => WaitingHasRead'
  <2> SUFFICES ASSUME WaitingHasRead, [Next]_vars PROVE WaitingHasRead'
    OBVIOUS
  <2> USE DEF Running
  <2>0. Reading # NotReading /\ Failed # NotReading
    BY DEF Reading, NotReading, Failed
  <2>1. CASE Chain
    BY <2>1, Zenon DEF Chain, Update, CreateLease, CloseLease, NewBlock, WaitingHasRead
  <2>2. CASE Tenant
    <3>1. CASE \E r \in Requests : GiveUp(r) \/ ManifestRefused(r)
      BY <3>1 DEF GiveUp, ManifestRefused, WaitingHasRead
    <3>2. ASSUME NEW r \in Requests, NEW m, NEW old, NEW taken, ManifestReceived(r, m, old, taken)
          PROVE  WaitingHasRead'
      <4>1. CASE runch # NotReading /\ UNCHANGED runch
        BY <4>1 DEF WaitingHasRead
      <4>2. CASE runch' = Reading
        BY <4>2, <2>0 DEF WaitingHasRead
      <4>3. CASE Process(requests \cup {r}, localLeases, expected, taken)
        BY <4>3, <2>0, ProcessEffect DEF WaitingHasRead
      <4>4. QED
        BY <3>2, <4>1, <4>2, <4>3 DEF ManifestReceived, StartRead
    <3>3. QED
      BY <2>2, <3>1, <3>2 DEF Tenant
  <2>3. CASE Read
    <3>1. runch' # NotReading
      BY <2>3, <2>0 DEF Read, FetchFails, doFetchData, NotReading
    <3>2. QED
      BY <3>1 DEF WaitingHasRead
  <2>4. CASE Result
    <3>1. CASE ReadFailed
      BY <3>1 DEF ReadFailed, WaitingHasRead
    <3>2. ASSUME NEW taken, ReadDone(taken) PROVE WaitingHasRead'
      BY <3>2, <2>0, ProcessEffect DEF ReadDone, WaitingHasRead
    <3>3. QED
      BY <2>4, <3>1, <3>2 DEF Result
  <2>5. CASE EventReceived
    BY <2>5, <2>0 DEF EventReceived, StartRead, WaitingHasRead
  <2>6. CASE Shutdown \/ Drained
    BY <2>6 DEF Shutdown, Drained, WaitingHasRead
  <2>7. CASE UNCHANGED vars
    BY <2>7 DEF vars, WaitingHasRead
  <2>8. QED
    BY <2>1, <2>2, <2>3, <2>4, <2>5, <2>6, <2>7 DEF Next
<1>3. QED
  BY <1>1, <1>2, PTL DEF Spec

-----------------------------------------------------------------------------
(***************************************************************************)
(* The expected version is the hash of the newest block any read reported, *)
(* and so is the answer of a read that has not been applied yet.           *)
(***************************************************************************)
OfBlock(h, height) == height > 0 => height \in DOMAIN chain /\ h = chain[height].hash

ReadInv ==
  /\ chain \in Seq(Blocks) /\ Len(chain) > 0
  /\ expected.height \in Nat
  /\ seen = expected.height
  /\ OfBlock(expected.hash, expected.height)
  /\ runch.step = "answered" => runch.height \in Nat /\ OfBlock(runch.hash, runch.height)

LEMMA ReadInit == Init => ReadInv
<1> SUFFICES ASSUME Init PROVE ReadInv
  OBVIOUS
<1>1. PICK b \in Blocks : chain = <<b>>
  BY DEF Init
<1>2. QED
  BY <1>1 DEF Init, ReadInv, OfBlock, NotReading

LEMMA NewBlockKeeps ==
  ASSUME ReadInv, NEW b \in Blocks, NEW e, NewBlock(b, e)
  PROVE  ReadInv'
<1>1. chain' \in Seq(Blocks) /\ Len(chain') = Len(chain) + 1
      /\ \A i \in DOMAIN chain : i \in DOMAIN chain' /\ chain'[i] = chain[i]
  BY DEF ReadInv, NewBlock
<1>2. UNCHANGED <<expected, seen, runch>>
  BY DEF NewBlock
<1>3. QED
  BY <1>1, <1>2 DEF ReadInv, OfBlock

LEMMA ReadStep == ReadInv /\ [Next]_vars => ReadInv'
<1> SUFFICES ASSUME ReadInv, [Next]_vars PROVE ReadInv'
  OBVIOUS
<1>a. ASSUME UNCHANGED <<chain, expected, seen>>,
             UNCHANGED runch \/ runch' \in {Reading, NotReading, Failed}
      PROVE  ReadInv'
  BY <1>a DEF ReadInv, OfBlock, Reading, NotReading, Failed
<1>1. CASE Chain
  <2>1. Last \in Blocks
    BY DEF ReadInv, Last
  <2>2. ASSUME NEW h \in Hashes, Update(h) PROVE ReadInv'
    <3>1. [Last EXCEPT !.hash = h] \in Blocks
      BY <2>1 DEF Blocks
    <3>2. QED
      BY <2>2, <3>1, NewBlockKeeps DEF Update
  <2>3. ASSUME NEW l \in Leases, CreateLease(l) PROVE ReadInv'
    <3>1. [Last EXCEPT !.leases = @ \cup {l}] \in Blocks
      BY <2>1 DEF Blocks
    <3>2. QED
      BY <2>3, <3>1, NewBlockKeeps DEF CreateLease
  <2>4. ASSUME NEW l \in Leases, CloseLease(l) PROVE ReadInv'
    <3>1. [Last EXCEPT !.leases = @ \ {l}] \in Blocks
      BY <2>1 DEF Blocks
    <3>2. QED
      BY <2>4, <3>1, NewBlockKeeps DEF CloseLease
  <2>5. QED
    BY <1>1, <2>2, <2>3, <2>4 DEF Chain
<1>2. CASE Tenant
  <2>1. CASE \E r \in Requests : GiveUp(r) \/ ManifestRefused(r)
    BY <2>1, <1>a DEF GiveUp, ManifestRefused, chainVars
  <2>2. ASSUME NEW r, NEW m, NEW old, NEW taken, ManifestReceived(r, m, old, taken)
        PROVE  ReadInv'
    <3>1. UNCHANGED <<chain, expected, seen>>
      BY <2>2 DEF ManifestReceived, chainVars
    <3>2. UNCHANGED runch \/ runch' \in {Reading, NotReading}
      BY <2>2, ProcessEffect DEF ManifestReceived, StartRead
    <3>3. QED
      BY <3>1, <3>2, <1>a
  <2>3. QED
    BY <1>2, <2>1, <2>2 DEF Tenant
<1>3. CASE FetchFails
  BY <1>3, <1>a DEF FetchFails, chainVars
<1>4. ASSUME NEW i \in DOMAIN chain, NEW j \in DOMAIN chain, NEW header \in BOOLEAN,
             doFetchData(i, j, header)
      PROVE  ReadInv'
  BY <1>4 DEF doFetchData, chainVars, ReadInv, OfBlock
<1>5. CASE ReadFailed
  BY <1>5, <1>a DEF ReadFailed, chainVars
<1>6. ASSUME NEW taken, ReadDone(taken) PROVE ReadInv'
  <2>1. /\ UNCHANGED chain
        /\ runch.step = "answered"
        /\ expected' = applyFetchResult(runch)
        /\ seen' = IF runch.height > seen THEN runch.height ELSE seen
    BY <1>6 DEF ReadDone, chainVars
  <2>2. runch' \in {Reading, NotReading}
    BY <1>6, ProcessEffect DEF ReadDone
  <2>3. QED
    BY <2>1, <2>2 DEF ReadInv, OfBlock, applyFetchResult, Reading, NotReading
<1>7. CASE EventReceived
  BY <1>7, <1>a DEF EventReceived, StartRead
<1>8. CASE Shutdown \/ Drained
  BY <1>8, <1>a DEF Shutdown, Drained, chainVars
<1>9. CASE UNCHANGED vars
  BY <1>9, <1>a DEF vars, chainVars
<1>10. QED
  BY <1>1, <1>2, <1>3, <1>4, <1>5, <1>6, <1>7, <1>8, <1>9 DEF Next, Read, Result

\* A manifest is accepted only if it is the one of the newest block the manager
\* has read, whatever nodes answered its reads.
THEOREM NewestIsAccepted == Spec => AcceptsNewestSeen
<1> DEFINE Accepts == \A r \in Requests : reply[r] # "ok" /\ reply'[r] = "ok" /\ seen' > 0 =>
                        manifest'[r] = chain[seen'].hash
<1>1. ReadInv /\ ReadInv' /\ [Next]_vars => [Accepts]_vars
  <2> SUFFICES ASSUME ReadInv, ReadInv', [Next]_vars,
                      NEW r \in Requests, reply[r] # "ok", reply'[r] = "ok", seen' > 0
               PROVE  manifest'[r] = chain[seen'].hash
    OBVIOUS
  <2>1. ASSUME NEW rs, NEW leases, NEW taken, UNCHANGED chain,
               Process(rs, leases, expected', taken)
        PROVE  manifest'[r] = chain[seen'].hash
    <3>1. manifest'[r] = expected'.hash
      BY <2>1, ProcessEffect
    <3>2. QED
      BY <3>1, <2>1 DEF ReadInv, OfBlock
  <2>2. CASE Tenant
    <3>1. CASE \E q \in Requests : GiveUp(q) \/ ManifestRefused(q)
      BY <3>1 DEF GiveUp, ManifestRefused, Refuse
    <3>2. ASSUME NEW q \in Requests, NEW m, NEW old, NEW taken, ManifestReceived(q, m, old, taken)
          PROVE  Process(requests \cup {q}, localLeases, expected', taken) /\ UNCHANGED chain
      BY <3>2 DEF ManifestReceived, StartRead, chainVars
    <3>3. QED
      BY <2>2, <2>1, <3>1, <3>2, Zenon DEF Tenant
  <2>3. CASE Result
    <3>1. CASE ReadFailed
      BY <3>1 DEF ReadFailed, Refuse
    <3>2. ASSUME NEW taken, ReadDone(taken)
          PROVE  Process(requests, runch.leases, expected', taken) /\ UNCHANGED chain
      BY <3>2 DEF ReadDone, chainVars
    <3>3. QED
      BY <2>3, <2>1, <3>1, <3>2 DEF Result
  <2>4. CASE Chain \/ Read \/ EventReceived \/ Shutdown \/ Drained \/ UNCHANGED vars
    BY <2>4, Zenon DEF Chain, Update, CreateLease, CloseLease, NewBlock, Read, FetchFails, doFetchData,
       EventReceived, Shutdown, Refuse, Drained, vars
  <2>5. QED
    BY <2>2, <2>3, <2>4 DEF Next
<1>2. QED
  BY <1>1, ReadInit, ReadStep, PTL DEF Spec, AcceptsNewestSeen

-----------------------------------------------------------------------------
(***************************************************************************)
(* A refusal for the version comes after a fresh read.                     *)
(***************************************************************************)

\* A refusal for the version is of a request that has had its second read, and the
\* requests that are kept are those the read that follows is for.
LEMMA ProcessReads ==
  ASSUME NEW rs, NEW leases, NEW exp, NEW taken, Process(rs, leases, exp, taken)
  PROVE  /\ \A r \in Requests : reply'[r] = "version" => reply[r] = "version" \/ r \in reread
         /\ (UNCHANGED reads /\ reread' = {}) \/ StartRead(reread', reread')
<1> DEFINE alive    == rs \ ctxDone
           invalid  == {r \in alive : manifest'[r] = Malformed}
           mismatch == {r \in alive \ invalid : manifest'[r] # exp.hash}
           again    == {r \in mismatch : MayReread(r)}
           accepted == (alive \ (invalid \cup mismatch)) \ taken
           refused  == [r \in Requests |->
                          CASE r \in invalid -> "invalid"
                            [] r \in mismatch \ again -> "version"
                            [] r \in (alive \ (invalid \cup mismatch)) \cap taken -> "hostnames"
                            [] OTHER -> reply[r]]
           newest   == IF accepted = {} THEN latest ELSE exp.hash
           emits    == (again = {} \/ accepted # {}) /\ newest # Malformed
<1>1. /\ IF emits /\ leases = {}
         THEN NoLease(refused, accepted, again)
         ELSE /\ reply' = [r \in Requests |-> IF r \in accepted THEN "ok" ELSE refused[r]]
              /\ IF again # {} THEN StartRead(again, again)
                               ELSE /\ runch' = NotReading
                                    /\ requests' = {} /\ reread' = {}
                                    /\ UNCHANGED reads
  BY Zenon DEF Process
<1>2. \A r \in Requests : refused[r] = "version" => reply[r] = "version" \/ r \in reread
  BY DEF MayReread
<1> HIDE DEF refused, accepted, again, emits
<1>3. CASE emits /\ leases = {}
  <2>1. NoLease(refused, accepted, again)
    BY <1>1, <1>3
  <2>2. QED
    BY <2>1, <1>2 DEF NoLease
<1>4. CASE ~(emits /\ leases = {})
  <2>1. /\ reply' = [r \in Requests |-> IF r \in accepted THEN "ok" ELSE refused[r]]
        /\ (UNCHANGED reads /\ reread' = {}) \/ StartRead(again, again)
    BY <1>1, <1>4
  <2>2. \A r \in Requests : reply'[r] = "version" => refused[r] = "version"
    BY <2>1
  <2>3. (UNCHANGED reads /\ reread' = {}) \/ StartRead(reread', reread')
    BY <2>1, Zenon DEF StartRead
  <2>4. QED
    BY <2>2, <2>3, <1>2
<1>5. QED
  BY <1>3, <1>4

FreshInv ==
  /\ reads \in [Requests -> Nat]
  /\ \A r \in Requests : r \in reread => reads[r] > 0
  /\ RefusedAfterFreshRead

\* A read that is started counts for the requests it is for.
LEMMA StartReadKeeps ==
  ASSUME FreshInv, NEW rs, NEW again, StartRead(rs, again), again \subseteq rs \/ again \subseteq reread
  PROVE  /\ reads' \in [Requests -> Nat]
         /\ \A r \in Requests : reads'[r] >= reads[r]
         /\ \A r \in Requests : r \in reread' => reads'[r] > 0
BY DEF FreshInv, StartRead

LEMMA ProcessKeeps ==
  ASSUME FreshInv, NEW rs, NEW leases, NEW exp, NEW taken, Process(rs, leases, exp, taken)
  PROVE  FreshInv'
<1>1. \A r \in Requests : reply'[r] = "version" => reads[r] > 0
  BY ProcessReads DEF FreshInv, RefusedAfterFreshRead
<1>2. CASE UNCHANGED reads /\ reread' = {}
  BY <1>1, <1>2 DEF FreshInv, RefusedAfterFreshRead
<1>3. CASE StartRead(reread', reread')
  <2>1. /\ reads' \in [Requests -> Nat]
        /\ \A r \in Requests : reads'[r] >= reads[r]
        /\ \A r \in Requests : r \in reread' => reads'[r] > 0
    BY <1>3, StartReadKeeps
  <2>2. \A r \in Requests : reads[r] \in Nat /\ reads'[r] \in Nat
    BY <2>1 DEF FreshInv
  <2>3. QED
    BY <1>1, <2>1, <2>2 DEF FreshInv, RefusedAfterFreshRead
<1>4. QED
  BY <1>2, <1>3, ProcessReads

LEMMA FreshStep == FreshInv /\ [Next]_vars => FreshInv'
<1> SUFFICES ASSUME FreshInv, [Next]_vars PROVE FreshInv'
  OBVIOUS
<1>a. ASSUME UNCHANGED reads, reread' \subseteq reread,
             \A r \in Requests : reply'[r] = "version" => reply[r] = "version"
      PROVE  FreshInv'
  BY <1>a DEF FreshInv, RefusedAfterFreshRead
<1>b. ASSUME NEW rs, StartRead(rs, reread), UNCHANGED reply PROVE FreshInv'
  <2>1. /\ reads' \in [Requests -> Nat]
        /\ \A r \in Requests : reads'[r] >= reads[r]
        /\ \A r \in Requests : r \in reread' => reads'[r] > 0
    BY <1>b, StartReadKeeps
  <2>2. \A r \in Requests : reads[r] \in Nat /\ reads'[r] \in Nat
    BY <2>1 DEF FreshInv
  <2>3. \A r \in Requests : reply'[r] = "version" => reads[r] > 0
    BY <1>b DEF FreshInv, RefusedAfterFreshRead
  <2>4. QED
    BY <2>1, <2>2, <2>3 DEF FreshInv, RefusedAfterFreshRead
<1>1. CASE Chain \/ Read \/ Drained \/ UNCHANGED vars
  <2>1. UNCHANGED <<reads, reread, reply>>
    BY <1>1, Zenon DEF Chain, Update, CreateLease, CloseLease, NewBlock, Read, FetchFails,
       doFetchData, Drained, vars
  <2>2. QED
    BY <2>1, <1>a
<1>2. CASE Tenant
  <2>1. CASE \E r \in Requests : GiveUp(r) \/ ManifestRefused(r)
    <3>1. UNCHANGED <<reads, reread>>
      BY <2>1, Zenon DEF GiveUp, ManifestRefused
    <3>2. \A r \in Requests : reply'[r] = "version" => reply[r] = "version"
      BY <2>1 DEF GiveUp, ManifestRefused, Refuse
    <3>3. QED
      BY <3>1, <3>2, <1>a
  <2>2. ASSUME NEW r \in Requests, NEW m, NEW old, NEW taken, ManifestReceived(r, m, old, taken)
        PROVE  FreshInv'
    <3>1. CASE UNCHANGED <<reads, reread, reply>>
      BY <3>1, <1>a
    <3>2. CASE StartRead(requests \cup {r}, reread) /\ UNCHANGED reply
      BY <3>2, <1>b
    <3>3. CASE Process(requests \cup {r}, localLeases, expected, taken)
      BY <3>3, ProcessKeeps
    <3>4. QED
      BY <2>2, <3>1, <3>2, <3>3, Zenon DEF ManifestReceived
  <2>3. QED
    BY <1>2, <2>1, <2>2, Zenon DEF Tenant
<1>3. CASE Result
  <2>1. CASE ReadFailed
    BY <2>1, <1>a DEF ReadFailed, Refuse
  <2>2. ASSUME NEW taken, ReadDone(taken) PROVE FreshInv'
    BY <2>2, ProcessKeeps, Zenon DEF ReadDone
  <2>3. QED
    BY <1>3, <2>1, <2>2, Zenon DEF Result
<1>4. CASE EventReceived
  <2>1. UNCHANGED reply /\ (StartRead(requests, reread) \/ UNCHANGED <<reread, reads>>)
    BY <1>4, Zenon DEF EventReceived
  <2>2. QED
    BY <2>1, <1>a, <1>b
<1>5. CASE Shutdown
  BY <1>5, <1>a DEF Shutdown, Refuse
<1>6. QED
  BY <1>1, <1>2, <1>3, <1>4, <1>5, Zenon DEF Next

\* A manifest is refused for its version only after a chain read that started when
\* the manager already had the request (manager.go, validateRequests and
\* maybeRereadData), whatever the nodes answer.
THEOREM RefusedOnlyAfterFreshRead == Spec => []RefusedAfterFreshRead
<1>1. Init => FreshInv
  BY DEF Init, FreshInv, RefusedAfterFreshRead
<1>2. FreshInv => RefusedAfterFreshRead
  BY DEF FreshInv
<1>3. QED
  BY <1>1, <1>2, FreshStep, PTL DEF Spec

-----------------------------------------------------------------------------
(***************************************************************************)
(* No request is dropped.                                                  *)
(***************************************************************************)

\* Every request that is processed is answered, kept for another read or given up.
LEMMA ProcessAnswers ==
  ASSUME NEW rs, rs \subseteq Requests, NEW leases, NEW exp, NEW taken,
         Process(rs, leases, exp, taken)
  PROVE  /\ requests' \subseteq rs
         /\ \A r \in rs \ requests' : reply'[r] # "none" \/ r \in ctxDone
<1> DEFINE alive    == rs \ ctxDone
           invalid  == {r \in alive : manifest'[r] = Malformed}
           mismatch == {r \in alive \ invalid : manifest'[r] # exp.hash}
           again    == {r \in mismatch : MayReread(r)}
           accepted == (alive \ (invalid \cup mismatch)) \ taken
           refused  == [r \in Requests |->
                          CASE r \in invalid -> "invalid"
                            [] r \in mismatch \ again -> "version"
                            [] r \in (alive \ (invalid \cup mismatch)) \cap taken -> "hostnames"
                            [] OTHER -> reply[r]]
           newest   == IF accepted = {} THEN latest ELSE exp.hash
           emits    == (again = {} \/ accepted # {}) /\ newest # Malformed
<1>1. /\ IF emits /\ leases = {}
         THEN NoLease(refused, accepted, again)
         ELSE /\ reply' = [r \in Requests |-> IF r \in accepted THEN "ok" ELSE refused[r]]
              /\ IF again # {} THEN StartRead(again, again)
                               ELSE /\ runch' = NotReading
                                    /\ requests' = {} /\ reread' = {}
                                    /\ UNCHANGED reads
  BY Zenon DEF Process
<1>2. \A r \in rs : \/ r \in ctxDone \/ r \in again \/ r \in accepted
                     \/ refused[r] \in {"invalid", "version", "hostnames"}
  OBVIOUS
<1>3. again \subseteq rs /\ accepted \subseteq rs
  OBVIOUS
<1> HIDE DEF refused, accepted, again, emits
<1>4. CASE emits /\ leases = {}
  <2>1. NoLease(refused, accepted, again)
    BY <1>1, <1>4
  <2>2. QED
    BY <2>1, <1>2, <1>3 DEF NoLease
<1>5. CASE ~(emits /\ leases = {})
  <2>1. /\ reply' = [r \in Requests |-> IF r \in accepted THEN "ok" ELSE refused[r]]
        /\ requests' = again
    BY <1>1, <1>5 DEF StartRead
  <2>2. QED
    BY <2>1, <1>2, <1>3
<1>6. QED
  BY <1>4, <1>5

\* A request that is no longer with the manager has its answer, unless its context
\* is over (manager.go, validateRequests, fillAllRequests and the loop's end).
THEOREM NoRequestDropped == Spec => NoneDropped
<1> DEFINE Answered == \A r \in requests \ requests' : reply'[r] # "none" \/ r \in ctxDone'
           Known == requests \subseteq Requests
<1>1. Init => Known
  BY DEF Init
<1>2. Known /\ [Next]_vars => Known' /\ [Answered]_vars
  <2> SUFFICES ASSUME Known, [Next]_vars PROVE Known' /\ Answered
    OBVIOUS
  <2>1. CASE Chain \/ Read \/ Drained \/ UNCHANGED vars
    <3>1. UNCHANGED requests
      BY <2>1, Zenon DEF Chain, Update, CreateLease, CloseLease, NewBlock, Read, FetchFails,
         doFetchData, Drained, vars
    <3>2. QED
      BY <3>1
  <2>2. CASE Tenant
    <3>1. CASE \E r \in Requests : GiveUp(r) \/ ManifestRefused(r)
      <4>1. UNCHANGED requests
        BY <3>1, Zenon DEF GiveUp, ManifestRefused
      <4>2. QED
        BY <4>1
    <3>2. ASSUME NEW r \in Requests, NEW m, NEW old, NEW taken, ManifestReceived(r, m, old, taken)
          PROVE  Known' /\ Answered
      <4>1. CASE requests' = requests \cup {r}
        BY <4>1
      <4>2. CASE Process(requests \cup {r}, localLeases, expected, taken) /\ UNCHANGED ctxDone
        <5>1. requests \cup {r} \subseteq Requests
          OBVIOUS
        <5>2. /\ requests' \subseteq requests \cup {r}
              /\ \A q \in (requests \cup {r}) \ requests' : reply'[q] # "none" \/ q \in ctxDone
          BY <4>2, <5>1, ProcessAnswers
        <5>3. QED
          BY <4>2, <5>1, <5>2
      <4>3. QED
        BY <3>2, <4>1, <4>2, Zenon DEF ManifestReceived, StartRead
    <3>3. QED
      BY <2>2, <3>1, <3>2, Zenon DEF Tenant
  <2>3. CASE Result
    <3>1. CASE ReadFailed
      BY <3>1 DEF ReadFailed, Refuse
    <3>2. ASSUME NEW taken, ReadDone(taken) PROVE Known' /\ Answered
      <4>1. \E exp : Process(requests, runch.leases, exp, taken)
        BY <3>2, Zenon DEF ReadDone
      <4>2. UNCHANGED ctxDone
        BY <3>2, Zenon DEF ReadDone
      <4>3. QED
        BY <4>1, <4>2, ProcessAnswers
    <3>3. QED
      BY <2>3, <3>1, <3>2, Zenon DEF Result
  <2>4. CASE EventReceived
    <3>1. UNCHANGED requests
      BY <2>4, Zenon DEF EventReceived, StartRead
    <3>2. QED
      BY <3>1
  <2>5. CASE Shutdown
    BY <2>5 DEF Shutdown, Refuse
  <2>6. QED
    BY <2>1, <2>2, <2>3, <2>4, <2>5, Zenon DEF Next
<1>3. QED
  BY <1>1, <1>2, PTL DEF Spec, NoneDropped
================================================================================
