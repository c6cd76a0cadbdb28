------------------------------ MODULE CertIssuer ------------------------------
(* The certificate of the gateway: the issuer that obtains it from an ACME
   server, keeps it in files and renews it (tools/certissuer/lego.go and
   storage.go), and the part of the account querier that loads the files for
   the servers (cmd/provider-services/cmd/certs.go).  A certificate is the
   number of the order that produced it, 0 standing for none; key, certificate
   and metadata are files of their own, written one after the other. *)
EXTENDS Integers, Sequences, FiniteSets, SequencesExt

CONSTANTS
  Domains,
  Day, Hour,       \* 24 hours and one hour, in ticks of the clock
  Validity,        \* how long a certificate is valid
  Far,             \* the 365 days the search for the earliest expiry starts at
  Retries,         \* attempts at the first certificate of a domain
  MaxClock, MaxIssFaults

VARIABLES
  clock,
  iss,             \* "read", "obtain", "saveKey", "saveCert", "saveMeta", "renew",
                   \* "check" or "idle"
  renewing,        \* the loop is past the first certificates
  queue,           \* domains left of the pass over them
  tries,
  earliest, timer,
  files,           \* per domain the orders that key, cert and metadata are of
  notAfter,        \* per order when its certificate expires
  res,             \* per domain the certificate held and the one it is judged by
  pubs, fileEvents, watched, served,
  issFaults

filesVars == <<files, notAfter>>
querierVars == <<pubs, fileEvents, watched, served>>
issVars == <<clock, iss, renewing, queue, tries, earliest, timer, filesVars, res,
             querierVars, issFaults>>

NoRes == [cert |-> 0, judged |-> 0]
order == Len(notAfter)

Init ==
  /\ clock = 0 /\ iss = "read" /\ renewing = FALSE /\ queue = SetToSeq(Domains) /\ tries = 0
  /\ earliest = Far /\ timer = 0
  /\ files = [d \in Domains |-> [key |-> 0, cert |-> 0, meta |-> 0]] /\ notAfter = <<>>
  /\ res = [d \in Domains |-> NoRes]
  /\ pubs = <<>> /\ fileEvents = <<>> /\ watched = {} /\ served = [d \in Domains |-> 0]
  /\ issFaults = 0

Fault == issFaults < MaxIssFaults /\ issFaults' = issFaults + 1

-----------------------------------------------------------------------------
\* A domain that is done with: the pass goes on to the next one.
passOver ==
  /\ queue' = Tail(queue) /\ tries' = 0
  /\ iss' = IF Tail(queue) = <<>> THEN "check" ELSE IF renewing THEN "renew" ELSE "read"

\* The earliest expiry takes in the certificate a domain is judged by.
noted(d, judged) == earliest' = IF notAfter[judged] < earliest THEN notAfter[judged] ELSE earliest

ReadResource ==
  LET d == Head(queue) IN
  /\ iss = "read"
  /\ IF files[d].meta = 0 \/ files[d].cert = 0
     THEN iss' = "obtain" /\ UNCHANGED <<queue, tries, res, pubs>>
     ELSE /\ res' = [res EXCEPT ![d] = [cert |-> files[d].cert, judged |-> files[d].cert]]
          /\ pubs' = Append(pubs, d) /\ passOver
  /\ UNCHANGED <<clock, renewing, earliest, timer, filesVars, fileEvents, watched, served,
                 issFaults>>

\* The domain is given up: for good at first, and when renewing without a
\* word to the search for the earliest expiry.
obtainFails ==
  /\ IF ~renewing /\ tries + 1 < Retries
     THEN iss' = "obtain" /\ tries' = tries + 1 /\ UNCHANGED queue
     ELSE passOver
  /\ UNCHANGED <<clock, renewing, earliest, timer, notAfter, res, querierVars>>

obtainCert ==
  /\ iss = "obtain"
  /\ \/ /\ notAfter' = Append(notAfter, clock + Validity)
        /\ iss' = "saveKey"
        /\ UNCHANGED <<clock, renewing, queue, tries, earliest, timer, files, res,
                       querierVars, issFaults>>
     \/ Fault /\ obtainFails /\ UNCHANGED files

\* SaveResource writes the key, the certificate and the metadata; a write
\* that fails takes the files written before it away again.
saveKey ==
  /\ iss = "saveKey"
  /\ \/ /\ files' = [files EXCEPT ![Head(queue)].key = order]
        /\ iss' = "saveCert"
        /\ UNCHANGED <<clock, renewing, queue, tries, earliest, timer, notAfter, res,
                       querierVars, issFaults>>
     \/ Fault /\ obtainFails /\ UNCHANGED files

saveCert ==
  LET d == Head(queue) IN
  /\ iss = "saveCert"
  /\ \/ /\ files' = [files EXCEPT ![d].cert = order]
        /\ fileEvents' = IF d \in watched THEN Append(fileEvents, d) ELSE fileEvents
        /\ iss' = "saveMeta"
        /\ UNCHANGED <<clock, renewing, queue, tries, earliest, timer, notAfter, res,
                       pubs, watched, served, issFaults>>
     \/ Fault /\ obtainFails /\ files' = [files EXCEPT ![d].key = 0]

\* A renewed certificate is held, and judged by the one before it: the
\* certificate that is decoded is that of the resource being replaced.
saveMeta ==
  LET d == Head(queue) IN
  /\ iss = "saveMeta"
  /\ \/ /\ files' = [files EXCEPT ![d].meta = order]
        /\ LET judged == IF renewing THEN res[d].cert ELSE order IN
           /\ res' = [res EXCEPT ![d] = [cert |-> order, judged |-> judged]]
           /\ IF renewing THEN noted(d, judged) ELSE UNCHANGED earliest
        /\ pubs' = Append(pubs, d) /\ passOver
        /\ UNCHANGED <<clock, renewing, timer, notAfter, fileEvents, watched, served,
                       issFaults>>
     \/ Fault /\ obtainFails /\ files' = [files EXCEPT ![d].key = 0, ![d].cert = 0]

\* Mutant: a certificate is renewed once it has expired.
dueLate(d) == clock > notAfter[res[d].judged]

due(d) == clock + Day > notAfter[res[d].judged]

renewTrigger ==
  /\ iss = "idle" /\ clock >= timer
  /\ LET held == SetToSeq({d \in Domains : res[d] # NoRes}) IN
       queue' = held /\ iss' = IF held = <<>> THEN "check" ELSE "renew"
  /\ earliest' = clock + Far /\ tries' = 0
  /\ UNCHANGED <<clock, renewing, timer, filesVars, res, querierVars, issFaults>>

renewOne ==
  LET d == Head(queue) IN
  /\ iss = "renew"
  /\ IF due(d) THEN iss' = "obtain" /\ UNCHANGED <<queue, tries, earliest>>
     ELSE passOver /\ noted(d, res[d].judged)
  /\ UNCHANGED <<clock, renewing, timer, filesVars, res, querierVars, issFaults>>

\* After a pass the timer is set one day before the earliest expiry.  The
\* first check follows the first certificates at once.
setTimer ==
  /\ iss = "check" /\ iss' = "idle" /\ renewing' = TRUE
  /\ LET left == earliest - clock IN
       timer' = IF ~renewing THEN clock
                ELSE IF left >= Day THEN clock + left - Day
                ELSE IF left <= 0 THEN clock + Hour ELSE clock + left
  /\ UNCHANGED <<clock, queue, tries, earliest, filesVars, res, querierVars, issFaults>>

tick ==
  /\ iss = "idle" /\ timer >= clock /\ clock < MaxClock
  /\ clock' = clock + 1
  /\ UNCHANGED <<iss, renewing, queue, tries, earliest, timer, filesVars, res,
                 querierVars, issFaults>>

\* The provider restarts: only the files are left.
restart ==
  /\ Fault
  /\ iss' = "read" /\ renewing' = FALSE /\ queue' = SetToSeq(Domains) /\ tries' = 0
  /\ earliest' = Far /\ timer' = 0
  /\ res' = [d \in Domains |-> NoRes]
  /\ pubs' = <<>> /\ fileEvents' = <<>> /\ watched' = {}
  /\ served' = [d \in Domains |-> 0]
  /\ UNCHANGED <<clock, filesVars>>

-----------------------------------------------------------------------------
\* A pair that does not match, or is not there, leaves what is served.
LoadX509KeyPair(d) ==
  IF files[d].cert = 0 \/ files[d].key # files[d].cert THEN served
  ELSE [served EXCEPT ![d] = files[d].cert]

\* The querier learns of a saved certificate and watches its directory, unless
\* the pair could not be loaded.
takePublished ==
  LET d == Head(pubs) IN
  /\ pubs # <<>> /\ pubs' = Tail(pubs)
  /\ served' = LoadX509KeyPair(d)
  /\ watched' = IF files[d].cert # 0 /\ files[d].key # files[d].cert THEN watched
                ELSE watched \cup {d}
  /\ UNCHANGED <<clock, iss, renewing, queue, tries, earliest, timer, filesVars, res,
                 fileEvents, issFaults>>

takeFileEvent ==
  /\ fileEvents # <<>> /\ fileEvents' = Tail(fileEvents)
  /\ served' = LoadX509KeyPair(Head(fileEvents))
  /\ UNCHANGED <<clock, iss, renewing, queue, tries, earliest, timer, filesVars, res,
                 pubs, watched, issFaults>>

-----------------------------------------------------------------------------
Issuer ==
  \/ ReadResource \/ obtainCert \/ saveKey \/ saveCert \/ saveMeta
  \/ renewTrigger \/ renewOne \/ setTimer

Next == Issuer \/ tick \/ restart \/ takePublished \/ takeFileEvent

Spec == Init /\ [][Next]_issVars

\* The issuer and the account querier go on.
Fairness == WF_issVars(Issuer) /\ WF_issVars(takePublished) /\ WF_issVars(takeFileEvent)
FairSpec == Spec /\ Fairness

TypeOK ==
  /\ clock \in 0..MaxClock
  /\ iss \in {"read", "obtain", "saveKey", "saveCert", "saveMeta", "renew", "check", "idle"}
  /\ queue \in Seq(Domains) /\ tries \in 0..Retries
  /\ \A d \in Domains : {files[d].key, files[d].cert, files[d].meta, served[d], res[d].cert,
                         res[d].judged} \subseteq 0..order
  /\ watched \subseteq Domains /\ timer \in Int

\* Without failures the servers never hold an expired certificate: the check
\* that finds one due comes a day ahead, and what was renewed is loaded.
ServedIsValid ==
  issFaults = 0 /\ pubs = <<>> /\ iss = "idle" =>
    \A d \in Domains : served[d] # 0 => clock <= notAfter[served[d]]

\* A pair that stands complete in the files is what the servers end up with.
ServedIsStored ==
  \A d \in Domains : files[d].cert # 0 /\ files[d].key = files[d].cert /\ res[d] # NoRes
                     => served[d] = files[d].cert

\* lego.go:340, "check when a certificate is expected to expire and set renew
\* check 1d prior": the next check comes before a certificate that is held
\* expires, or within the hour if it has.
CheckedBeforeExpiry ==
  iss = "idle" /\ renewing =>
    \A d \in Domains : res[d] # NoRes => timer <= notAfter[res[d].cert] \/ timer <= clock + Hour
=============================================================================
