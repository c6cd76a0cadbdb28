----------------------------- MODULE SupportMC ------------------------------
(***************************************************************************)
(* What supports the provider: the balance checker's withdrawals, one by   *)
(* one and in batches, the client of the inventory operator, the           *)
(* certificate issuer, the querier of the tenants' accounts and keys, and  *)
(* the migrations. None of them shares state with another, so one of them  *)
(* runs in a behaviour.                                                    *)
(***************************************************************************)
EXTENDS BalanceChecker, TLC

CONSTANTS None, s1, c1, c2, c3,
  Parts   \* the components that may run: "batch", "readded", "client", "issuer", "querier", "migrations"

VARIABLES
  cluster, service, svcEvents, dstate, svc, timer, exited, run, stream, message, invch,
  inv, isConnected, subs, pending, out, read, updates, breaks,
  clock, iss, renewing, queue, tries, earliest, renewTimer, files, notAfter, res, pubs,
  fileEvents, watched, served, issFaults,
  accCh, prio, signal, aqSending, keys, wins, blocked, page, owners, certs, peerCh,
  certSending, aqCall, slot, aqFaults,
  release, mg, stateFile, mgTodo, objsLeft, turned, mgErrors, owed, since, mgFaults,
  part   \* the component that runs

\* Three leases are the least for which a batch of two is sent: one withdrawal is
\* in flight while two fall due. They are found when the provider starts, one of
\* them may be closed, none runs dry or is removed, checks come one at a time and
\* do not fail, and the checker is not stopped.
Steady ==
  /\ running'
  /\ escrow'["l1"] # "empty" /\ escrow'["l2"] = "funded" /\ escrow'["l3"] = "funded"
  /\ \A l \in Leases : current'[l] >= current[l] /\ adds'[l] <= 1
  /\ \A c \in DOMAIN check : check'[c].answer # "error"
  /\ Cardinality({c \in DOMAIN check : check'[c].phase \in {"running", "answered"}}) <= 1
  /\ adds'["l3"] <= adds'["l2"] /\ adds'["l2"] <= adds'["l1"]
  /\ adds["l3"] = 0 => adds' # adds

\* One lease is removed and added again, and everything may fail.
OneLease == \A l \in Leases \ {"l1"} : adds'[l] = 0 /\ escrow'[l] = "funded"

\* The owners of the accounts the two calls ask for, and of the leases found at
\* the start.
Owner == (c1 :> "a") @@ (c2 :> "b") @@ (c3 :> "b")
Pages == << <<"a">>, <<"c">> >>

Release(major, minor, patch, suffix) == [parts |-> <<major, minor, patch>>, suffix |-> suffix]
Releases == << Release(0, 9, 9, FALSE), Release(0, 10, 6, TRUE), Release(0, 10, 6, FALSE),
               Release(0, 11, 0, FALSE) >>
FromVersion == [m1 |-> Releases[3], m2 |-> Releases[4]]
Objects     == [m1 |-> {"i1", "i2"}, m2 |-> {"o1"}]

C == INSTANCE InventoryClient WITH
  Subscribers <- {s1}, Empty <- None, MaxUpdates <- 2, MaxBreaks <- 2
I == INSTANCE CertIssuer WITH
  Domains <- {"d"}, Day <- 2, Hour <- 1, Validity <- 5, Far <- 20, Retries <- 2,
  MaxClock <- 9, MaxIssFaults <- 1, timer <- renewTimer
Q == INSTANCE AccountQuerier WITH
  KeyCallers <- {c1}, CertCallers <- {c2, c3}, OwnerOf <- Owner, Pages <- Pages,
  LateOwners <- {"b"}, ChanSize <- 1, Nobody <- None, MaxAqFaults <- 2,
  sending <- aqSending
M == INSTANCE Migrations WITH
  Migs <- <<"m1", "m2">>, FromVersion <- FromVersion, Objects <- Objects,
  Releases <- Releases, NoVersion <- None, MaxMgFaults <- 2

clientVars == <<cluster, service, svcEvents, dstate, svc, timer, exited, run, stream,
                message, invch, inv, isConnected, subs, pending, out, read, updates,
                breaks>>
issuerVars == <<clock, iss, renewing, queue, tries, earliest, renewTimer, files,
                notAfter, res, pubs, fileEvents, watched, served, issFaults>>
querierVars == <<accCh, prio, signal, aqSending, keys, wins, blocked, page, owners,
                 certs, peerCh, certSending, aqCall, slot, aqFaults>>
migrationVars == <<release, mg, stateFile, mgTodo, objsLeft, turned, mgErrors, owed,
                   since, mgFaults>>

allVars == <<vars, clientVars, issuerVars, querierVars, migrationVars, part>>

\* The components that do not run stay in one of their initial states.
MCInit ==
  /\ part \in Parts
  /\ Init
  /\ C!Init
  /\ I!Init
  /\ Q!Init
  /\ M!Init /\ (part # "migrations" => release = 1 /\ since = None)

Batch ==
  /\ part = "batch" /\ Next /\ Steady
  /\ UNCHANGED <<clientVars, issuerVars, querierVars, migrationVars, part>>
Readded ==
  /\ part = "readded" /\ Next /\ OneLease
  /\ UNCHANGED <<clientVars, issuerVars, querierVars, migrationVars, part>>
Client ==
  /\ part = "client" /\ C!Next
  /\ UNCHANGED <<vars, issuerVars, querierVars, migrationVars, part>>
Issue ==
  /\ part = "issuer" /\ I!Next
  /\ UNCHANGED <<vars, clientVars, querierVars, migrationVars, part>>
Query ==
  /\ part = "querier" /\ Q!Next
  /\ UNCHANGED <<vars, clientVars, issuerVars, migrationVars, part>>
Migrate ==
  /\ part = "migrations" /\ M!Next
  /\ UNCHANGED <<vars, clientVars, issuerVars, querierVars, part>>

MCNext == Batch \/ Readded \/ Client \/ Issue \/ Query \/ Migrate

MCSpec == MCInit /\ [][MCNext]_allVars

\* The state of the component that runs.
runningVars == CASE part = "batch" -> vars
                 [] part = "readded" -> vars
                 [] part = "client" -> clientVars
                 [] part = "issuer" -> issuerVars
                 [] part = "querier" -> querierVars
                 [] part = "migrations" -> migrationVars

Runs(p) == part = p /\ UNCHANGED part

\* The fairness each component states for itself. As only one of them runs, one
\* conjunct serves a fair step of each.
MCFairSpec ==
  /\ MCSpec
  /\ WF_runningVars(\/ Runs("client") /\ C!installService
                    \/ Runs("issuer") /\ I!Issuer
                    \/ Runs("querier") /\ Q!takeRequest)
  /\ WF_runningVars(\/ Runs("client") /\ C!Runner
                    \/ Runs("issuer") /\ I!takePublished
                    \/ Runs("querier") /\ Q!takeSignal)
  /\ WF_runningVars(\/ Runs("client") /\ C!Discovery
                    \/ Runs("issuer") /\ I!takeFileEvent
                    \/ Runs("querier") /\ Q!sendAnswer)
  /\ WF_runningVars(\/ Runs("client") /\ (C!ResultChan(s1) \/ C!subscriber(s1) \/ C!reader(s1))
                    \/ Runs("querier") /\ Q!Certs)
  /\ WF_runningVars(Runs("querier") /\ Q!Run)
  /\ WF_runningVars(Runs("querier") /\ Q!OwnerPages)
  /\ WF_runningVars(Runs("querier") /\ Q!takeAnswer(c1))
  /\ WF_runningVars(Runs("querier") /\ Q!takeAnswer(c2))
  /\ WF_runningVars(Runs("querier") /\ Q!takeAnswer(c3))

-----------------------------------------------------------------------------

\* The provider's view follows the inventory operator: a reader of the inventory
\* client ends up with the cluster that was published last, through broken
\* streams, failed dials and a service that comes and goes.
ReadIsCurrent == <>[](part = "client" => C!ReadIsCurrent)

\* While nothing fails, no server holds an expired certificate: what is due is
\* renewed in time, stored and loaded.
ServedIsValid == I!ServedIsValid

\* What the gateways need to authenticate ends up stored: the key and certificate
\* of every account that was asked for or that owns a lease, and the pair of TLS
\* files the issuer has written.
AskedIsStored ==
  /\ <>[](part = "querier" => Q!AskedIsStored)
  /\ <>[](part = "issuer" => I!ServedIsStored)

\* A provider that runs has the migrations behind it that the version it came
\* from needs, each run to its end, and no other.
UpIsMigrated == M!UpIsMigrated
=============================================================================
