--------------------------- MODULE DeploymentMonitor ---------------------------
(***************************************************************************)
(* The monitor of a deployed lease, cluster/monitor.go: it checks the      *)
(* lease's services in the cluster, publishes whether they are up, and     *)
(* closes the lease on chain after too many checks in a row found them     *)
(* down.                                                                   *)
(***************************************************************************)
EXTENDS Naturals, TLAPS

CONSTANTS
  MaxRetries,      \* MonitorMaxRetries
  Healthchecks     \* MonitorHealthcheckPeriod is positive

ASSUME RetriesAssumption == MaxRetries \in Nat

VARIABLES
  healthy,     \* the cluster runs all replicas of all services
  lc,          \* the loop
  tickch,      \* the timer of the next check
  runch,       \* the check that is running, or its result
  closech,     \* the MsgCloseBid that is being broadcast, or its result
  attempts,
  prevStatus,
  closes,      \* how often MsgCloseBid was broadcast
  streak       \* results that were not healthy since the last that was

vars == <<healthy, lc, tickch, runch, closech, attempts, prevStatus, closes, streak>>

TypeOK ==
  /\ healthy \in BOOLEAN
  /\ lc \in {"running", "draining", "done"}
  /\ tickch \in {"none", "retry", "healthcheck"}
  /\ runch \in {"none", "running", "up", "down"}
  /\ closech \in {"none", "running", "result"}
  /\ attempts \in 0..(MaxRetries + 1)
  /\ prevStatus \in {"unknown", "deployed", "pending"}
  /\ closes \in Nat
  /\ streak \in Nat

Init ==
  /\ healthy \in BOOLEAN
  /\ lc = "running"
  /\ tickch = "retry"
  /\ runch = "none"
  /\ closech = "none"
  /\ attempts = 0
  /\ prevStatus = "unknown"
  /\ closes = 0
  /\ streak = 0

\* Pods start, crash and recover.
HealthChanges ==
  /\ healthy' = ~healthy
  /\ UNCHANGED <<lc, tickch, runch, closech, attempts, prevStatus, closes, streak>>

\* shutdown(), or the manager's shutdown that the monitor watches.
ShutdownRequest ==
  /\ lc = "running"
  /\ lc' = "draining"
  /\ UNCHANGED <<healthy, tickch, runch, closech, attempts, prevStatus, closes, streak>>

\* The timer fires and runCheck starts the check.
runCheck ==
  /\ lc = "running"
  /\ tickch # "none"
  /\ tickch' = "none"
  /\ runch' = "running"
  /\ attempts' = attempts + 1
  /\ UNCHANGED <<healthy, lc, closech, prevStatus, closes, streak>>

\* doCheck returns.  A status that cannot be read counts as down.
doCheck ==
  /\ runch = "running"
  /\ \/ runch' = IF healthy THEN "up" ELSE "down"
     \/ runch' = "down"
  /\ UNCHANGED <<healthy, lc, tickch, closech, attempts, prevStatus, closes, streak>>

scheduleHealthcheck == IF Healthchecks THEN "healthcheck" ELSE "none"

\* Mutant: the attempts of earlier failures keep counting.
ResultUpKeepsAttempts ==
  /\ lc = "running"
  /\ runch = "up"
  /\ runch' = "none"
  /\ tickch' = scheduleHealthcheck
  /\ prevStatus' = "deployed"
  /\ streak' = 0
  /\ UNCHANGED <<healthy, lc, closech, attempts, closes>>

ResultUp ==
  /\ lc = "running"
  /\ runch = "up"
  /\ runch' = "none"
  /\ attempts' = 0
  /\ tickch' = scheduleHealthcheck
  /\ prevStatus' = "deployed"
  /\ streak' = 0
  /\ UNCHANGED <<healthy, lc, closech, closes>>

RetriesLeft == attempts <= MaxRetries

\* Check again, or give the lease up with runCloseLease.
ResultDown ==
  /\ lc = "running"
  /\ runch = "down"
  /\ runch' = "none"
  /\ prevStatus' = "pending"
  /\ streak' = streak + 1
  /\ \/ /\ RetriesLeft
        /\ tickch' = "retry"
        /\ UNCHANGED <<closech, closes>>
     \/ /\ ~RetriesLeft
        /\ closech' = "running"
        /\ closes' = closes + 1
        /\ UNCHANGED tickch
  /\ UNCHANGED <<healthy, lc, attempts>>

\* BroadcastMsgs returns, with or without an error: nothing tells them apart.
closeReturns ==
  /\ closech = "running"
  /\ closech' = "result"
  /\ UNCHANGED <<healthy, lc, tickch, runch, attempts, prevStatus, closes, streak>>

closeRead ==
  /\ lc = "running"
  /\ closech = "result"
  /\ closech' = "none"
  /\ UNCHANGED <<healthy, lc, tickch, runch, attempts, prevStatus, closes, streak>>

\* After the loop the results of what is running are read, and run returns.
Drained ==
  /\ lc = "draining"
  /\ runch # "running" /\ closech # "running"
  /\ lc' = "done"
  /\ UNCHANGED <<healthy, tickch, runch, closech, attempts, prevStatus, closes, streak>>

Next ==
  \/ HealthChanges \/ ShutdownRequest
  \/ runCheck \/ doCheck \/ ResultUp \/ ResultDown
  \/ closeReturns \/ closeRead \/ Drained

\* Timers fire, queries and broadcasts return, and the loop runs.
Fairness ==
  /\ WF_vars(runCheck) /\ WF_vars(doCheck)
  /\ WF_vars(ResultUp \/ ResultDown)
  /\ WF_vars(closeReturns) /\ WF_vars(closeRead) /\ WF_vars(Drained)

Spec == Init /\ [][Next]_vars

FairSpec == Spec /\ Fairness

-----------------------------------------------------------------------------
\* A lease is given up exactly after the first check and all retries of it were
\* not healthy, one after the other: an earlier failure that was recovered from
\* does not count.
ClosesAfterRetries ==
  [][closes' # closes => closes' = 1 /\ streak' = MaxRetries + 1]_vars

\* The monitor never stops watching on its own: there is a timer or a check,
\* unless it gave the lease up, or found it healthy and has no healthchecks.
KeepsWatching ==
  lc = "running" =>
    \/ tickch # "none" \/ runch # "none"
    \/ closes > 0
    \/ ~Healthchecks /\ prevStatus = "deployed"

--------------------------------------------------------------------------------
(* Proofs for any number of retries, with and without healthchecks. *)

\* The attempts are the results since the last healthy one and the check that is
\* running; a timer runs only while there are retries left, and never together
\* with a check; a monitor that has given up starts nothing any more.
CountInv ==
  /\ attempts \in Nat /\ streak \in Nat /\ closes \in Nat
  /\ runch \in {"none", "running", "up", "down"}
  /\ tickch \in {"none", "retry", "healthcheck"}
  /\ runch = "none" => attempts = streak
  /\ runch # "none" => attempts = streak + 1 /\ tickch = "none" /\ closes = 0
  /\ attempts <= MaxRetries + 1
  /\ tickch # "none" => attempts <= MaxRetries /\ closes = 0

LEMMA CountInit == Init => CountInv
BY RetriesAssumption DEF Init, CountInv

LEMMA CountStep == CountInv /\ [Next]_vars => CountInv'
<1> SUFFICES ASSUME CountInv, [Next]_vars PROVE CountInv'
  OBVIOUS
<1> USE RetriesAssumption DEF CountInv
<1>1. CASE HealthChanges \/ ShutdownRequest \/ closeReturns \/ closeRead \/ Drained
  BY <1>1 DEF HealthChanges, ShutdownRequest, closeReturns, closeRead, Drained
<1>2. CASE runCheck
  BY <1>2 DEF runCheck
<1>3. CASE doCheck
  BY <1>3 DEF doCheck
<1>4. CASE ResultUp
  BY <1>4 DEF ResultUp, scheduleHealthcheck
<1>5. CASE ResultDown
  BY <1>5 DEF ResultDown, RetriesLeft
<1>6. CASE UNCHANGED vars
  BY <1>6 DEF vars
<1>7. QED
  BY <1>1, <1>2, <1>3, <1>4, <1>5, <1>6 DEF Next

\* The lease is closed exactly once, and exactly after the first check and all
\* MonitorMaxRetries retries were not healthy.
THEOREM ClosesExactlyAfterRetries == Spec => ClosesAfterRetries
<1>1. ASSUME CountInv, [Next]_vars, closes' # closes
      PROVE  closes' = 1 /\ streak' = MaxRetries + 1
  <2>1. ResultDown /\ ~RetriesLeft
    BY <1>1 DEF Next, vars, HealthChanges, ShutdownRequest, closeReturns, closeRead, Drained,
       runCheck, doCheck, ResultUp, ResultDown
  <2>2. QED
    BY <1>1, <2>1, RetriesAssumption DEF ResultDown, RetriesLeft, CountInv
<1>2. CountInv /\ [Next]_vars => [closes' # closes => closes' = 1 /\ streak' = MaxRetries + 1]_vars
  BY <1>1
<1>3. QED
  BY <1>2, CountInit, CountStep, PTL DEF Spec, ClosesAfterRetries

\* The monitor keeps a timer or a check until it gives the lease up.
THEOREM NeverStopsWatching == Spec => []KeepsWatching
<1>1. Init => KeepsWatching
  BY DEF Init, KeepsWatching
<1>2. CountInv /\ KeepsWatching /\ [Next]_vars => KeepsWatching'
  <2> SUFFICES ASSUME CountInv, KeepsWatching, [Next]_vars PROVE KeepsWatching'
    OBVIOUS
  <2>1. CASE HealthChanges \/ ShutdownRequest \/ closeReturns \/ closeRead \/ Drained
    BY <2>1 DEF HealthChanges, ShutdownRequest, closeReturns, closeRead, Drained, KeepsWatching
  <2>2. CASE runCheck \/ doCheck
    BY <2>2 DEF runCheck, doCheck, KeepsWatching
  <2>3. CASE ResultUp
    BY <2>3 DEF ResultUp, scheduleHealthcheck, KeepsWatching
  <2>4. CASE ResultDown
    BY <2>4 DEF ResultDown, KeepsWatching, CountInv
  <2>5. CASE UNCHANGED vars
    BY <2>5 DEF vars, KeepsWatching
  <2>6. QED
    BY <2>1, <2>2, <2>3, <2>4, <2>5 DEF Next
<1>3. QED
  BY <1>1, <1>2, CountInit, CountStep, PTL DEF Spec

\* Type correctness: in particular the attempts never exceed one more than the
\* retries (monitor.go, m.attempts).
THEOREM MonitorTypeCorrect == Spec => []TypeOK
<1> DEFINE Flags == /\ healthy \in BOOLEAN
                    /\ lc \in {"running", "draining", "done"}
                    /\ closech \in {"none", "running", "result"}
                    /\ prevStatus \in {"unknown", "deployed", "pending"}
<1>1. Init => Flags
  BY DEF Init
<1>2. Flags /\ [Next]_vars => Flags'
  BY Zenon DEF Next, vars, HealthChanges, ShutdownRequest, closeReturns, closeRead, Drained, runCheck,
     doCheck, ResultUp, ResultDown
<1>3. CountInv /\ Flags => TypeOK
  BY RetriesAssumption DEF CountInv, TypeOK
<1>4. QED
  BY <1>1, <1>2, <1>3, CountInit, CountStep, PTL DEF Spec
================================================================================
