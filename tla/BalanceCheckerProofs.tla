-------------------------- MODULE BalanceCheckerProofs -------------------------
(***************************************************************************)
(* Proofs about BalanceChecker for any leases, batch size, withdrawal      *)
(* period and number of adds.                                              *)
(***************************************************************************)
EXTENDS BalanceChecker, FiniteSetTheorems, TLAPS

-----------------------------------------------------------------------------
(***************************************************************************)
(* The funds checks never stop.                                            *)
(***************************************************************************)

\* The monitors of bc.leases are ones that were added, and each has its chain.
ChainInv ==
  /\ adds \in [Leases -> 0..MaxAdds]
  /\ current \in [Leases -> 0..MaxAdds]
  /\ check \in [Monitors -> Checks]
  /\ \A m \in Live : check[m].phase # "none"

LEMMA TimerType ==
  ASSUME NEW b \in BOOLEAN
  PROVE  Timer(b) \in Checks /\ Timer(b).phase = "timer"
BY DEF Timer, Checks, Phases, Answers

LEMMA NoCheckType == NoCheck \in Checks
BY DEF NoCheck, Checks, Phases, Answers

LEMMA ChainStep == ChainInv /\ [Next]_vars => ChainInv'
<1> SUFFICES ASSUME ChainInv, [Next]_vars PROVE ChainInv'
  OBVIOUS
<1> USE DEF ChainInv
<1>1. CASE Chain \/ Results \/ Shutdown \/ UNCHANGED vars
  <2>1. /\ UNCHANGED <<adds, current, check>>
        /\ closed \subseteq closed'
    BY <1>1, Zenon DEF Chain, EscrowChanges, Execute, BroadcastFails, Results, WithdrawSucceeded,
       BatchFailed, WithdrawFailed, WithdrawFoundClosed, Shutdown, vars, monitorVars, checkVars
  <2>2. Live' \subseteq Live
    BY <2>1 DEF Live, Current
  <2>3. QED
    BY <2>1, <2>2
<1>2. ASSUME NEW l \in Leases, NEW new \in BOOLEAN, LeaseAddFundsMonitor(l, new)
      PROVE  ChainInv'
  <2> DEFINE m == <<l, adds[l] + 1>>
  <2>1. m \in Monitors
    BY <1>2, AddsAssumption DEF LeaseAddFundsMonitor, Monitors
  <2> DEFINE k == [Timer(FALSE) EXCEPT !.phase = IF new THEN "running" ELSE "timer"]
  <2>2. k \in Checks /\ k.phase # "none" /\ check' = [check EXCEPT ![m] = k]
    BY <1>2, Zenon DEF LeaseAddFundsMonitor, Timer, Checks, Phases, Answers
  <2>3. adds' \in [Leases -> 0..MaxAdds] /\ current' \in [Leases -> 0..MaxAdds]
    BY <1>2, AddsAssumption DEF LeaseAddFundsMonitor
  <2>4. Live' \subseteq Live \cup {m}
    BY <1>2, <2>1 DEF LeaseAddFundsMonitor, Live, Current, Monitors
  <2>5. QED
    BY <2>1, <2>2, <2>3, <2>4 DEF Live
<1>3. ASSUME NEW l \in Leases, LeaseRemoveFundsMonitor(l)
      PROVE  ChainInv'
  <2>1. Live' \subseteq {m \in Live : m[1] # l}
    BY <1>3, AddsAssumption DEF LeaseRemoveFundsMonitor, Live, Current, Monitors
  <2>2. current' \in [Leases -> 0..MaxAdds] /\ adds' = adds
    BY <1>3, AddsAssumption DEF LeaseRemoveFundsMonitor
  <2>3. /\ check' \in [Monitors -> Checks]
        /\ \A m \in Monitors : m[1] # l => check'[m] = check[m]
    <3> DEFINE c == <<l, tm[<<l, current[l]>>]>>
    <3>1. check' = check \/ check' = [check EXCEPT ![c] = NoCheck]
      BY <1>3 DEF LeaseRemoveFundsMonitor
    <3>2. c[1] = l
      OBVIOUS
    <3> HIDE DEF c
    <3>3. QED
      BY <3>1, <3>2, NoCheckType
  <2>4. QED
    BY <2>1, <2>2, <2>3 DEF Live
<1>4. ASSUME NEW c \in Monitors, Check(c)
      PROVE  ChainInv'
  <2>1. CASE TimerFires(c) \/ \E answer \in Answers : doEscrowCheck(c, answer)
    <3>1. PICK k \in Checks : check' = [check EXCEPT ![c] = k] /\ k.phase # "none"
      BY <2>1 DEF TimerFires, doEscrowCheck, Checks, Phases, Answers
    <3>2. UNCHANGED <<adds, current, closed>>
      BY <2>1 DEF TimerFires, doEscrowCheck, monitorVars
    <3>3. QED
      BY <3>1, <3>2 DEF Live, Current
  <2>2. CASE CheckIgnored(c)
    <3>1. c \notin Live
      BY <2>2 DEF CheckIgnored, Watched, Live, Current, Monitors
    <3>2. Live' = Live /\ UNCHANGED <<adds, current>>
      BY <2>2 DEF CheckIgnored, Live, Current, monitorVars
    <3>3. QED
      BY <2>2, <3>1, <3>2, NoCheckType DEF CheckIgnored, Live
  <2>3. CASE CheckReportsClosed(c)
    <3>1. c \notin Live' /\ Live' \subseteq Live /\ UNCHANGED <<adds, current>>
      BY <2>3 DEF CheckReportsClosed, MonitorOf, Live, Current, Monitors
    <3>2. QED
      BY <2>3, <3>1, NoCheckType DEF CheckReportsClosed, Live
  <2>4. CASE CheckFailed(c) \/ CheckRead(c)
    <3>1. \E b \in BOOLEAN : check' = [check EXCEPT ![c] = Timer(b)]
      BY <2>4, Zenon DEF CheckFailed, CheckRead, Schedule, Checks
    <3>2. UNCHANGED <<adds, current, closed>>
      BY <2>4 DEF CheckFailed, CheckRead, monitorVars
    <3>3. QED
      BY <3>1, <3>2, TimerType DEF Live, Current
  <2>5. QED
    BY <1>4, <2>1, <2>2, <2>3, <2>4 DEF Check
<1>5. QED
  BY <1>1, <1>2, <1>3, <1>4 DEF Next, Events

\* A monitored lease that is not reported closed always has its next funds check
\* on the way: runEscrowCheck or timerFunc is called on every path that reads a
\* result for it.
THEOREM ChecksGoOn == Spec => []KeepsChecking
<1>1. Init => ChainInv
  BY AddsAssumption, NoCheckType DEF Init, ChainInv, Live, Current, Monitors
<1>2. ChainInv => KeepsChecking
  BY DEF ChainInv, KeepsChecking
<1>3. QED
  BY <1>1, <1>2, ChainStep, PTL DEF Spec

-----------------------------------------------------------------------------
(***************************************************************************)
(* At most one transaction.                                                *)
(***************************************************************************)

Idle(busy, txs) == busy = FALSE /\ txs = <<>>

Busy(busy, txs) == busy = TRUE /\ \E t : txs = <<t>>

TxInv == Idle(sending, inflight) \/ Busy(sending, inflight)

\* sendWithdrawals keeps the flag and the transactions in step.
LEMMA SendKeeps ==
  ASSUME NEW d, NEW a, NEW busy, NEW txs, NEW live,
         Idle(busy, txs) \/ Busy(busy, txs), sendWithdrawals(d, a, busy, txs, live)
  PROVE  TxInv'
<1>1. CASE Busy(busy, txs)
  BY <1>1, Zenon DEF sendWithdrawals, Busy, TxInv
<1>2. CASE Idle(busy, txs)
  <2> DEFINE b == next(d, a, live).batch
  <2>1. \/ sending' = FALSE /\ inflight' = txs
        \/ sending' = TRUE /\ inflight' = Append(txs, [items |-> b, outcome |-> "pending"])
    BY <1>2, Zenon DEF sendWithdrawals, Idle
  <2> HIDE DEF b
  <2>2. QED
    BY <1>2, <2>1 DEF Idle, Busy, TxInv
<1>3. QED
  BY <1>1, <1>2

\* Once the result of the only transaction is read, none is left.
LEMMA ResultLeavesNone ==
  ASSUME TxInv, NEW i \in DOMAIN inflight
  PROVE  /\ Idle(FALSE, Without(inflight, i))
         /\ sending = TRUE /\ \E t : inflight = <<t>> /\ i = 1
<1>1. sending = TRUE /\ \E t : inflight = <<t>> /\ i = 1
  BY DEF TxInv, Idle, Busy
<1>2. PICK t : inflight = <<t>> /\ i = 1
  BY <1>1
<1>3. SubSeq(<<t>>, 1, 0) = <<>> /\ SubSeq(<<t>>, 2, 1) = <<>>
  OBVIOUS
<1>4. QED
  BY <1>1, <1>2, <1>3 DEF Without, Idle

LEMMA TxStep == TxInv /\ [Next]_vars => TxInv'
<1> SUFFICES ASSUME TxInv, [Next]_vars PROVE TxInv'
  OBVIOUS
<1>1. ASSUME NEW i \in DOMAIN inflight, NEW o,
             sending' = sending, inflight' = [inflight EXCEPT ![i].outcome = o]
      PROVE  TxInv'
  <2>1. PICK t : inflight = <<t>> /\ i = 1 /\ sending = TRUE
    BY ResultLeavesNone, Zenon
  <2>2. inflight' = <<[t EXCEPT !.outcome = o]>>
    BY <1>1, <2>1
  <2>3. QED
    BY <1>1, <2>1, <2>2, Zenon DEF TxInv, Busy
<1>2. CASE Chain
  BY <1>1, <1>2 DEF Chain, EscrowChanges, Execute, BroadcastFails, queueVars, TxInv, Idle, Busy
<1>3. CASE Events \/ Shutdown \/ UNCHANGED vars
  BY <1>3, ZenonT(40) DEF Events, LeaseAddFundsMonitor, LeaseRemoveFundsMonitor, Shutdown, vars, queueVars,
     TxInv, Idle, Busy
<1>4. ASSUME NEW c \in Monitors, Check(c)
      PROVE  TxInv'
  <2>1. CASE UNCHANGED queueVars
    BY <2>1 DEF queueVars, TxInv, Idle, Busy
  <2>2. CASE sendWithdrawals(Append(due, MonitorOf(c)), alone, sending, inflight, Live)
    BY <2>2, SendKeeps DEF TxInv
  <2>3. QED
    BY <1>4, <2>1, <2>2 DEF Check, TimerFires, doEscrowCheck, CheckIgnored, CheckReportsClosed,
       CheckFailed, CheckRead, Enqueue
<1>5. ASSUME NEW i \in DOMAIN inflight,
             WithdrawSucceeded(i) \/ BatchFailed(i) \/ WithdrawFailed(i) \/ WithdrawFoundClosed(i)
      PROVE  TxInv'
  <2>1. \E a, live : sendWithdrawals(due, a, FALSE, Without(inflight, i), live)
    BY <1>5, Zenon DEF WithdrawSucceeded, BatchFailed, WithdrawFailed, WithdrawFoundClosed
  <2>2. QED
    BY <2>1, ResultLeavesNone, SendKeeps, Zenon
<1>6. QED
  BY <1>2, <1>3, <1>4, <1>5 DEF Next, Results

\* The checker has at most one withdrawal transaction in flight, and the flag
\* withdrawQueue.sending says whether there is one.
THEOREM OneTransactionEver == Spec => []OneTransaction
<1>1. Init => TxInv
  BY DEF Init, TxInv, Idle
<1>2. TxInv => OneTransaction
  <2>1. ASSUME NEW t PROVE Len(<<t>>) = 1 /\ <<t>> # <<>>
    OBVIOUS
  <2>2. Idle(sending, inflight) => OneTransaction
    BY DEF Idle, OneTransaction
  <2>3. Busy(sending, inflight) => OneTransaction
    BY <2>1 DEF Busy, OneTransaction
  <2>4. QED
    BY <2>2, <2>3 DEF TxInv
<1>3. QED
  BY <1>1, <1>2, TxStep, PTL DEF Spec

-----------------------------------------------------------------------------
(***************************************************************************)
(* What withdrawQueue.next takes.  The loops over the queues are recursive *)
(* functions; what they compute is shown from the first step at which it   *)
(* would be wrong.                                                         *)
(***************************************************************************)

LEMMA LeastElement ==
  ASSUME NEW T \in SUBSET Nat, T # {}
  PROVE  \E x \in T : \A y \in T : x <= y
<1> DEFINE Up == {0..n : n \in T}
<1>1. Up \subseteq FiniteSubsetsOf(Nat) /\ Up # {}
  <2>1. ASSUME NEW n \in T PROVE 0..n \in FiniteSubsetsOf(Nat)
    <3>1. IsFiniteSet(0..n)
      BY FS_Interval
    <3>2. QED
      BY <3>1 DEF FiniteSubsetsOf
  <2>2. QED
    BY <2>1
<1>2. IsWellFoundedOn(StrictSubsetOrdering(Nat), FiniteSubsetsOf(Nat))
  BY FS_StrictSubsetOrderingWellFounded
<1> HIDE DEF Up
<1>3. PICK u \in Up : \A v \in Up : ~(<<v, u>> \in StrictSubsetOrdering(Nat))
  BY <1>1, <1>2, WFMin
<1> USE DEF Up
<1>4. PICK x \in T : u = 0..x
  BY <1>3
<1>5. \A y \in T : x <= y
  <2> SUFFICES ASSUME NEW y \in T, y < x PROVE FALSE
    OBVIOUS
  <2>1. 0..y \subseteq 0..x /\ x \in 0..x /\ x \notin 0..y
    OBVIOUS
  <2>2. <<0..y, 0..x>> \in StrictSubsetOrdering(Nat)
    BY <2>1 DEF StrictSubsetOrdering
  <2>3. QED
    BY <1>3, <1>4, <2>2
<1>6. QED
  BY <1>5

\* The loop is well defined.
LEMMA KeptLoop ==
  ASSUME NEW q, NEW live, Len(q) \in Nat
  PROVE  Kept(q, live) = [k \in 0..Len(q) |->
                            IF k = 0 THEN <<>> ELSE Pop(Kept(q, live)[k - 1], q[k], live)]
<1> DEFINE Runs(f, n) ==
             f = [k \in 0..n |-> IF k = 0 THEN <<>> ELSE Pop(f[k - 1], q[k], live)]
           Stuck == {n \in Nat : ~\E f : Runs(f, n)}
<1>1. Stuck = {}
  <2> SUFFICES ASSUME Stuck # {} PROVE FALSE
    OBVIOUS
  <2>1. PICK n \in Stuck : \A y \in Stuck : n <= y
    BY LeastElement
  <2>2. n # 0
    <3>1. Runs([k \in 0..0 |-> <<>>], 0)
      OBVIOUS
    <3> QED BY <3>1
  <2>3. PICK f : Runs(f, n - 1)
    <3>1. n \in Nat /\ n - 1 \in Nat /\ ~(n <= n - 1)
      BY <2>2
    <3>2. n - 1 \notin Stuck
      BY <2>1, <3>1, Zenon
    <3> QED BY <3>1, <3>2, Zenon
  <2> DEFINE g == [k \in 0..n |-> IF k = n THEN Pop(f[n - 1], q[n], live) ELSE f[k]]
  <2>4. \A k \in 0..(n - 1) : f[k] = IF k = 0 THEN <<>> ELSE Pop(f[k - 1], q[k], live)
    BY <2>3
  <2>5. ASSUME NEW k \in 0..n PROVE g[k] = IF k = 0 THEN <<>> ELSE Pop(g[k - 1], q[k], live)
    <3>1. CASE k = n
      BY <2>2, <3>1
    <3>2. CASE k # n
      BY <2>2, <2>4, <3>2
    <3> QED BY <3>1, <3>2
  <2>6. g = [k \in 0..n |-> g[k]]
    OBVIOUS
  <2> HIDE DEF g
  <2>7. Runs(g, n)
    BY <2>5, <2>6
  <2> QED BY <2>1, <2>7
<1>2. PICK f : Runs(f, Len(q))
  BY <1>1
<1>3. Kept(q, live) = CHOOSE f2 : Runs(f2, Len(q))
  BY DEF Kept
<1> QED BY <1>2, <1>3

Prefix(q, k) == {q[i] : i \in 1..k}

\* A sequence without repetition.
Distinct(s) == \A i, j \in DOMAIN s : s[i] = s[j] => i = j

LEMMA AppendFacts ==
  ASSUME NEW s \in Seq(Monitors), NEW m \in Monitors
  PROVE  /\ Append(s, m) \in Seq(Monitors)
         /\ Len(Append(s, m)) = Len(s) + 1
         /\ Range(Append(s, m)) = Range(s) \cup {m}
         /\ Distinct(s) /\ m \notin Range(s) => Distinct(Append(s, m))
<1>1. Append(s, m) \in Seq(Monitors) /\ Len(Append(s, m)) = Len(s) + 1
  OBVIOUS
<1>2. /\ DOMAIN s = 1..Len(s) /\ DOMAIN Append(s, m) = 1..(Len(s) + 1)
      /\ \A i \in 1..Len(s) : Append(s, m)[i] = s[i]
      /\ Append(s, m)[Len(s) + 1] = m
  OBVIOUS
<1>3. Range(Append(s, m)) = Range(s) \cup {m}
  BY <1>2 DEF Range
<1>4. ASSUME Distinct(s), m \notin Range(s) PROVE Distinct(Append(s, m))
  BY <1>2, <1>4 DEF Distinct, Range
<1> QED BY <1>1, <1>3, <1>4

\* What is kept of the first k items: the live ones, none twice.
LEMMA KeptItems ==
  ASSUME NEW q \in Seq(Monitors), NEW live, Distinct(q), NEW k \in 0..Len(q)
  PROVE  /\ Kept(q, live)[k] \in Seq(Monitors)
         /\ Range(Kept(q, live)[k]) = Prefix(q, k) \cap live
         /\ Distinct(Kept(q, live)[k])
<1> DEFINE f == Kept(q, live)
           Right(n) == /\ f[n] \in Seq(Monitors)
                       /\ Range(f[n]) = Prefix(q, n) \cap live
                       /\ Distinct(f[n])
           Wrong == {n \in 0..Len(q) : ~Right(n)}
<1>1. /\ f[0] = <<>>
      /\ \A n \in 1..Len(q) : f[n] = Pop(f[n - 1], q[n], live)
  BY KeptLoop
<1> HIDE DEF f
<1>2. Right(0)
  BY <1>1 DEF Range, Prefix, Distinct
<1>3. ASSUME NEW n \in 1..Len(q), Right(n - 1) PROVE Right(n)
  <2>1. q[n] \in Monitors /\ f[n] = Pop(f[n - 1], q[n], live)
    BY <1>1
  <2>2. Prefix(q, n) = Prefix(q, n - 1) \cup {q[n]}
    <3>1. 1..n = 1..(n - 1) \cup {n}
      OBVIOUS
    <3> QED BY <3>1, Zenon DEF Prefix
  <2>3. q[n] \notin Prefix(q, n - 1)
    <3>1. DOMAIN q = 1..Len(q)
      OBVIOUS
    <3> QED BY <3>1 DEF Prefix, Distinct
  <2>4. CASE q[n] \in live
    <3>1. f[n] = Append(f[n - 1], q[n])
      BY <2>1, <2>4 DEF Pop
    <3>2. q[n] \notin Range(f[n - 1])
      BY <1>3, <2>3
    <3>3. /\ f[n] \in Seq(Monitors) /\ Range(f[n]) = Range(f[n - 1]) \cup {q[n]}
          /\ Distinct(f[n])
      BY <1>3, <2>1, <3>1, <3>2, AppendFacts
    <3> QED BY <1>3, <2>2, <2>4, <3>3
  <2>5. CASE q[n] \notin live
    BY <1>3, <2>1, <2>2, <2>5 DEF Pop
  <2> QED BY <2>4, <2>5
<1>4. Wrong = {}
  <2> SUFFICES ASSUME Wrong # {} PROVE FALSE
    OBVIOUS
  <2>1. Wrong \in SUBSET Nat
    OBVIOUS
  <2>2. PICK n \in Wrong : \A y \in Wrong : n <= y
    BY <2>1, LeastElement
  <2>3. n # 0
    BY <1>2, <2>2
  <2>4. n \in 1..Len(q) /\ n - 1 \in 0..Len(q) /\ ~(n <= n - 1)
    BY <2>3
  <2>5. Right(n - 1)
    BY <2>2, <2>4, Zenon
  <2> QED BY <1>3, <2>4, <2>5, Zenon
<1>5. Right(k)
  BY <1>4, Zenon
<1> QED BY <1>5 DEF f

LEMMA SuffixFacts ==
  ASSUME NEW q \in Seq(Monitors), NEW k \in 0..Len(q), Distinct(q)
  PROVE  LET rest == SubSeq(q, k + 1, Len(q)) IN
         /\ rest \in Seq(Monitors) /\ Distinct(rest)
         /\ Range(q) = Prefix(q, k) \cup Range(rest)
         /\ Prefix(q, k) \cap Range(rest) = {}
         /\ k = Len(q) => rest = <<>>
<1> DEFINE rest == SubSeq(q, k + 1, Len(q))
<1>1. rest \in Seq(Monitors) /\ Len(rest) = Len(q) - k
  OBVIOUS
<1>2. DOMAIN q = 1..Len(q) /\ DOMAIN rest = 1..(Len(q) - k)
  OBVIOUS
<1>3. \A i \in 1..(Len(q) - k) : rest[i] = q[i + k] /\ i + k \in 1..Len(q)
  OBVIOUS
<1>4. ASSUME k = Len(q) PROVE rest = <<>>
  BY <1>4
<1> HIDE DEF rest
<1>5. Distinct(rest)
  <2> SUFFICES ASSUME NEW i \in 1..(Len(q) - k), NEW j \in 1..(Len(q) - k), rest[i] = rest[j]
               PROVE  i = j
    BY <1>2 DEF Distinct
  <2>1. q[i + k] = q[j + k] /\ i + k \in DOMAIN q /\ j + k \in DOMAIN q
    BY <1>2, <1>3
  <2>2. i + k = j + k
    BY <2>1, Zenon DEF Distinct
  <2> QED BY <2>2
<1>6. \A j \in (k + 1)..Len(q) : j - k \in 1..(Len(q) - k) /\ rest[j - k] = q[j]
  BY <1>3
<1>7. Range(q) = Prefix(q, k) \cup Range(rest)
  <2>1. ASSUME NEW i \in 1..Len(q) PROVE q[i] \in Prefix(q, k) \cup Range(rest)
    <3>1. CASE i \in 1..k
      BY <3>1 DEF Prefix
    <3>2. CASE i \in (k + 1)..Len(q)
      BY <1>2, <1>6, <3>2 DEF Range
    <3> QED BY <3>1, <3>2
  <2>2. Prefix(q, k) \subseteq Range(q)
    BY <1>2 DEF Prefix, Range
  <2>3. Range(rest) \subseteq Range(q)
    BY <1>2, <1>3 DEF Range
  <2> QED BY <1>2, <2>1, <2>2, <2>3 DEF Range
<1>8. Prefix(q, k) \cap Range(rest) = {}
  <2> SUFFICES ASSUME NEW i \in 1..k, NEW j \in 1..(Len(q) - k), q[i] = rest[j]
               PROVE  FALSE
    BY <1>2 DEF Prefix, Range
  <2>1. q[i] = q[j + k] /\ i \in DOMAIN q /\ j + k \in DOMAIN q
    BY <1>2, <1>3
  <2>2. i = j + k
    BY <2>1, Zenon DEF Distinct
  <2> QED BY <2>2
<1>9. QED
  BY <1>1, <1>4, <1>5, <1>7, <1>8 DEF rest

\* What a loop over the queue q takes and what it leaves.
Split(q, live, batch, rest) ==
  /\ batch \in Seq(Monitors) /\ Distinct(batch) /\ rest \in Seq(Monitors) /\ Distinct(rest)
  /\ Range(batch) \subseteq Range(q) \cap live /\ Range(rest) \subseteq Range(q)
  /\ Range(batch) \cap Range(rest) = {}
  /\ Range(q) \cap live \subseteq Range(batch) \cup Range(rest)
  /\ batch = <<>> => rest = <<>>

\* The loop stops at n items or at the end of the queue; what it dropped on the
\* way is not live.
LEMMA TakeSplits ==
  ASSUME NEW q \in Seq(Monitors), NEW n \in Nat \ {0}, NEW live, Distinct(q)
  PROVE  LET t == Take(q, n, live)
         IN Split(q, live, t.batch, t.rest) /\ Len(t.batch) <= n
<1> DEFINE f == Kept(q, live)
           Stops(k) == Len(f[k]) = n \/ k = Len(q)
           Stop == {k \in 0..Len(q) : Stops(k)}
           Last(k) == Stops(k) /\ \A j \in 0..(k - 1) : Len(f[j]) # n
           last == CHOOSE k \in 0..Len(q) : Last(k)
<1>1. \A k \in 0..Len(q) : /\ f[k] \in Seq(Monitors) /\ Distinct(f[k])
                           /\ Range(f[k]) = Prefix(q, k) \cap live
  BY KeptItems
<1>2. /\ f[0] = <<>>
      /\ \A k \in 1..Len(q) : f[k] = Pop(f[k - 1], q[k], live)
  BY KeptLoop
<1>3. Take(q, n, live) = [batch |-> f[last], rest |-> SubSeq(q, last + 1, Len(q))]
  BY Zenon DEF Take
<1> HIDE DEF f
<1>4. \E k \in 0..Len(q) : Last(k)
  <2>1. Stop \in SUBSET Nat /\ Len(q) \in Stop
    OBVIOUS
  <2>2. PICK k \in Stop : \A y \in Stop : k <= y
    BY <2>1, LeastElement
  <2>3. \A j \in 0..(k - 1) : j \in 0..Len(q) /\ ~(k <= j)
    BY <2>1, <2>2
  <2>4. \A j \in 0..(k - 1) : Len(f[j]) # n
    BY <2>2, <2>3
  <2> QED BY <2>2, <2>4
<1>5. last \in 0..Len(q) /\ Last(last)
  BY <1>4, Zenon
<1> HIDE DEF last
<1>6. Len(f[last]) <= n
  <2> DEFINE Long == {k \in 0..last : ~(Len(f[k]) <= n)}
  <2> SUFFICES ASSUME Long # {} PROVE FALSE
    BY <1>5
  <2>1. Long \in SUBSET Nat
    BY <1>5
  <2>2. PICK k \in Long : \A y \in Long : k <= y
    BY <2>1, LeastElement
  <2>3. k # 0
    BY <1>2, <2>2
  <2>4. k \in 1..Len(q) /\ k - 1 \in 0..(last - 1) /\ k - 1 \in 0..last /\ ~(k <= k - 1)
    BY <1>5, <2>3
  <2>5. Len(f[k - 1]) <= n /\ Len(f[k - 1]) # n
    BY <1>5, <2>2, <2>4
  <2>6. Len(f[k]) \in {Len(f[k - 1]), Len(f[k - 1]) + 1} /\ Len(f[k - 1]) \in Nat
    <3>1. f[k - 1] \in Seq(Monitors) /\ q[k] \in Monitors /\ f[k] = Pop(f[k - 1], q[k], live)
      <4>1. k - 1 \in 0..Len(q) /\ q[k] \in Monitors
        BY <1>5, <2>4
      <4> QED BY <1>1, <1>2, <2>4, <4>1, Zenon
    <3> QED BY <3>1 DEF Pop
  <2> QED BY <2>2, <2>5, <2>6
<1> DEFINE rest == SubSeq(q, last + 1, Len(q))
<1>7. /\ rest \in Seq(Monitors) /\ Distinct(rest)
      /\ Range(q) = Prefix(q, last) \cup Range(rest)
      /\ Prefix(q, last) \cap Range(rest) = {}
      /\ last = Len(q) => rest = <<>>
  BY <1>5, SuffixFacts
<1> HIDE DEF rest
<1>8. f[last] = <<>> => rest = <<>>
  <2> SUFFICES ASSUME f[last] = <<>> PROVE last = Len(q)
    BY <1>7
  <2>1. Len(f[last]) = 0
    OBVIOUS
  <2> QED BY <1>5, <2>1
<1>9. Split(q, live, f[last], rest)
  BY <1>1, <1>5, <1>7, <1>8 DEF Split
<1> QED BY <1>3, <1>6, <1>9 DEF rest

-----------------------------------------------------------------------------
(***************************************************************************)
(* Every withdrawal is accounted for.                                      *)
(***************************************************************************)

\* The queues d and a and the items b of the transaction in flight hold no
\* withdrawal twice.
Queued(d, a, b) ==
  /\ d \in Seq(Monitors) /\ a \in Seq(Monitors) /\ b \in Seq(Monitors)
  /\ Distinct(d) /\ Distinct(a) /\ Distinct(b)
  /\ Range(d) \cap Range(a) = {} /\ Range(d) \cap Range(b) = {} /\ Range(a) \cap Range(b) = {}

Pending(d, a, b) == Range(d) \cup Range(a) \cup Range(b)

LEMMA NextSplits ==
  ASSUME NEW d, NEW a, NEW live, Queued(d, a, <<>>)
  PROVE  LET n == next(d, a, live) IN
         /\ Queued(n.due, n.alone, n.batch)
         /\ Pending(n.due, n.alone, n.batch) \subseteq Pending(d, a, <<>>)
         /\ Pending(d, a, <<>>) \cap live \subseteq Pending(n.due, n.alone, n.batch)
         /\ Len(n.batch) <= MaxBatch
         /\ n.batch = <<>> => n.due = <<>> /\ n.alone = <<>>
<1> DEFINE single == Take(a, 1, live)
           many == Take(d, MaxBatch, live)
           n == next(d, a, live)
<1>1. Split(a, live, single.batch, single.rest) /\ Len(single.batch) <= 1
  BY TakeSplits DEF Queued
<1>2. Split(d, live, many.batch, many.rest) /\ Len(many.batch) <= MaxBatch
  BY TakeSplits, BatchAssumption DEF Queued
<1>3. CASE single.batch # <<>>
  <2>1. n = [batch |-> single.batch, due |-> d, alone |-> single.rest]
    BY <1>3, Zenon DEF next
  <2> HIDE DEF single, n
  <2>2. n.batch = single.batch /\ n.due = d /\ n.alone = single.rest
    BY <2>1
  <2>3. Len(n.batch) <= MaxBatch
    BY <1>1, <2>2, BatchAssumption DEF Split
  <2>4. Range(<<>>) = {}
    BY DEF Range
  <2>5. Queued(d, single.rest, single.batch)
    BY <1>1, Zenon DEF Queued, Split
  <2>6. /\ Pending(d, single.rest, single.batch) \subseteq Pending(d, a, <<>>)
        /\ Pending(d, a, <<>>) \cap live \subseteq Pending(d, single.rest, single.batch)
    BY <1>1, <2>4, Zenon DEF Pending, Split
  <2> QED BY <1>3, <2>2, <2>3, <2>5, <2>6, Zenon DEF n
<1>4. CASE single.batch = <<>>
  <2>1. n = [batch |-> many.batch, due |-> many.rest, alone |-> single.rest]
    BY <1>4, Zenon DEF next
  <2> HIDE DEF single, many, n
  <2>2. n.batch = many.batch /\ n.due = many.rest /\ n.alone = single.rest
    BY <2>1
  <2>3. single.rest = <<>>
    BY <1>1, <1>4 DEF Split
  <2>4. Range(<<>>) = {} /\ Distinct(<<>>) /\ <<>> \in Seq(Monitors)
    BY DEF Range, Distinct
  <2>5. Queued(many.rest, <<>>, many.batch)
    BY <1>2, <2>4, Zenon DEF Queued, Split
  <2>6. Range(a) \cap live = {}
    BY <1>1, <1>4, <2>3, <2>4, Zenon DEF Split
  <2>7. /\ Pending(many.rest, <<>>, many.batch) \subseteq Pending(d, a, <<>>)
        /\ Pending(d, a, <<>>) \cap live \subseteq Pending(many.rest, <<>>, many.batch)
    BY <1>2, <2>4, <2>6, Zenon DEF Pending, Split
  <2>8. many.batch = <<>> => many.rest = <<>>
    BY <1>2 DEF Split
  <2> QED BY <1>2, <2>2, <2>3, <2>5, <2>7, <2>8, Zenon DEF n
<1> QED BY <1>3, <1>4

ItemsOf(txs) == IF txs = <<>> THEN <<>> ELSE txs[1].items

\* What is queued or sent is withdrawing, and of w nothing that is live is lost.
Accounted(d, a, b, w, live) ==
  /\ Queued(d, a, b) /\ Len(b) <= MaxBatch
  /\ Pending(d, a, b) \subseteq w
  /\ w \cap live \subseteq Pending(d, a, b)

\* sendWithdrawals loses no withdrawal that is still to be made, and leaves
\* nothing in the queues without a transaction in flight.
LEMMA SendAccounts ==
  ASSUME NEW d, NEW a, NEW busy, NEW txs, NEW live, NEW w,
         Idle(busy, txs) \/ Busy(busy, txs),
         Accounted(d, a, ItemsOf(txs), w, live),
         sendWithdrawals(d, a, busy, txs, live)
  PROVE  /\ Accounted(due', alone', ItemsOf(inflight'), w, live)
         /\ ~sending' => due' = <<>> /\ alone' = <<>>
<1>1. CASE Busy(busy, txs)
  <2>1. due' = d /\ alone' = a /\ sending' = TRUE /\ inflight' = txs
    BY <1>1, Zenon DEF sendWithdrawals, Busy
  <2> QED BY <2>1, Zenon
<1>2. CASE Idle(busy, txs)
  <2> DEFINE n == next(d, a, live)
             b == n.batch
  <2>1. /\ due' = n.due /\ alone' = n.alone
        /\ \/ b = <<>> /\ sending' = FALSE /\ inflight' = <<>>
           \/ b # <<>> /\ sending' = TRUE
              /\ inflight' = Append(<<>>, [items |-> b, outcome |-> "pending"])
    BY <1>2, Zenon DEF sendWithdrawals, Idle
  <2>2. ItemsOf(txs) = <<>>
    BY <1>2 DEF Idle, ItemsOf
  <2>3. Accounted(d, a, <<>>, w, live)
    BY <2>2, Zenon
  <2>4. /\ Queued(n.due, n.alone, b)
        /\ Pending(n.due, n.alone, b) \subseteq Pending(d, a, <<>>)
        /\ Pending(d, a, <<>>) \cap live \subseteq Pending(n.due, n.alone, b)
        /\ Len(b) <= MaxBatch
        /\ b = <<>> => n.due = <<>> /\ n.alone = <<>>
    BY <2>3, NextSplits DEF Accounted
  <2> HIDE DEF n, b
  <2>5. ItemsOf(inflight') = b
    BY <2>1 DEF ItemsOf
  <2>6. Accounted(n.due, n.alone, b, w, live)
    BY <2>3, <2>4, Zenon DEF Accounted
  <2> QED BY <2>1, <2>4, <2>5, <2>6, Zenon
<1> QED BY <1>1, <1>2

\* A monitor that is added is a new one: it has no withdrawal of its own yet.
AccInv ==
  /\ TxInv
  /\ withdrawing \subseteq Monitors
  /\ adds \in [Leases -> Nat] /\ current \in [Leases -> Nat]
  /\ \A l \in Leases : current[l] <= adds[l] /\ adds[l] <= MaxAdds
  /\ \A m \in withdrawing : m[2] <= adds[m[1]]
  /\ Accounted(due, alone, ItemsOf(inflight), withdrawing, Live)
  /\ ~sending => due = <<>> /\ alone = <<>>

\* Fewer live monitors need not be accounted for.
LEMMA FewerLive ==
  ASSUME NEW d, NEW a, NEW b, NEW w, NEW live, NEW less, less \cap w \subseteq live,
         Accounted(d, a, b, w, live)
  PROVE  Accounted(d, a, b, w, less)
BY Zenon DEF Accounted

LEMMA ResultItems ==
  ASSUME TxInv, NEW i \in DOMAIN inflight
  PROVE  ItemsOf(inflight) = inflight[i].items
<1>1. PICK t : inflight = <<t>> /\ i = 1
  BY ResultLeavesNone, Zenon
<1> QED BY <1>1 DEF ItemsOf

LEMMA ChainAccounts ==
  ASSUME AccInv, Chain
  PROVE  AccInv'
<1>1. UNCHANGED <<adds, current, closed, withdrawing, due, alone, sending>>
  BY Zenon DEF Chain, EscrowChanges, Execute, BroadcastFails, monitorVars, queueVars
<1>2. ItemsOf(inflight') = ItemsOf(inflight)
  <2>1. CASE inflight' = inflight
    BY <2>1
  <2>2. ASSUME NEW i \in DOMAIN inflight, NEW o, inflight' = [inflight EXCEPT ![i].outcome = o]
        PROVE  ItemsOf(inflight') = ItemsOf(inflight)
    <3>1. PICK t : inflight = <<t>> /\ i = 1
      BY ResultLeavesNone, Zenon DEF AccInv
    <3>2. inflight' = <<[t EXCEPT !.outcome = o]>>
      BY <2>2, <3>1
    <3>3. [t EXCEPT !.outcome = o].items = t.items
      OBVIOUS
    <3> QED BY <3>1, <3>2, <3>3 DEF ItemsOf
  <2> QED BY <2>1, <2>2, Zenon DEF Chain, EscrowChanges, Execute, BroadcastFails, queueVars
<1>3. Live' = Live
  BY <1>1 DEF Live, Current
<1>4. TxInv'
  BY TxStep DEF AccInv, Next
<1>5. Accounted(due, alone, ItemsOf(inflight), withdrawing, Live)'
  BY <1>1, <1>2, <1>3, Zenon DEF AccInv
<1> QED BY <1>1, <1>4, <1>5, Zenon DEF AccInv

LEMMA EventsAccount ==
  ASSUME AccInv, Events
  PROVE  AccInv'
<1>1. UNCHANGED <<closed, withdrawing, due, alone, sending, inflight>>
  BY Zenon DEF Events, LeaseAddFundsMonitor, LeaseRemoveFundsMonitor, queueVars
<1>2. TxInv'
  BY TxStep DEF AccInv, Next
<1>3. ASSUME NEW l \in Leases, NEW new \in BOOLEAN, LeaseAddFundsMonitor(l, new)
      PROVE  AccInv'
  <2>1. /\ adds' = [adds EXCEPT ![l] = @ + 1] /\ current' = [current EXCEPT ![l] = adds[l] + 1]
        /\ adds[l] < MaxAdds
    BY <1>3 DEF LeaseAddFundsMonitor
  <2>2. /\ adds' \in [Leases -> Nat] /\ current' \in [Leases -> Nat]
        /\ \A k \in Leases : current'[k] <= adds'[k] /\ adds'[k] <= MaxAdds /\ adds[k] <= adds'[k]
    BY <2>1, AddsAssumption DEF AccInv
  <2>3. \A m \in withdrawing : m \in Monitors /\ m[1] \in Leases /\ m[2] \in Nat
    BY AddsAssumption DEF AccInv, Monitors
  <2>4. \A m \in withdrawing : m[2] <= adds'[m[1]]
    BY <2>2, <2>3 DEF AccInv
  <2>5. Live' \cap withdrawing \subseteq Live
    BY <1>1, <2>1, <2>3 DEF Live, Current, AccInv
  <2>6. Accounted(due, alone, ItemsOf(inflight), withdrawing, Live')
    BY <2>5, FewerLive DEF AccInv
  <2> QED BY <1>1, <1>2, <2>2, <2>4, <2>6, Zenon DEF AccInv
<1>4. ASSUME NEW l \in Leases, LeaseRemoveFundsMonitor(l)
      PROVE  AccInv'
  <2>1. adds' = adds /\ current' = [current EXCEPT ![l] = 0]
    BY <1>4 DEF LeaseRemoveFundsMonitor
  <2>2. current' \in [Leases -> Nat] /\ \A k \in Leases : current'[k] <= adds[k]
    BY <2>1 DEF AccInv
  <2>3. Live' \cap withdrawing \subseteq Live
    BY <1>1, <2>1, AddsAssumption DEF Live, Current, AccInv, Monitors
  <2>4. Accounted(due, alone, ItemsOf(inflight), withdrawing, Live')
    BY <2>3, FewerLive DEF AccInv
  <2> QED BY <1>1, <1>2, <2>1, <2>2, <2>4, Zenon DEF AccInv
<1> QED BY <1>3, <1>4 DEF Events

LEMMA CheckAccounts ==
  ASSUME AccInv, NEW c \in Monitors, Check(c)
  PROVE  AccInv'
<1>1. UNCHANGED <<adds, current>> /\ closed \subseteq closed'
  BY Zenon DEF Check, TimerFires, doEscrowCheck, CheckIgnored, CheckReportsClosed, CheckFailed,
     CheckRead, monitorVars
<1>2. TxInv'
  BY TxStep DEF AccInv, Next
<1>3. Live' \subseteq Live
  BY <1>1 DEF Live, Current
<1>4. CASE UNCHANGED <<withdrawing, queueVars>>
  <2>1. UNCHANGED <<withdrawing, due, alone, sending, inflight>>
    BY <1>4 DEF queueVars
  <2>2. Accounted(due, alone, ItemsOf(inflight), withdrawing, Live')
    BY <1>3, FewerLive DEF AccInv
  <2> QED BY <1>1, <1>2, <2>1, <2>2, Zenon DEF AccInv
<1>5. CASE CheckRead(c) /\ ~UNCHANGED <<withdrawing, queueVars>>
  <2> DEFINE l == c[1]
  <2>1. PICK m : m = MonitorOf(c)
    OBVIOUS
  <2>2. /\ m \notin withdrawing /\ withdrawing' = withdrawing \cup {m}
        /\ sendWithdrawals(Append(due, m), alone, sending, inflight, Live)
        /\ Watched(l) /\ closed' = closed
    BY <1>5, <2>1, Zenon DEF CheckRead, Enqueue
  <2>3. m = <<l, current[l]>> /\ l \in Leases /\ current[l] \in Nat /\ current[l] # 0
        /\ current[l] <= adds[l] /\ adds[l] \in Nat /\ adds[l] <= MaxAdds
    BY <2>1, <2>2 DEF MonitorOf, Monitors, Watched, AccInv
  <2>4. m \in Monitors /\ m[1] = l /\ m[2] = current[l]
    BY <2>3, AddsAssumption DEF Monitors
  <2>5. Live' = Live
    BY <1>1, <2>2 DEF Live, Current
  <2>6. PICK b \in Seq(Monitors) : b = ItemsOf(inflight)
    BY DEF AccInv, Accounted, Queued
  <2>7. Accounted(due, alone, b, withdrawing, Live)
    BY <2>6, Zenon DEF AccInv
  <2>8. m \notin Pending(due, alone, b) /\ due \in Seq(Monitors)
    BY <2>2, <2>7 DEF Accounted, Queued
  <2>9. PICK d \in Seq(Monitors) : d = Append(due, m) /\ Range(d) = Range(due) \cup {m} /\ Distinct(d)
    BY <2>4, <2>7, <2>8, AppendFacts DEF Pending, Accounted, Queued
  <2>10. Accounted(d, alone, b, withdrawing', Live)
    <3>1. Queued(d, alone, b)
      BY <2>7, <2>8, <2>9, Zenon DEF Accounted, Queued, Pending
    <3>2. Pending(d, alone, b) = Pending(due, alone, b) \cup {m}
      BY <2>9, Zenon DEF Pending
    <3> QED BY <2>2, <2>7, <3>1, <3>2, Zenon DEF Accounted
  <2>11. /\ Accounted(due', alone', ItemsOf(inflight'), withdrawing', Live)
         /\ ~sending' => due' = <<>> /\ alone' = <<>>
    <3>1. sendWithdrawals(d, alone, sending, inflight, Live)
      BY <2>2, <2>9, Zenon
    <3>2. Accounted(d, alone, ItemsOf(inflight), withdrawing', Live)
      BY <2>6, <2>10, Zenon
    <3> QED BY <3>1, <3>2, SendAccounts DEF AccInv, TxInv
  <2>12. withdrawing' \subseteq Monitors /\ \A k \in withdrawing' : k[2] <= adds[k[1]]
    BY <2>2, <2>3, <2>4 DEF AccInv
  <2> QED BY <1>1, <1>2, <2>5, <2>11, <2>12, Zenon DEF AccInv
<1> QED
  BY <1>4, <1>5, Zenon DEF Check, TimerFires, doEscrowCheck, CheckIgnored, CheckReportsClosed, CheckFailed,
     CheckRead, monitorVars

\* The items of a failed batch join the withdrawals that are sent one by one.
LEMMA ConcatFacts ==
  ASSUME NEW s \in Seq(Monitors), NEW t \in Seq(Monitors), Distinct(s), Distinct(t),
         Range(s) \cap Range(t) = {}
  PROVE  /\ s \o t \in Seq(Monitors) /\ Distinct(s \o t)
         /\ Range(s \o t) = Range(s) \cup Range(t)
<1>1. /\ s \o t \in Seq(Monitors) /\ Len(s) \in Nat /\ Len(t) \in Nat
      /\ DOMAIN s = 1..Len(s) /\ DOMAIN t = 1..Len(t) /\ DOMAIN (s \o t) = 1..(Len(s) + Len(t))
  OBVIOUS
<1>2. \A i \in 1..Len(s) : (s \o t)[i] = s[i]
  OBVIOUS
<1>3. \A i \in 1..Len(t) : (s \o t)[Len(s) + i] = t[i]
  OBVIOUS
<1> DEFINE u == s \o t
<1> HIDE DEF u
<1>4. ASSUME NEW i \in DOMAIN u
      PROVE  \/ i \in DOMAIN s /\ u[i] = s[i] /\ u[i] \in Range(s)
             \/ i - Len(s) \in DOMAIN t /\ u[i] = t[i - Len(s)] /\ u[i] \in Range(t)
  <2>1. CASE i \in 1..Len(s)
    BY <1>1, <1>2, <2>1 DEF u, Range
  <2>2. CASE i \notin 1..Len(s)
    <3>1. i - Len(s) \in 1..Len(t) /\ i = Len(s) + (i - Len(s))
      BY <1>1, <2>2 DEF u
    <3>2. u[i] = t[i - Len(s)]
      BY <1>3, <3>1 DEF u
    <3> QED BY <1>1, <3>1, <3>2 DEF Range
  <2> QED BY <2>1, <2>2
<1>5. Distinct(u)
  <2> SUFFICES ASSUME NEW i \in DOMAIN u, NEW j \in DOMAIN u, u[i] = u[j] PROVE i = j
    BY DEF Distinct
  <2>1. i \in Nat /\ j \in Nat
    BY <1>1 DEF u
  <2>2. CASE i \in DOMAIN s /\ u[i] = s[i] /\ u[i] \in Range(s)
    <3>1. j \in DOMAIN s /\ u[j] = s[j]
      BY <1>4, <2>2
    <3> QED BY <2>2, <3>1, Zenon DEF Distinct
  <2>3. CASE i - Len(s) \in DOMAIN t /\ u[i] = t[i - Len(s)] /\ u[i] \in Range(t)
    <3>1. j - Len(s) \in DOMAIN t /\ u[j] = t[j - Len(s)]
      BY <1>4, <2>3
    <3>2. i - Len(s) = j - Len(s)
      BY <2>3, <3>1, Zenon DEF Distinct
    <3> QED BY <1>1, <2>1, <3>2
  <2> QED BY <1>4, <2>2, <2>3
<1>6. Range(u) = Range(s) \cup Range(t)
  <2>1. Range(u) \subseteq Range(s) \cup Range(t)
    <3>1. \A i \in DOMAIN u : u[i] \in Range(s) \cup Range(t)
      BY <1>4
    <3> QED BY <3>1, Zenon DEF Range
  <2>2. \A i \in DOMAIN s : i \in DOMAIN u /\ u[i] = s[i]
    BY <1>1, <1>2 DEF u
  <2>3. \A i \in DOMAIN t : Len(s) + i \in DOMAIN u /\ u[Len(s) + i] = t[i]
    <3>1. \A i \in 1..Len(t) : Len(s) + i \in 1..(Len(s) + Len(t))
      BY <1>1
    <3> QED BY <1>1, <1>3, <3>1, Zenon DEF u
  <2>4. Range(s) \subseteq Range(u) /\ Range(t) \subseteq Range(u)
    BY <2>2, <2>3, Zenon DEF Range
  <2> QED BY <2>1, <2>4
<1> QED BY <1>1, <1>5, <1>6 DEF u

\* The result of a transaction is read: a goes on one by one, w is still to be
\* withdrawn, and live is what is live from now on.
LEMMA ResultAccounts ==
  ASSUME AccInv, [Next]_vars, NEW i \in DOMAIN inflight, NEW a, NEW w,
         adds' = adds, current' = current, closed \subseteq closed',
         withdrawing' = w, w \subseteq withdrawing,
         Accounted(due, a, <<>>, w, Live'),
         sendWithdrawals(due, a, FALSE, Without(inflight, i), Live')
  PROVE  AccInv'
<1>1. TxInv'
  BY TxStep DEF AccInv
<1>2. PICK txs : txs = Without(inflight, i) /\ Idle(FALSE, txs)
  BY ResultLeavesNone, Zenon DEF AccInv
<1>3. ItemsOf(txs) = <<>>
  BY <1>2 DEF Idle, ItemsOf
<1>4. PICK live : live = Live'
  OBVIOUS
<1>5. /\ Accounted(due', alone', ItemsOf(inflight'), w, live)
      /\ ~sending' => due' = <<>> /\ alone' = <<>>
  <2>1. Accounted(due, a, ItemsOf(txs), w, live)
    BY <1>3, <1>4, Zenon
  <2>2. sendWithdrawals(due, a, FALSE, txs, live)
    BY <1>2, <1>4, Zenon
  <2> QED BY <1>2, <2>1, <2>2, SendAccounts
<1> QED BY <1>1, <1>4, <1>5, Zenon DEF AccInv

\* What stays withdrawing when the items b are done with, or wait alone.
LEMMA WithoutItems ==
  ASSUME NEW d, NEW a, NEW b, NEW w, NEW live, NEW less, less \cap w \subseteq live,
         Accounted(d, a, b, w, live)
  PROVE  /\ Accounted(d, a, <<>>, w \ Range(b), less)
         /\ Accounted(d, a \o b, <<>>, w, less)
<1>1. Range(<<>>) = {} /\ Distinct(<<>>) /\ <<>> \in Seq(Monitors) /\ Len(<<>>) <= MaxBatch
  BY BatchAssumption DEF Range, Distinct
<1>2. Accounted(d, a, b, w, less)
  BY FewerLive
<1>3. Queued(d, a, <<>>)
  BY <1>1, <1>2, Zenon DEF Accounted, Queued
<1>4. Accounted(d, a, <<>>, w \ Range(b), less)
  BY <1>1, <1>2, <1>3, Zenon DEF Accounted, Queued, Pending
<1>5. PICK e \in Seq(Monitors) : e = a \o b /\ Distinct(e) /\ Range(e) = Range(a) \cup Range(b)
  BY <1>2, ConcatFacts DEF Accounted, Queued
<1>6. Queued(d, e, <<>>)
  BY <1>1, <1>2, <1>5, Zenon DEF Accounted, Queued
<1>7. Accounted(d, e, <<>>, w, less)
  BY <1>1, <1>2, <1>5, <1>6, Zenon DEF Accounted, Pending
<1> QED BY <1>4, <1>5, <1>7, Zenon

LEMMA ResultsAccount ==
  ASSUME AccInv, Results
  PROVE  AccInv'
<1>1. PICK i \in DOMAIN inflight :
        WithdrawSucceeded(i) \/ BatchFailed(i) \/ WithdrawFailed(i) \/ WithdrawFoundClosed(i)
  BY DEF Results
<1>2. [Next]_vars
  BY DEF Next
<1>3. PICK b : b = inflight[i].items /\ b = ItemsOf(inflight)
  BY ResultItems DEF AccInv
<1>4. Accounted(due, alone, b, withdrawing, Live) /\ b \in Seq(Monitors)
  BY <1>3, Zenon DEF AccInv, Accounted, Queued
<1>5. adds' = adds /\ current' = current /\ closed \subseteq closed'
  BY <1>1, Zenon DEF WithdrawSucceeded, BatchFailed, WithdrawFailed, WithdrawFoundClosed, monitorVars
<1>6. Live' \subseteq Live
  BY <1>5 DEF Live, Current
<1>7. /\ Accounted(due, alone, <<>>, withdrawing \ Range(b), Live')
      /\ Accounted(due, alone \o b, <<>>, withdrawing, Live')
  BY <1>4, <1>6, WithoutItems
<1>8. \/ /\ withdrawing' = withdrawing \ Range(b)
         /\ sendWithdrawals(due, alone, FALSE, Without(inflight, i), Live')
      \/ /\ withdrawing' = withdrawing
         /\ sendWithdrawals(due, alone \o b, FALSE, Without(inflight, i), Live')
  <2>1. closed' = closed => Live' = Live
    BY <1>5 DEF Live, Current
  <2>2. CASE WithdrawSucceeded(i)
    BY <1>3, <2>1, <2>2, Zenon DEF WithdrawSucceeded
  <2>3. CASE BatchFailed(i)
    BY <1>3, <2>1, <2>3, Zenon DEF BatchFailed, monitorVars
  <2>4. ASSUME Len(b) = 1 PROVE Range(b) = {b[1]}
    <3>1. DOMAIN b = {1}
      BY <1>4, <2>4
    <3> QED BY <3>1, Zenon DEF Range
  <2>5. CASE WithdrawFailed(i)
    BY <1>3, <2>1, <2>4, <2>5, Zenon DEF WithdrawFailed
  <2>6. CASE WithdrawFoundClosed(i)
    <3>1. PICK c : closed' = c /\ closed \subseteq c
                /\ sendWithdrawals(due, alone, FALSE, Without(inflight, i), Live \ c)
      BY <2>6, Zenon DEF WithdrawFoundClosed
    <3>2. Live' = Live \ c
      BY <1>5, <3>1 DEF Live, Current
    <3>3. withdrawing' = withdrawing \ Range(b)
      BY <1>3, <2>4, <2>6, Zenon DEF WithdrawFoundClosed
    <3> QED BY <3>1, <3>2, <3>3, Zenon
  <2> QED BY <1>1, <2>2, <2>3, <2>5, <2>6
<1>9. CASE /\ withdrawing' = withdrawing \ Range(b)
           /\ sendWithdrawals(due, alone, FALSE, Without(inflight, i), Live')
  BY <1>2, <1>5, <1>7, <1>9, ResultAccounts
<1>10. CASE /\ withdrawing' = withdrawing
            /\ sendWithdrawals(due, alone \o b, FALSE, Without(inflight, i), Live')
  BY <1>2, <1>5, <1>7, <1>10, ResultAccounts
<1> QED BY <1>8, <1>9, <1>10

LEMMA AccStep == AccInv /\ [Next]_vars => AccInv'
<1> SUFFICES ASSUME AccInv, [Next]_vars PROVE AccInv'
  OBVIOUS
<1>1. CASE Shutdown \/ UNCHANGED vars
  <2>1. UNCHANGED <<adds, current, closed, withdrawing, due, alone, sending, inflight>>
    BY <1>1, Zenon DEF Shutdown, vars, monitorVars, queueVars
  <2>2. Live' = Live
    BY <2>1 DEF Live, Current
  <2>3. TxInv'
    BY TxStep DEF AccInv
  <2>4. Accounted(due, alone, ItemsOf(inflight), withdrawing, Live)'
    BY <2>1, <2>2, Zenon DEF AccInv
  <2> QED BY <2>1, <2>3, <2>4, Zenon DEF AccInv
<1> QED BY <1>1, ChainAccounts, EventsAccount, CheckAccounts, ResultsAccount, Zenon DEF Next

\* A sequence without repetition holds a monitor once or not at all.
LEMMA OccursOnce ==
  ASSUME NEW s, Distinct(s), NEW m
  PROVE  Occurrences(s, m) = IF m \in Range(s) THEN 1 ELSE 0
<1> DEFINE at == {i \in DOMAIN s : s[i] = m}
<1>1. CASE m \in Range(s)
  <2>1. PICK i \in DOMAIN s : s[i] = m
    BY <1>1 DEF Range
  <2>2. at = {i}
    BY <2>1, Zenon DEF Distinct
  <2> QED BY <1>1, <2>2, FS_Singleton DEF Occurrences
<1>2. CASE m \notin Range(s)
  <2>1. at = {}
    BY <1>2, Zenon DEF Range
  <2> QED BY <1>2, <2>1, FS_EmptySet DEF Occurrences
<1> QED BY <1>1, <1>2

\* The same for the items of the transaction that is in flight.
LEMMA SentOnce ==
  ASSUME AccInv, NEW m
  PROVE  Cardinality({p \in (DOMAIN inflight) \X (1..MaxBatch) :
                        LET items == inflight[p[1]].items
                        IN p[2] \in DOMAIN items /\ items[p[2]] = m})
           = IF m \in Range(ItemsOf(inflight)) THEN 1 ELSE 0
<1> DEFINE at == {p \in (DOMAIN inflight) \X (1..MaxBatch) :
                    LET items == inflight[p[1]].items
                    IN p[2] \in DOMAIN items /\ items[p[2]] = m}
<1>1. CASE inflight = <<>>
  <2>1. at = {} /\ m \notin Range(ItemsOf(inflight))
    BY <1>1 DEF ItemsOf, Range
  <2> QED BY <2>1, FS_EmptySet, Zenon
<1>2. CASE inflight # <<>>
  <2>1. PICK t : inflight = <<t>>
    BY <1>2 DEF AccInv, TxInv, Idle, Busy
  <2>2. DOMAIN inflight = {1} /\ inflight[1] = t
    BY <2>1
  <2>3. PICK b \in Seq(Monitors) : b = ItemsOf(inflight) /\ Distinct(b) /\ Len(b) <= MaxBatch
    BY DEF AccInv, Accounted, Queued
  <2>4. b = inflight[1].items
    BY <1>2, <2>3 DEF ItemsOf
  <2>5. DOMAIN b \subseteq 1..MaxBatch
    BY <2>3, BatchAssumption
  <2>6. CASE m \in Range(b)
    <3>1. PICK j \in DOMAIN b : b[j] = m
      BY <2>6 DEF Range
    <3>2. <<1, j>> \in at
      BY <2>2, <2>4, <2>5, <3>1
    <3>3. ASSUME NEW p \in at PROVE p = <<1, j>>
      <4>1. PICK x \in DOMAIN inflight, y \in 1..MaxBatch : p = <<x, y>>
        OBVIOUS
      <4>2. x = 1 /\ y \in DOMAIN b /\ b[y] = m
        BY <2>2, <2>4, <4>1
      <4>3. y = j
        BY <2>3, <3>1, <4>2, Zenon DEF Distinct
      <4> QED BY <4>1, <4>2, <4>3
    <3>4. at = {<<1, j>>}
      BY <3>2, <3>3, Zenon
    <3> QED BY <2>3, <2>6, <3>4, FS_Singleton, Zenon
  <2>7. CASE m \notin Range(b)
    <3>1. at = {}
      <4> SUFFICES ASSUME NEW p \in at PROVE FALSE
        BY Zenon
      <4>1. PICK x \in DOMAIN inflight, y \in 1..MaxBatch : p = <<x, y>>
        OBVIOUS
      <4>2. y \in DOMAIN b /\ b[y] = m
        BY <2>2, <2>4, <4>1
      <4> QED BY <2>7, <4>2, Zenon DEF Range
    <3> QED BY <2>3, <2>7, <3>1, FS_EmptySet, Zenon
  <2> QED BY <2>6, <2>7
<1> QED BY <1>1, <1>2

\* Every withdrawal is queued or in flight exactly once, its flag is set only
\* as long, and nothing waits in a queue that no result will send: for any
\* number of leases, any batch size, and whatever checks, removals, failures
\* and results come in between.
THEOREM EveryWithdrawalAccounted == Spec => []WithdrawalAccounted
<1>1. Init => AccInv
  <2> SUFFICES ASSUME Init PROVE AccInv
    OBVIOUS
  <2>1. Range(<<>>) = {} /\ Distinct(<<>>) /\ <<>> \in Seq(Monitors) /\ Len(<<>>) <= MaxBatch
    BY BatchAssumption DEF Range, Distinct
  <2>2. ItemsOf(inflight) = <<>> /\ due = <<>> /\ alone = <<>> /\ withdrawing = {}
    BY DEF Init, ItemsOf
  <2>3. Accounted(due, alone, ItemsOf(inflight), withdrawing, Live)
    BY <2>1, <2>2 DEF Accounted, Queued, Pending
  <2>4. TxInv
    BY DEF Init, TxInv, Idle
  <2> QED BY <2>2, <2>3, <2>4, AddsAssumption DEF Init, AccInv
<1>2. ASSUME AccInv PROVE WithdrawalAccounted
  <2>1. NothingStalls
    BY <1>2 DEF AccInv, NothingStalls
  <2> DEFINE b == ItemsOf(inflight)
  <2>2. ASSUME NEW m \in Monitors
        PROVE  /\ Outstanding(m) <= 1
               /\ Outstanding(m) = 1 => m \in withdrawing
               /\ m \in withdrawing \cap Live => Outstanding(m) = 1
    <3>1. /\ Distinct(due) /\ Distinct(alone)
          /\ Range(due) \cap Range(alone) = {} /\ Range(due) \cap Range(b) = {}
          /\ Range(alone) \cap Range(b) = {}
          /\ Range(due) \cup Range(alone) \cup Range(b) \subseteq withdrawing
          /\ withdrawing \cap Live \subseteq Range(due) \cup Range(alone) \cup Range(b)
      BY <1>2, Zenon DEF AccInv, Accounted, Queued, Pending
    <3>2. Outstanding(m) = (IF m \in Range(due) THEN 1 ELSE 0) + (IF m \in Range(alone) THEN 1 ELSE 0)
                             + (IF m \in Range(b) THEN 1 ELSE 0)
      BY <1>2, <3>1, OccursOnce, SentOnce, Zenon DEF Outstanding
    <3> HIDE DEF b
    <3> QED BY <3>1, <3>2
  <2> QED BY <2>1, <2>2 DEF WithdrawalAccounted
<1>3. QED
  BY <1>1, <1>2, AccStep, PTL DEF Spec
================================================================================
