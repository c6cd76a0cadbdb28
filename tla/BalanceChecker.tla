----------------------------- MODULE BalanceChecker ----------------------------
(***************************************************************************)
(* The funds monitor of the provider, balance_checker.go: it checks the    *)
(* escrow of every monitored lease, withdraws the provider's earnings when *)
(* they fall due, and reports leases whose escrow is closed.               *)
(*                                                                         *)
(* A monitor <<l, g>> is the leaseState that the g-th LeaseAddFundsMonitor *)
(* of lease l created; bc.leases[l] is the current one.  The add also      *)
(* starts a chain of funds checks, of which every one that is read starts  *)
(* the next.  A chain only knows its lease: when the lease was removed and *)
(* added again, a check of the old chain is read on behalf of the new      *)
(* monitor.                                                                *)
(*                                                                         *)
(* Time is counted in funds check intervals: a withdrawal falls due when   *)
(* the countdown of its monitor has run out.                               *)
(***************************************************************************)
EXTENDS Naturals, Sequences, FiniteSets, Functions

CONSTANTS
  Leases,
  MaxAdds,     \* bound on how often a lease is added
  MaxBatch,    \* maxWithdrawBatch
  Period       \* WithdrawalPeriod, in check intervals; 0: withdrawals are off

ASSUME AddsAssumption == MaxAdds \in Nat

ASSUME BatchAssumption == MaxBatch \in Nat \ {0}

Monitors == Leases \X (1..MaxAdds)

VARIABLES
  escrow,       \* the chain: payment and account of a lease
  adds,         \* how often a lease was added
  current,      \* bc.leases: the monitor of a lease, 0 for none
  closed,       \* monitors whose lease was reported closed
  withdrawing,  \* monitors with a withdrawal outstanding
  retry,        \* monitors whose withdrawal failed (retryWithdraw)
  countdown,    \* scheduledWithdrawAt
  tm,           \* lState.tm: the chain whose timer the monitor can stop
  check,        \* the funds check of a chain
  due, alone,   \* withdrawQueue
  sending,
  inflight,     \* transactions whose result the loop has not read
  running       \* the loop

chainVars   == <<escrow>>
monitorVars == <<adds, current, closed, withdrawing, retry, countdown>>
checkVars   == <<tm, check>>
queueVars   == <<due, alone, sending, inflight>>

vars == <<chainVars, monitorVars, checkVars, queueVars, running>>

Escrows == {"funded", "empty", "closed"}

Phases == {"none", "timer", "running", "answered"}

\* What a check found out; "scheduled" is respStateScheduledWithdraw.
Answers == {"none", "error", "closed", "outOfFunds", "next"}

Checks == [phase : Phases, scheduled : BOOLEAN, answer : Answers]

NoCheck == [phase |-> "none", scheduled |-> FALSE, answer |-> "none"]

Timer(scheduled) == [phase |-> "timer", scheduled |-> scheduled, answer |-> "none"]

Outcomes == {"pending", "ok", "escrowClosed", "other"}

Transactions == [items : Seq(Monitors), outcome : Outcomes]

TypeOK ==
  /\ escrow \in [Leases -> Escrows]
  /\ adds \in [Leases -> 0..MaxAdds]
  /\ current \in [Leases -> 0..MaxAdds]
  /\ closed \subseteq Monitors /\ withdrawing \subseteq Monitors /\ retry \subseteq Monitors
  /\ countdown \in [Monitors -> 0..Period]
  /\ tm \in [Monitors -> 0..MaxAdds]
  /\ check \in [Monitors -> Checks]
  /\ due \in Seq(Monitors) /\ alone \in Seq(Monitors)
  /\ sending \in BOOLEAN
  /\ inflight \in Seq(Transactions)
  /\ running \in BOOLEAN

Init ==
  /\ escrow = [l \in Leases |-> "funded"]
  /\ adds = [l \in Leases |-> 0]
  /\ current = [l \in Leases |-> 0]
  /\ closed = {} /\ withdrawing = {} /\ retry = {}
  /\ countdown = [m \in Monitors |-> 0]
  /\ tm = [m \in Monitors |-> 0]
  /\ check = [m \in Monitors |-> NoCheck]
  /\ due = <<>> /\ alone = <<>>
  /\ sending = FALSE
  /\ inflight = <<>>
  /\ running = TRUE

-----------------------------------------------------------------------------
(***************************************************************************)
(* The chain.                                                              *)
(***************************************************************************)

EscrowChanges(l, e) ==
  /\ escrow[l] # "closed" /\ escrow[l] # e
  /\ escrow' = [escrow EXCEPT ![l] = e]
  /\ UNCHANGED <<monitorVars, checkVars, queueVars, running>>

\* The transaction is executed: it withdraws from all of its leases or from
\* none, and settles the escrow of a lease that is out of funds.
Execute(i) ==
  LET leases == {m[1] : m \in Range(inflight[i].items)}
  IN /\ inflight[i].outcome = "pending"
     /\ \A l \in leases : escrow[l] # "closed"
     /\ escrow' = [l \in Leases |->
                     IF l \in leases /\ escrow[l] = "empty" THEN "closed" ELSE escrow[l]]
     /\ inflight' = [inflight EXCEPT ![i].outcome = "ok"]
     /\ UNCHANGED <<monitorVars, checkVars, due, alone, sending, running>>

\* BroadcastMsgs returns an error: the escrow of a lease is closed, or any
\* other (no connection, no gas, a failed simulation).
BroadcastFails(i, outcome) ==
  /\ inflight[i].outcome = "pending"
  /\ outcome = "escrowClosed" => \E m \in Range(inflight[i].items) : escrow[m[1]] = "closed"
  /\ inflight' = [inflight EXCEPT ![i].outcome = outcome]
  /\ UNCHANGED <<chainVars, monitorVars, checkVars, due, alone, sending, running>>

-----------------------------------------------------------------------------
(***************************************************************************)
(* The queue of withdrawals.                                               *)
(***************************************************************************)

\* An item leaves the queue and is kept if it is live.
Pop(kept, m, live) == IF m \in live THEN Append(kept, m) ELSE kept

\* What is kept of the first k items of q, for every k.
Kept(q, live) ==
  LET kept[k \in 0..Len(q)] == IF k = 0 THEN <<>> ELSE Pop(kept[k - 1], q[k], live)
  IN kept

\* Take items of q until n of them are live, or q is empty.  Items that are
\* not live are dropped on the way.
Take(q, n, live) ==
  LET kept == Kept(q, live)
      last == CHOOSE k \in 0..Len(q) :
                /\ Len(kept[k]) = n \/ k = Len(q)
                /\ \A j \in 0..(k - 1) : Len(kept[j]) # n
  IN [batch |-> kept[last], rest |-> SubSeq(q, last + 1, Len(q))]

\* withdrawQueue.next: one withdrawal of a failed batch, otherwise a batch.
next(d, a, live) ==
  LET single == Take(a, 1, live)
      many   == Take(d, MaxBatch, live)
  IN IF single.batch # <<>>
     THEN [batch |-> single.batch, due |-> d, alone |-> single.rest]
     ELSE [batch |-> many.batch, due |-> many.rest, alone |-> single.rest]

\* sendWithdrawals with the queues d and a, the transactions txs of which one
\* is in flight if busy, and the monitors that are still to be withdrawn from.
sendWithdrawals(d, a, busy, txs, live) ==
  LET n == next(d, a, live)
  IN IF busy
     THEN due' = d /\ alone' = a /\ sending' = TRUE /\ inflight' = txs
     ELSE /\ due' = n.due /\ alone' = n.alone
          /\ sending' = (n.batch # <<>>)
          /\ inflight' = IF n.batch = <<>> THEN txs
                         ELSE Append(txs, [items |-> n.batch, outcome |-> "pending"])

Current(m) == current[m[1]] = m[2]

Live == {m \in Monitors : Current(m) /\ m \notin closed}

-----------------------------------------------------------------------------
(***************************************************************************)
(* The events of the bus.                                                  *)
(***************************************************************************)

\* A new lease is checked at once, a lease found at startup after a while and
\* with its first withdrawal at a random time of the period.
LeaseAddFundsMonitor(l, isNewLease) ==
  LET m == <<l, adds[l] + 1>>
  IN /\ running
     /\ current[l] = 0 /\ adds[l] < MaxAdds
     /\ adds' = [adds EXCEPT ![l] = @ + 1]
     /\ current' = [current EXCEPT ![l] = adds[l] + 1]
     /\ \E first \in IF isNewLease \/ Period = 0 THEN {Period} ELSE 0..(Period - 1) :
          countdown' = [countdown EXCEPT ![m] = first]
     /\ check' = [check EXCEPT ![m] =
                    [Timer(FALSE) EXCEPT !.phase = IF isNewLease THEN "running" ELSE "timer"]]
     /\ tm' = [tm EXCEPT ![m] = IF isNewLease THEN 0 ELSE m[2]]
     /\ UNCHANGED <<chainVars, closed, withdrawing, retry, queueVars, running>>

LeaseRemoveFundsMonitor(l) ==
  LET m == <<l, current[l]>>
      c == <<l, tm[m]>>
  IN /\ running
     /\ current[l] # 0
     /\ current' = [current EXCEPT ![l] = 0]
     /\ check' = IF tm[m] # 0 /\ check[c].phase = "timer" THEN [check EXCEPT ![c] = NoCheck]
                                                           ELSE check
     /\ UNCHANGED <<chainVars, adds, closed, withdrawing, retry, countdown, tm, queueVars, running>>

-----------------------------------------------------------------------------
(***************************************************************************)
(* The funds checks.                                                       *)
(***************************************************************************)

\* The timer of a check fires; the time it ran has passed for the monitor.
TimerFires(c) ==
  /\ running
  /\ check[c].phase = "timer"
  /\ check' = [check EXCEPT ![c].phase = "running"]
  /\ countdown' = [countdown EXCEPT ![c] = IF @ > 0 THEN @ - 1 ELSE 0]
  /\ UNCHANGED <<chainVars, adds, current, closed, withdrawing, retry, tm, queueVars, running>>

\* doEscrowCheck reads the node, the lease, its payment and its account.
Found(l) == CASE escrow[l] = "closed" -> "closed"
              [] escrow[l] = "empty"  -> "outOfFunds"
              [] escrow[l] = "funded" -> "next"

doEscrowCheck(c, answer) ==
  /\ running
  /\ check[c].phase = "running"
  /\ answer \in {"error", Found(c[1])}
  /\ check' = [check EXCEPT ![c].phase = "answered", ![c].answer = answer]
  /\ UNCHANGED <<chainVars, monitorVars, tm, queueVars, running>>

Answered(c) == running /\ check[c].phase = "answered"

MonitorOf(c) == <<c[1], current[c[1]]>>

Watched(l) == current[l] # 0 /\ <<l, current[l]>> \notin closed

\* The next check of chain c is scheduled, by the monitor of its lease.
Schedule(c, scheduled) ==
  /\ check' = [check EXCEPT ![c] = Timer(scheduled)]
  /\ tm' = [tm EXCEPT ![MonitorOf(c)] = c[2]]

\* The lease was removed or reported closed: the chain ends.
CheckIgnored(c) ==
  /\ Answered(c)
  /\ ~Watched(c[1])
  /\ check' = [check EXCEPT ![c] = NoCheck]
  /\ UNCHANGED <<chainVars, monitorVars, tm, queueVars, running>>

\* The lease is closed and EventLeaseClosed is published: the chain ends.
CheckReportsClosed(c) ==
  /\ Answered(c)
  /\ Watched(c[1])
  /\ check[c].answer = "closed"
  /\ closed' = closed \cup {MonitorOf(c)}
  /\ check' = [check EXCEPT ![c] = NoCheck]
  /\ UNCHANGED <<chainVars, adds, current, withdrawing, retry, countdown, tm, queueVars, running>>

\* The check failed, or EventLeaseClosed could not be published: again in a minute.
CheckFailed(c) ==
  /\ Answered(c)
  /\ Watched(c[1])
  /\ check[c].answer \in {"error", "closed"}
  /\ Schedule(c, check[c].scheduled)
  /\ UNCHANGED <<chainVars, monitorVars, queueVars, running>>

\* A withdrawal of m is queued, unless one is outstanding.
Enqueue(m) ==
  IF m \in withdrawing
  THEN UNCHANGED <<withdrawing, retry, queueVars>>
  ELSE /\ withdrawing' = withdrawing \cup {m}
       /\ retry' = retry \ {m}
       /\ sendWithdrawals(Append(due, m), alone, sending, inflight, Live)

CheckRead(c) ==
  LET m == MonitorOf(c)
      withdraw == /\ check[c].answer = "outOfFunds" \/ check[c].scheduled \/ m \in retry
                  /\ Period > 0
  IN /\ Answered(c)
     /\ Watched(c[1])
     /\ check[c].answer \in {"outOfFunds", "next"}
     /\ Schedule(c, ~withdraw /\ Period > 0 /\ countdown[m] <= 1)
     /\ \/ /\ withdraw
           /\ countdown' = [countdown EXCEPT ![m] = Period]
           /\ Enqueue(m)
        \/ /\ ~withdraw
           /\ UNCHANGED <<countdown, withdrawing, retry, queueVars>>
     /\ UNCHANGED <<chainVars, adds, current, closed, running>>

-----------------------------------------------------------------------------
(***************************************************************************)
(* The results of the transactions.                                        *)
(***************************************************************************)

Without(s, i) == SubSeq(s, 1, i - 1) \o SubSeq(s, i + 1, Len(s))

Result(i, outcomes) == running /\ inflight[i].outcome \in outcomes

\* Mutant: the result is booked to the lease's monitor of now.
WithdrawSucceededByLease(i) ==
  /\ Result(i, {"ok"})
  /\ withdrawing' = withdrawing \ {MonitorOf(m) : m \in Range(inflight[i].items)}
  /\ sendWithdrawals(due, alone, FALSE, Without(inflight, i), Live)
  /\ UNCHANGED <<chainVars, adds, current, closed, retry, countdown, checkVars, running>>

WithdrawSucceeded(i) ==
  /\ Result(i, {"ok"})
  /\ withdrawing' = withdrawing \ Range(inflight[i].items)
  /\ sendWithdrawals(due, alone, FALSE, Without(inflight, i), Live)
  /\ UNCHANGED <<chainVars, adds, current, closed, retry, countdown, checkVars, running>>

BatchFailed(i) ==
  /\ Result(i, {"escrowClosed", "other"})
  /\ Len(inflight[i].items) > 1
  /\ sendWithdrawals(due, alone \o inflight[i].items, FALSE, Without(inflight, i), Live)
  /\ UNCHANGED <<chainVars, monitorVars, checkVars, running>>

\* withdrawFailed: the failure is retried at the next funds check ...
WithdrawFailed(i) ==
  LET m == inflight[i].items[1]
  IN /\ Result(i, {"escrowClosed", "other"})
     /\ Len(inflight[i].items) = 1
     /\ m \in Live => inflight[i].outcome = "other"
     /\ withdrawing' = withdrawing \ {m}
     /\ retry' = IF m \in Live THEN retry \cup {m} ELSE retry
     /\ sendWithdrawals(due, alone, FALSE, Without(inflight, i), Live)
     /\ UNCHANGED <<chainVars, adds, current, closed, countdown, checkVars, running>>

\* ... and a closed escrow is reported, or left to the scheduled funds check
\* when EventLeaseClosed cannot be published.
WithdrawFoundClosed(i) ==
  LET m == inflight[i].items[1]
  IN /\ Result(i, {"escrowClosed"})
     /\ Len(inflight[i].items) = 1
     /\ m \in Live
     /\ withdrawing' = withdrawing \ {m}
     /\ \E published \in BOOLEAN :
          LET c == IF published THEN closed \cup {m} ELSE closed
          IN /\ closed' = c
             /\ sendWithdrawals(due, alone, FALSE, Without(inflight, i), Live \ c)
     /\ UNCHANGED <<chainVars, adds, current, retry, countdown, checkVars, running>>

Shutdown ==
  /\ running
  /\ running' = FALSE
  /\ UNCHANGED <<chainVars, monitorVars, checkVars, queueVars>>

-----------------------------------------------------------------------------
Chain ==
  \/ \E l \in Leases, e \in Escrows : EscrowChanges(l, e)
  \/ \E i \in DOMAIN inflight :
       Execute(i) \/ \E o \in {"escrowClosed", "other"} : BroadcastFails(i, o)

Events ==
  \E l \in Leases : LeaseRemoveFundsMonitor(l) \/ \E new \in BOOLEAN : LeaseAddFundsMonitor(l, new)

Check(c) ==
  \/ TimerFires(c)
  \/ \E answer \in Answers : doEscrowCheck(c, answer)
  \/ CheckIgnored(c) \/ CheckReportsClosed(c) \/ CheckFailed(c) \/ CheckRead(c)

Results ==
  \E i \in DOMAIN inflight :
    WithdrawSucceeded(i) \/ BatchFailed(i) \/ WithdrawFailed(i) \/ WithdrawFoundClosed(i)

Next == Chain \/ Events \/ (\E c \in Monitors : Check(c)) \/ Results \/ Shutdown

Spec == Init /\ [][Next]_vars

-----------------------------------------------------------------------------
(***************************************************************************)
(* Fairness.  Timers fire, goroutines run and the loop reads its channels; *)
(* the node, the bus and the tx client fail, but not forever.              *)
(***************************************************************************)
Fairness ==
  /\ \A c \in Monitors :
       /\ WF_vars(TimerFires(c))
       /\ WF_vars(\E answer \in Answers : doEscrowCheck(c, answer))
       /\ SF_vars(\E answer \in Answers \ {"error"} : doEscrowCheck(c, answer))
       /\ WF_vars(CheckIgnored(c) \/ CheckFailed(c) \/ CheckRead(c))
       /\ SF_vars(CheckReportsClosed(c))
  /\ WF_vars(\E i \in DOMAIN inflight :
               Execute(i) \/ \E o \in {"escrowClosed", "other"} : BroadcastFails(i, o))
  /\ WF_vars(Results)

FairSpec == Spec /\ Fairness

-----------------------------------------------------------------------------
(***************************************************************************)
(* Properties.                                                             *)
(***************************************************************************)

Occurrences(s, m) == Cardinality({i \in DOMAIN s : s[i] = m})

Outstanding(m) ==
  Occurrences(due, m) + Occurrences(alone, m)
    + Cardinality({p \in (DOMAIN inflight) \X (1..MaxBatch) :
                     LET items == inflight[p[1]].items
                     IN p[2] \in DOMAIN items /\ items[p[2]] = m})

\* No withdrawal waits in a queue while no transaction is in flight: nothing
\* would send it until another one falls due.
NothingStalls == running /\ ~sending => due = <<>> /\ alone = <<>>

\* A monitor's withdrawal is never queued or sent twice, and the flag that keeps
\* the next one back (leaseState.withdrawing) is set only while there really is
\* one: a flag left over would stop withdrawals from the lease for good. And what
\* is queued is on its way: a transaction is in flight whose result sends it.
WithdrawalAccounted ==
  /\ \A m \in Monitors :
       /\ Outstanding(m) <= 1
       /\ Outstanding(m) = 1 => m \in withdrawing
       /\ m \in withdrawing \cap Live => Outstanding(m) = 1
  /\ NothingStalls

\* "The checker keeps at most one withdrawal transaction in flight", and knows
\* whether there is one.
OneTransaction ==
  /\ Len(inflight) <= 1
  /\ sending <=> inflight # <<>>

\* A lease that is monitored and not reported closed always has its next funds
\* check on the way, also after it was removed and added again while a check of
\* the old monitor was running.
KeepsChecking == running => \A m \in Live : check[m].phase # "none"

\* A lease that is closed on chain while it is monitored is reported, whatever
\* its monitor was doing and however often checks and publishing failed before.
ClosedIsReported ==
  \A l \in Leases : []<>(escrow[l] = "closed" /\ Watched(l) => ~running)
================================================================================
