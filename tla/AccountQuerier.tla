---------------------------- MODULE AccountQuerier ----------------------------
(* The account querier of the provider (cmd/provider-services/cmd/certs.go):
   the public keys of the owners of its leases, and of whoever calls the
   gateway, are fetched from the chain once and kept in the persistent store.
   One goroutine works off the requests for accounts, one those for
   certificates, one walks over the active leases at the start, and run follows
   the events.  A request that could not be answered is put back; one that a
   caller waits for carries a channel of one slot for the answer. *)
EXTENDS Naturals, Sequences, FiniteSets, SequencesExt

CONSTANTS
  KeyCallers, CertCallers,   \* calls of GetAccountPublicKey and GetAccountCertificate
  OwnerOf,                   \* the account each call is about
  Pages,                     \* pages of owners of the leases active at the start
  LateOwners,                \* owners of leases won later
  ChanSize,                  \* the slots of accCh
  Nobody,                    \* the caller of a request without an answer channel
  MaxAqFaults

VARIABLES
  accCh, prio, signal,       \* accCh, prioRequests and signalch
  sending,                   \* requests whose answer is being sent: at most one
  keys, certs,               \* what the store holds
  wins, blocked,             \* LeaseWon events on the bus, and the send run waits in
  page, owners,              \* the pages read and the owners of it left to send
  peerCh, certSending,       \* peerCertCh, and the answer certsQuerier sends
  aqCall, slot,              \* calls and their answer channels
  aqFaults

accVars == <<accCh, prio, signal, sending, keys>>
certVars == <<certs, peerCh, certSending>>
callVars == <<aqCall, slot>>
leaseVars == <<page, owners>>
aqVars == <<accVars, certVars, callVars, leaseVars, wins, blocked, aqFaults>>

Callers == KeyCallers \cup CertCallers
Owners == LateOwners \cup UNION {Range(Pages[n]) : n \in DOMAIN Pages}
req(a, c) == [acc |-> a, caller |-> c]

Init ==
  /\ accCh = <<>> /\ prio = <<>> /\ signal = FALSE /\ sending = <<>> /\ keys = {}
  /\ wins = LateOwners /\ blocked = {}
  /\ page = 0 /\ owners = <<>>
  /\ certs = {} /\ peerCh = <<>> /\ certSending = <<>>
  /\ aqCall = [c \in Callers |-> "none"] /\ slot = [c \in Callers |-> <<>>]
  /\ aqFaults = 0

Fault == aqFaults < MaxAqFaults /\ aqFaults' = aqFaults + 1

-----------------------------------------------------------------------------
\* A call is answered from the store, or asks and waits until its context ends.
GetAccountPublicKey(c) ==
  /\ aqCall[c] = "none"
  /\ \/ OwnerOf[c] \in keys /\ aqCall' = [aqCall EXCEPT ![c] = "done"] /\ UNCHANGED accCh
     \/ /\ OwnerOf[c] \notin keys /\ Len(accCh) < ChanSize
        /\ accCh' = Append(accCh, req(OwnerOf[c], c))
        /\ aqCall' = [aqCall EXCEPT ![c] = "wait"]
  /\ UNCHANGED <<prio, signal, sending, keys, certVars, slot, leaseVars, wins, blocked, aqFaults>>

GetAccountCertificate(c) ==
  /\ aqCall[c] = "none"
  /\ \/ OwnerOf[c] \in certs /\ aqCall' = [aqCall EXCEPT ![c] = "done"] /\ UNCHANGED peerCh
     \/ /\ OwnerOf[c] \notin certs /\ peerCh = <<>>
        /\ peerCh' = <<req(OwnerOf[c], c)>>
        /\ aqCall' = [aqCall EXCEPT ![c] = "wait"]
  /\ UNCHANGED <<accVars, certs, certSending, slot, leaseVars, wins, blocked, aqFaults>>

takeAnswer(c) ==
  /\ aqCall[c] = "wait" /\ slot[c] # <<>>
  /\ aqCall' = [aqCall EXCEPT ![c] = "done"] /\ slot' = [slot EXCEPT ![c] = <<>>]
  /\ UNCHANGED <<accVars, certVars, leaseVars, wins, blocked, aqFaults>>

contextEnds(c) ==
  /\ aqCall[c] \in {"none", "wait"} /\ Fault
  /\ aqCall' = [aqCall EXCEPT ![c] = "done"]
  /\ UNCHANGED <<accVars, certVars, slot, leaseVars, wins, blocked>>

-----------------------------------------------------------------------------
\* run hands the owner of a lease that was won on, waiting for room in accCh.
leaseWon ==
  /\ blocked = {}
  /\ \E a \in wins : blocked' = {a} /\ wins' = wins \ {a}
  /\ UNCHANGED <<accVars, certVars, callVars, leaseVars, aqFaults>>

sendWon ==
  /\ Len(accCh) < ChanSize
  /\ \E a \in blocked : accCh' = Append(accCh, req(a, Nobody)) /\ blocked' = {}
  /\ UNCHANGED <<prio, signal, sending, keys, certVars, callVars, leaseVars, wins, aqFaults>>

\* leasesQuerier reads the pages one after the other; a failed read is repeated.
readPage ==
  /\ owners = <<>> /\ page < Len(Pages)
  /\ page' = page + 1 /\ owners' = Pages[page + 1]
  /\ UNCHANGED <<accVars, certVars, callVars, wins, blocked, aqFaults>>

sendOwner ==
  /\ owners # <<>> /\ Len(accCh) < ChanSize
  /\ accCh' = Append(accCh, req(Head(owners), Nobody)) /\ owners' = Tail(owners)
  /\ UNCHANGED <<prio, signal, sending, keys, certVars, callVars, page, wins, blocked, aqFaults>>

-----------------------------------------------------------------------------
takeRequest ==
  /\ sending = <<>> /\ accCh # <<>>
  /\ prio' = Append(prio, Head(accCh)) /\ accCh' = Tail(accCh) /\ signal' = TRUE
  /\ UNCHANGED <<sending, keys, certVars, callVars, leaseVars, wins, blocked, aqFaults>>

\* Mutant: a request that failed is left to whoever asked.
dropFailed(r, left) == left

putBack(r, left) == Append(left, r)

\* A request is looked up once more in the store, then on the chain; only a
\* failed query puts it back, and the answer is due either way.
takeSignal ==
  LET r == Head(prio) answered == IF r.caller = Nobody THEN <<>> ELSE <<r>> IN
  /\ sending = <<>> /\ signal
  /\ sending' = answered
  /\ \/ /\ prio' = Tail(prio) /\ keys' = keys \cup {r.acc}
        /\ UNCHANGED aqFaults
     \/ /\ r.acc \notin keys /\ Fault
        /\ prio' = putBack(r, Tail(prio)) /\ UNCHANGED keys
  /\ signal' = (answered = <<>> /\ prio' # <<>>)
  /\ UNCHANGED <<accCh, certVars, callVars, leaseVars, wins, blocked>>

\* The answer is sent, and the next request is signalled.
sendAnswer ==
  LET c == Head(sending).caller IN
  /\ sending # <<>> /\ slot[c] = <<>>
  /\ slot' = [slot EXCEPT ![c] = <<"answer">>]
  /\ sending' = <<>> /\ signal' = (prio # <<>>)
  /\ UNCHANGED <<accCh, prio, keys, certVars, aqCall, leaseVars, wins, blocked, aqFaults>>

\* The certificates are looked up on the chain; what is not there, or cannot be
\* read, is answered without being kept, and nothing is put back.
certsQuerier ==
  /\ certSending = <<>> /\ peerCh # <<>>
  /\ peerCh' = <<>> /\ certSending' = peerCh
  /\ certs' \in {certs, certs \cup {Head(peerCh).acc}}
  /\ UNCHANGED <<accVars, callVars, leaseVars, wins, blocked, aqFaults>>

sendCert ==
  LET c == Head(certSending).caller IN
  /\ certSending # <<>> /\ slot[c] = <<>>
  /\ slot' = [slot EXCEPT ![c] = <<"answer">>] /\ certSending' = <<>>
  /\ UNCHANGED <<accVars, certs, peerCh, aqCall, leaseVars, wins, blocked, aqFaults>>

-----------------------------------------------------------------------------
Querier == takeRequest \/ takeSignal \/ sendAnswer
Certs == certsQuerier \/ sendCert
Run == leaseWon \/ sendWon
OwnerPages == readPage \/ sendOwner
Call(c) ==
  \/ c \in KeyCallers /\ GetAccountPublicKey(c)
  \/ c \in CertCallers /\ GetAccountCertificate(c)
  \/ takeAnswer(c)

Next ==
  \/ Querier \/ Certs \/ Run \/ OwnerPages
  \/ \E c \in Callers : Call(c) \/ contextEnds(c)

\* Go's select takes each of the querier's channels in its turn.
Fairness ==
  /\ WF_aqVars(takeRequest) /\ WF_aqVars(takeSignal) /\ WF_aqVars(sendAnswer)
  /\ WF_aqVars(Certs) /\ WF_aqVars(Run) /\ WF_aqVars(OwnerPages)
  /\ \A c \in Callers : WF_aqVars(takeAnswer(c))

Spec == Init /\ [][Next]_aqVars
FairSpec == Spec /\ Fairness

TypeOK ==
  /\ Len(accCh) <= ChanSize /\ Len(sending) <= 1 /\ Len(peerCh) <= 1
  /\ Len(certSending) <= 1
  /\ signal => prio # <<>>
  /\ keys \subseteq Owners \cup Range(OwnerOf) /\ certs \subseteq Range(OwnerOf)
  /\ \A c \in Callers : Len(slot[c]) <= 1

\* The second answer to one call finds the slot of the first taken, and the
\* querier waits for good: a request that fails is both answered and put back.
answeredTwice == \E r \in Range(sending) : aqCall[r.caller] = "done" /\ slot[r.caller] # <<>>

\* Unless an answer was put back with its request, the owners of all leases end
\* up in the store, whatever queries fail on the way, and no call is left waiting.
AskedIsStored ==
  answeredTwice \/ (Owners \subseteq keys /\ \A c \in Callers : aqCall[c] # "wait")
=============================================================================
