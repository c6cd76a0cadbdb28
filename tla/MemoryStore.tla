------------------------------ MODULE MemoryStore ------------------------------
(* The persistent configuration of a provider that was given no file
   (tools/pconfig/memory/memory.go): a map under a lock, which every method
   holds from its first look at the map to its last change of it. *)
EXTENDS Naturals

CONSTANTS
  Accounts, Keys, Serials, Certs,
  None,
  MaxMemOps        \* bound: calls that change the map

VARIABLES
  held,            \* accounts: the key and the certificates of each
  bidengine,       \* the bid engine's page key
  memAnswer,       \* how the last call ended
  memOps

memVars == <<held, bidengine, memAnswer, memOps>>

NoCerts == [s \in Serials |-> None]

Init ==
  /\ held = [a \in Accounts |-> None] /\ bidengine = None
  /\ memAnswer = "none" /\ memOps = 0

Call == memOps < MaxMemOps /\ memOps' = memOps + 1
Answer(r) == memAnswer' = r /\ UNCHANGED <<held, bidengine>>
Set(m) == held' = m /\ memAnswer' = "ok" /\ UNCHANGED bidengine

AddAccount(a, k) ==
  /\ Call
  /\ IF held[a] # None THEN Answer("account exists")
     ELSE Set([held EXCEPT ![a] = [key |-> k, certs |-> NoCerts]])

DelAccount(a) ==
  /\ Call
  /\ IF held[a] = None THEN Answer("account not exists") ELSE Set([held EXCEPT ![a] = None])

\* Mutant: a certificate of the same serial number is replaced.
replaceCertificate(a, s, c) ==
  /\ Call
  /\ IF held[a] = None THEN Answer("account not exists")
     ELSE Set([held EXCEPT ![a].certs[s] = c])

AddAccountCertificate(a, s, c) ==
  /\ Call
  /\ IF held[a] = None THEN Answer("account not exists")
     ELSE IF held[a].certs[s] # None THEN Answer("certificate exists")
     ELSE Set([held EXCEPT ![a].certs[s] = c])

\* A certificate that is not there is no error.
DelAccountCertificate(a, s) ==
  /\ Call
  /\ IF held[a] = None THEN Answer("account not exists")
     ELSE Set([held EXCEPT ![a].certs[s] = None])

SetOrdersNextKey(k) ==
  /\ Call /\ bidengine' = k /\ memAnswer' = "ok"
  /\ UNCHANGED held

GetAccountPublicKey(a) == IF held[a] = None THEN None ELSE held[a].key
GetAccountCertificate(a, s) == IF held[a] = None THEN None ELSE held[a].certs[s]

Next ==
  \/ \E a \in Accounts :
       \/ \E k \in Keys : AddAccount(a, k)
       \/ DelAccount(a)
       \/ \E s \in Serials :
            (\E c \in Certs : AddAccountCertificate(a, s, c)) \/ DelAccountCertificate(a, s)
  \/ \E k \in Keys : SetOrdersNextKey(k)

Spec == Init /\ [][Next]_memVars

\* The map, as the interface's readers see it.
storedAccounts ==
  [a \in Accounts |->
     IF held[a] = None THEN None
     ELSE [key |-> GetAccountPublicKey(a),
           certs |-> [s \in Serials |-> GetAccountCertificate(a, s)]]]

Store == INSTANCE AccountStore WITH accounts <- storedAccounts, nextkey <- bidengine

\* The map in memory behaves as the interface promises.
ImplementsStore == Store!Spec
=============================================================================
