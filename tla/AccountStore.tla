----------------------------- MODULE AccountStore -----------------------------
(* What pconfig.Storage promises (tools/pconfig/pconfig.go): a map of accounts
   with their public keys and certificates, and the page key of the bid
   engine's order scan.  Every operation happens at once or not at all, an
   account always has its key, and a certificate is never replaced. *)
CONSTANTS
  Accounts, Keys, Serials, Certs,
  None             \* no account, certificate or page key

VARIABLES
  accounts,        \* per account its key and certificates, or None
  nextkey          \* the bid engine's page key

storeVars == <<accounts, nextkey>>

NoCerts == [s \in Serials |-> None]
PageKeys == Keys

Init ==
  /\ accounts = [a \in Accounts |-> None]
  /\ nextkey = None

AddAccount(a, k) ==
  /\ accounts[a] = None
  /\ accounts' = [accounts EXCEPT ![a] = [key |-> k, certs |-> NoCerts]]
  /\ UNCHANGED nextkey

DelAccount(a) ==
  /\ accounts' = [accounts EXCEPT ![a] = None]
  /\ UNCHANGED nextkey

AddAccountCertificate(a, s, c) ==
  /\ accounts[a] # None /\ accounts[a].certs[s] = None
  /\ accounts' = [accounts EXCEPT ![a].certs[s] = c]
  /\ UNCHANGED nextkey

DelAccountCertificate(a, s) ==
  /\ accounts[a] # None
  /\ accounts' = [accounts EXCEPT ![a].certs[s] = None]
  /\ UNCHANGED nextkey

SetOrdersNextKey(k) ==
  /\ nextkey' = k
  /\ UNCHANGED accounts

Next ==
  \/ \E a \in Accounts :
       \/ \E k \in Keys : AddAccount(a, k)
       \/ DelAccount(a)
       \/ \E s \in Serials :
            (\E c \in Certs : AddAccountCertificate(a, s, c)) \/ DelAccountCertificate(a, s)
  \/ \E k \in PageKeys : SetOrdersNextKey(k)

Spec == Init /\ [][Next]_storeVars
=============================================================================
