------------------------------- MODULE BoltStore -------------------------------
(* The persistent configuration kept in a bbolt file
   (tools/pconfig/bbolt/bbolt.go).  An account is a bucket that holds a public
   key and a bucket of certificates, each a bucket of its own.  A call of
   db.Update works on a copy of the buckets, one write after the other, and
   the file changes when it commits; there is one such call at a time, an
   error rolls it back, and the process may stop at any point. *)
EXTENDS Naturals, FiniteSets

CONSTANTS
  Accounts, Keys, Serials, Certs,
  None,
  MaxBoltOps       \* bound: calls of db.Update

\* None is not what is stored of an account.
ASSUME NoneAssumption == None \notin [key : Keys, certs : [Serials -> Certs \cup {None}]]

VARIABLES
  disk,            \* the committed buckets
  open,            \* the database is open
  tx,              \* the buckets of the running Update, or None
  op,              \* the call that runs it: what it does and what is left of it
  answer,          \* how the last call ended
  boltOps

vars == <<disk, open, tx, op, answer, boltOps>>

\* A certificate's bucket: whether it exists, and what was put into it.
CertBuckets == [bucket : BOOLEAN, cert : Certs \cup {None}, pubkey : BOOLEAN]
AccountBuckets ==
  [bucket : BOOLEAN, pubkey : Keys \cup {None}, certs : BOOLEAN,
   cert : [Serials -> CertBuckets]]
Databases == [accounts : [Accounts -> AccountBuckets], nextkey : Keys \cup {None}]

NoCert == [bucket |-> FALSE, cert |-> None, pubkey |-> FALSE]
NoAccount ==
  [bucket |-> FALSE, pubkey |-> None, certs |-> FALSE, cert |-> [s \in Serials |-> NoCert]]

Ops ==
  [kind : {"addAccount"}, acc : Accounts, key : Keys]
  \cup [kind : {"delAccount"}, acc : Accounts]
  \cup [kind : {"addCert"}, acc : Accounts, serial : Serials, cert : Certs]
  \cup [kind : {"delCert"}, acc : Accounts, serial : Serials]
  \cup [kind : {"nextKey"}, key : Keys]

Init ==
  /\ disk = [accounts |-> [a \in Accounts |-> NoAccount], nextkey |-> None]
  /\ open = TRUE /\ tx = None /\ op = None
  /\ answer = "none" /\ boltOps = 0

-----------------------------------------------------------------------------
\* NewBBolt creates the two top buckets, so that every later call finds them.
NewBBolt ==
  /\ ~open /\ open' = TRUE
  /\ UNCHANGED <<disk, tx, op, answer, boltOps>>

\* Close waits for the running Update, as the database's lock does.
Close ==
  /\ open /\ tx = None /\ open' = FALSE
  /\ UNCHANGED <<disk, tx, op, answer, boltOps>>

\* The process stops: what was not committed is gone.
crash ==
  /\ open /\ open' = FALSE
  /\ tx' = None /\ op' = None
  /\ UNCHANGED <<disk, answer, boltOps>>

\* A call of the interface begins a read-write transaction; a closed database
\* refuses it.
Update(o) ==
  /\ boltOps < MaxBoltOps /\ boltOps' = boltOps + 1 /\ op = None
  /\ IF open THEN op' = [call |-> o, pc |-> 1] /\ tx' = disk /\ UNCHANGED answer
     ELSE answer' = "closed" /\ UNCHANGED <<op, tx>>
  /\ UNCHANGED <<disk, open>>

Running(kind, pc) == op # None /\ op.call.kind = kind /\ op.pc = pc

Write(t) ==
  /\ tx' = t /\ op' = [op EXCEPT !.pc = @ + 1]
  /\ UNCHANGED <<disk, open, answer, boltOps>>

Rollback(err) ==
  /\ tx' = None /\ op' = None /\ answer' = err
  /\ UNCHANGED <<disk, open, boltOps>>

\* The last write of a call and the commit that follows it.
Commit(t) ==
  /\ disk' = t /\ tx' = None /\ op' = None /\ answer' = "ok"
  /\ UNCHANGED <<open, boltOps>>

\* Mutant: the account's bucket is committed before the key is put into it.
createCommitted ==
  /\ Running("addAccount", 1)
  /\ LET a == op.call.acc IN
     IF tx.accounts[a].bucket THEN Rollback("account exists")
     ELSE /\ disk' = [tx EXCEPT !.accounts[a].bucket = TRUE] /\ tx' = disk'
          /\ op' = [op EXCEPT !.pc = 2]
          /\ UNCHANGED <<open, answer, boltOps>>

createAccount ==
  /\ Running("addAccount", 1)
  /\ LET a == op.call.acc IN
     IF tx.accounts[a].bucket THEN Rollback("account exists")
     ELSE Write([tx EXCEPT !.accounts[a].bucket = TRUE])

putPubKey ==
  /\ Running("addAccount", 2)
  /\ Commit([tx EXCEPT !.accounts[op.call.acc].pubkey = op.call.key])

\* A missing bucket is an error of bbolt's own, not ErrAccountNotExists.
DelAccount ==
  /\ Running("delAccount", 1)
  /\ LET a == op.call.acc IN
     IF ~tx.accounts[a].bucket THEN Rollback("bucket not found")
     ELSE Commit([tx EXCEPT !.accounts[a] = NoAccount])

createCertificates ==
  /\ Running("addCert", 1)
  /\ LET a == op.call.acc IN
     IF ~tx.accounts[a].bucket THEN Rollback("account not exists")
     ELSE Write([tx EXCEPT !.accounts[a].certs = TRUE])

createCertificate ==
  /\ Running("addCert", 2)
  /\ LET a == op.call.acc  s == op.call.serial IN
     IF tx.accounts[a].cert[s].bucket THEN Rollback("certificate exists")
     ELSE Write([tx EXCEPT !.accounts[a].cert[s].bucket = TRUE])

putCertificate ==
  /\ Running("addCert", 3)
  /\ Write([tx EXCEPT !.accounts[op.call.acc].cert[op.call.serial].cert = op.call.cert])

\* The key of the certificate may be of a kind that cannot be marshalled.
putCertificateKey ==
  /\ Running("addCert", 4)
  /\ \/ Commit([tx EXCEPT !.accounts[op.call.acc].cert[op.call.serial].pubkey = TRUE])
     \/ Rollback("failed extracting public key")

DelAccountCertificate ==
  /\ Running("delCert", 1)
  /\ LET a == op.call.acc  s == op.call.serial IN
     IF ~tx.accounts[a].bucket THEN Rollback("account not exists")
     ELSE IF ~(tx.accounts[a].certs /\ tx.accounts[a].cert[s].bucket)
     THEN Rollback("certificate not exists")
     ELSE Commit([tx EXCEPT !.accounts[a].cert[s] = NoCert])

SetOrdersNextKey ==
  /\ Running("nextKey", 1)
  /\ Commit([tx EXCEPT !.nextkey = op.call.key])

-----------------------------------------------------------------------------
\* A View reads the committed buckets.
GetAccountPublicKey(a) ==
  IF ~disk.accounts[a].bucket THEN None ELSE disk.accounts[a].pubkey

GetAccountCertificate(a, s) ==
  IF ~(disk.accounts[a].bucket /\ disk.accounts[a].certs /\ disk.accounts[a].cert[s].bucket)
  THEN None ELSE disk.accounts[a].cert[s].cert

GetAllCertificates ==
  {p \in Accounts \X Serials : GetAccountCertificate(p[1], p[2]) # None}

AddAccount == createAccount \/ putPubKey
AddAccountCertificate ==
  createCertificates \/ createCertificate \/ putCertificate \/ putCertificateKey

Step ==
  \/ AddAccount \/ DelAccount \/ AddAccountCertificate \/ DelAccountCertificate
  \/ SetOrdersNextKey

Next == NewBBolt \/ Close \/ crash \/ Step \/ \E o \in Ops : Update(o)

Spec == Init /\ [][Next]_vars

TypeOK ==
  /\ disk \in Databases /\ open \in BOOLEAN
  /\ tx \in Databases \cup {None}
  /\ op = None \/ (op.call \in Ops /\ op.pc \in 1..4)
  /\ boltOps \in 0..MaxBoltOps

\* The stored map, as the interface's readers see it.
storedAccounts ==
  [a \in Accounts |->
     IF disk.accounts[a].bucket
     THEN [key |-> GetAccountPublicKey(a),
           certs |-> [s \in Serials |-> GetAccountCertificate(a, s)]]
     ELSE None]

Store == INSTANCE AccountStore WITH accounts <- storedAccounts, nextkey <- disk.nextkey

\* The file behaves as the interface promises, whatever stops the process
\* between two writes of a call.
ImplementsStore == Store!Spec
=============================================================================
