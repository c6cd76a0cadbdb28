------------------------------ MODULE StoreProofs ------------------------------
(***************************************************************************)
(* BoltStore implements AccountStore: the file of the persistent           *)
(* configuration behaves as the interface promises, for any accounts,      *)
(* keys, serial numbers and certificates.                                  *)
(*                                                                         *)
(* The abstract map changes only when a call commits.  What the commit     *)
(* writes is known from what the transaction has written before, which     *)
(* Underway states for each of its steps; Sound says that a bucket that is *)
(* not there holds nothing, so that creating it brings back no remains.    *)
(*                                                                         *)
(* So does MemoryStore, which a provider without a file has instead.       *)
(***************************************************************************)
EXTENDS BoltStore, TLAPS

VARIABLES held, bidengine, memAnswer, memOps

Memory == INSTANCE MemoryStore WITH MaxMemOps <- MaxBoltOps

\* Only what exists holds something, and an account has its key.
SoundAccount(r) ==
  /\ r.bucket => r.pubkey \in Keys
  /\ ~r.bucket => ~r.certs
  /\ ~r.certs => \A s \in Serials : ~r.cert[s].bucket

Sound == \A a \in Accounts : SoundAccount(disk.accounts[a])

\* The buckets t are those of the file, but for the account a.
Changes(t, a, r) ==
  /\ t.accounts = [disk.accounts EXCEPT ![a] = r]
  /\ t.nextkey = disk.nextkey

\* The bucket r of an account with the bucket b for its certificate s.
WithCert(r, s, b) ==
  [bucket |-> r.bucket, pubkey |-> r.pubkey, certs |-> TRUE, cert |-> [r.cert EXCEPT ![s] = b]]

\* What the transaction that runs has written, and what it knows of the file.
Underway ==
  op # None =>
    /\ tx \in Databases
    /\ \/ op.pc = 1 /\ tx = disk
       \/ /\ op.call.kind = "addAccount" /\ op.pc = 2
          /\ ~disk.accounts[op.call.acc].bucket
          /\ Changes(tx, op.call.acc, [disk.accounts[op.call.acc] EXCEPT !.bucket = TRUE])
       \/ /\ op.call.kind = "addCert" /\ op.pc = 2
          /\ disk.accounts[op.call.acc].bucket
          /\ Changes(tx, op.call.acc, [disk.accounts[op.call.acc] EXCEPT !.certs = TRUE])
       \/ /\ op.call.kind = "addCert" /\ op.pc \in {3, 4}
          /\ disk.accounts[op.call.acc].bucket
          /\ ~disk.accounts[op.call.acc].cert[op.call.serial].bucket
          /\ \E b \in CertBuckets :
               /\ b.bucket /\ (op.pc = 4 => b.cert = op.call.cert)
               /\ Changes(tx, op.call.acc, WithCert(disk.accounts[op.call.acc], op.call.serial, b))

IInv ==
  /\ disk \in Databases
  /\ Sound
  /\ op # None => op \in [call : Ops, pc : 1..4]
  /\ Underway

-----------------------------------------------------------------------------
(***************************************************************************)
(* What the readers see of an account, and what a commit changes of it.    *)
(***************************************************************************)

View(r) ==
  IF r.bucket
  THEN [key |-> r.pubkey,
        certs |-> [s \in Serials |->
                     IF r.certs /\ r.cert[s].bucket THEN r.cert[s].cert ELSE None]]
  ELSE None

\* The stored map is made of what is seen of each account.
LEMMA StoredIsViewed ==
  /\ storedAccounts = [a \in Accounts |-> View(disk.accounts[a])]
  /\ storedAccounts' = [a \in Accounts |-> View(disk'.accounts[a])]
BY DEF storedAccounts, View, GetAccountPublicKey, GetAccountCertificate

\* An account that exists is seen as a record, which is not None.
LEMMA ViewIsRecord ==
  ASSUME NEW r \in AccountBuckets, r.bucket, SoundAccount(r)
  PROVE  View(r) # None
<1>1. r.pubkey \in Keys
  BY DEF SoundAccount
<1>2. ASSUME NEW s \in Serials
      PROVE  (IF r.certs /\ r.cert[s].bucket THEN r.cert[s].cert ELSE None) \in Certs \cup {None}
  BY DEF AccountBuckets, CertBuckets
<1>3. View(r) \in [key : Keys, certs : [Serials -> Certs \cup {None}]]
  BY <1>1, <1>2 DEF View
<1> QED BY <1>3, NoneAssumption

\* A commit that changes one account leaves the file sound, and changes what is
\* seen of that account only.
LEMMA CommitChangesOne ==
  ASSUME disk \in Databases, Sound, disk' \in Databases,
         NEW a \in Accounts, NEW r \in AccountBuckets, SoundAccount(r), Changes(disk', a, r)
  PROVE  /\ Sound'
         /\ storedAccounts' = [storedAccounts EXCEPT ![a] = View(r)]
         /\ (disk.nextkey)' = disk.nextkey
<1>1. \A b \in Accounts : disk'.accounts[b] = IF b = a THEN r ELSE disk.accounts[b]
  BY DEF Changes, Databases
<1>2. Sound'
  BY <1>1 DEF Sound, SoundAccount
<1>3. storedAccounts' = [storedAccounts EXCEPT ![a] = View(r)]
  BY <1>1, StoredIsViewed
<1> QED BY <1>2, <1>3 DEF Changes

\* The arguments of a call are what its kind says.
LEMMA CallHasArguments ==
  ASSUME NEW c \in Ops
  PROVE  /\ c.kind = "addAccount" => c.acc \in Accounts /\ c.key \in Keys
         /\ c.kind = "delAccount" => c.acc \in Accounts
         /\ c.kind = "addCert" => c.acc \in Accounts /\ c.serial \in Serials /\ c.cert \in Certs
         /\ c.kind = "delCert" => c.acc \in Accounts /\ c.serial \in Serials
         /\ c.kind = "nextKey" => c.key \in Keys
BY DEF Ops

-----------------------------------------------------------------------------
(***************************************************************************)
(* The steps that commit, and what the readers see of each.                *)
(***************************************************************************)

\* The file stays sound and what is stored changes as the interface allows.
Allowed ==
  /\ disk' \in Databases
  /\ Sound'
  /\ [Store!Next]_(Store!storeVars)

\* A step that leaves the file alone changes nothing that is stored.
LEMMA SameFile ==
  ASSUME IInv, disk' = disk
  PROVE  Allowed
<1>1. storedAccounts' = storedAccounts
  BY StoredIsViewed
<1> QED BY <1>1 DEF Allowed, IInv, Sound, Store!storeVars

\* AddAccount commits a new account with its key and no certificate.
LEMMA PutPubKeyAllowed ==
  ASSUME IInv, putPubKey
  PROVE  Allowed
<1> DEFINE a == op.call.acc
           k == op.call.key
           old == disk.accounts[a]
           r == [old EXCEPT !.bucket = TRUE, !.pubkey = k]
<1>1. a \in Accounts /\ k \in Keys /\ old \in AccountBuckets /\ SoundAccount(old)
  BY CallHasArguments DEF IInv, putPubKey, Running, Databases, Sound
<1>2. ~old.bucket /\ Changes(tx, a, [old EXCEPT !.bucket = TRUE]) /\ tx \in Databases
  BY DEF IInv, Underway, putPubKey, Running
<1>3. r \in AccountBuckets /\ SoundAccount(r)
  BY <1>1, <1>2 DEF AccountBuckets, SoundAccount
<1>4. disk' = [tx EXCEPT !.accounts[a].pubkey = k]
  BY DEF putPubKey, Commit
<1>5. tx.accounts[a] = [old EXCEPT !.bucket = TRUE]
  BY <1>1, <1>2 DEF Changes, Databases, IInv
<1>6. Changes(disk', a, r)
  BY <1>1, <1>2, <1>4, <1>5 DEF Changes, Databases, AccountBuckets, IInv
<1>7. disk' \in Databases
  BY <1>1, <1>2, <1>4, <1>5 DEF Databases, AccountBuckets
<1>8. /\ Sound'
      /\ storedAccounts' = [storedAccounts EXCEPT ![a] = View(r)]
      /\ (disk.nextkey)' = disk.nextkey
  BY <1>1, <1>3, <1>6, <1>7, CommitChangesOne DEF IInv
<1>9. storedAccounts[a] = None
  BY <1>1, <1>2, StoredIsViewed DEF View
<1>10. View(r) = [key |-> k, certs |-> [s \in Serials |-> None]]
  BY <1>1, <1>2 DEF View, SoundAccount, AccountBuckets
<1>11. Store!AddAccount(a, k)
  BY <1>8, <1>9, <1>10 DEF Store!AddAccount, Store!NoCerts
<1> QED BY <1>1, <1>7, <1>8, <1>11 DEF Allowed, Store!Next

\* DelAccount commits the removal of the account with all it holds.
LEMMA DelAccountAllowed ==
  ASSUME IInv, DelAccount
  PROVE  Allowed
<1> DEFINE a == op.call.acc
<1>1. a \in Accounts /\ tx = disk /\ disk \in Databases
  BY CallHasArguments DEF IInv, Underway, DelAccount, Running
<1>2. CASE disk' = disk
  BY <1>2, SameFile
<1>3. CASE disk' = [tx EXCEPT !.accounts[a] = NoAccount]
  <2>1. NoAccount \in AccountBuckets /\ SoundAccount(NoAccount) /\ View(NoAccount) = None
    BY DEF NoAccount, NoCert, AccountBuckets, CertBuckets, SoundAccount, View
  <2>2. Changes(disk', a, NoAccount) /\ disk' \in Databases
    BY <1>1, <1>3, <2>1 DEF Changes, Databases
  <2>3. /\ Sound'
        /\ storedAccounts' = [storedAccounts EXCEPT ![a] = None]
        /\ (disk.nextkey)' = disk.nextkey
    BY <1>1, <2>1, <2>2, CommitChangesOne DEF IInv
  <2>4. Store!DelAccount(a)
    BY <2>3 DEF Store!DelAccount
  <2> QED BY <1>1, <2>2, <2>3, <2>4 DEF Allowed, Store!Next
<1> QED BY <1>2, <1>3 DEF DelAccount, Rollback, Commit

\* What a transaction has written of an account.
LEMMA WrittenAccount ==
  ASSUME disk \in Databases, NEW t \in Databases, NEW a \in Accounts, NEW r, Changes(t, a, r)
  PROVE  t.accounts[a] = r
BY DEF Changes, Databases

\* A write to one account of the buckets of a transaction.
LEMMA PutAccount ==
  ASSUME disk \in Databases, NEW t \in Databases, NEW a \in Accounts, NEW r, Changes(t, a, r),
         NEW w \in AccountBuckets, NEW u, u = [t EXCEPT !.accounts[a] = w]
  PROVE  u \in Databases /\ Changes(u, a, w)
<1>1. u \in Databases
  BY DEF Databases
<1>2. Changes(u, a, w)
  BY DEF Changes, Databases
<1> QED BY <1>1, <1>2

\* The bucket of one certificate is written.
LEMMA WithCertificate ==
  ASSUME NEW r \in AccountBuckets, NEW s \in Serials, NEW b \in CertBuckets, NEW c \in CertBuckets
  PROVE  /\ WithCert(r, s, b) \in AccountBuckets
         /\ WithCert(r, s, b).cert[s] = b
         /\ [WithCert(r, s, b) EXCEPT !.cert[s] = c] = WithCert(r, s, c)
<1>1. /\ WithCert(r, s, b) \in AccountBuckets
      /\ WithCert(r, s, b).cert[s] = b
  BY DEF WithCert, AccountBuckets
<1>2. [[r.cert EXCEPT ![s] = b] EXCEPT ![s] = c] = [r.cert EXCEPT ![s] = c]
  BY DEF AccountBuckets
<1>3. [WithCert(r, s, b) EXCEPT !.cert[s] = c] = WithCert(r, s, c)
  <2>1. ASSUME NEW x \in AccountBuckets, NEW e \in [Serials -> CertBuckets]
        PROVE  [x EXCEPT !.cert = e]
                 = [bucket |-> x.bucket, pubkey |-> x.pubkey, certs |-> x.certs, cert |-> e]
    BY DEF AccountBuckets
  <2>2. /\ WithCert(r, s, b).cert = [r.cert EXCEPT ![s] = b]
        /\ WithCert(r, s, b).bucket = r.bucket
        /\ WithCert(r, s, b).pubkey = r.pubkey
        /\ WithCert(r, s, b).certs = TRUE
    BY DEF WithCert
  <2>3. [r.cert EXCEPT ![s] = c] \in [Serials -> CertBuckets]
    BY DEF AccountBuckets
  <2>4. [WithCert(r, s, b) EXCEPT !.cert = [r.cert EXCEPT ![s] = c]]
          = [bucket |-> WithCert(r, s, b).bucket, pubkey |-> WithCert(r, s, b).pubkey,
             certs |-> WithCert(r, s, b).certs, cert |-> [r.cert EXCEPT ![s] = c]]
    BY <1>1, <2>1, <2>3
  <2>5. [WithCert(r, s, b) EXCEPT !.cert = [r.cert EXCEPT ![s] = c]] = WithCert(r, s, c)
    BY <2>2, <2>4, Zenon DEF WithCert
  <2> QED BY <1>2, <2>2, <2>5, Zenon
<1> QED BY <1>1, <1>3

\* What is seen of an account to which a certificate is added.
LEMMA AddedIsViewed ==
  ASSUME NEW r \in AccountBuckets, SoundAccount(r), r.bucket,
         NEW s \in Serials, ~r.cert[s].bucket, NEW b \in CertBuckets, b.bucket
  PROVE  /\ SoundAccount(WithCert(r, s, b))
         /\ View(r).certs[s] = None
         /\ View(WithCert(r, s, b)) = [View(r) EXCEPT !.certs[s] = b.cert]
<1> DEFINE w == WithCert(r, s, b)
           seen(q) == [z \in Serials |-> IF q.certs /\ q.cert[z].bucket THEN q.cert[z].cert ELSE None]
<1>1. w.bucket /\ w.certs /\ w.pubkey = r.pubkey
  BY DEF WithCert
<1>2. \A z \in Serials : w.cert[z] = IF z = s THEN b ELSE r.cert[z]
  BY DEF WithCert, AccountBuckets
<1>3. SoundAccount(w)
  BY <1>1 DEF SoundAccount
<1>4. ASSUME NEW z \in Serials
      PROVE  seen(w)[z] = IF z = s THEN b.cert ELSE seen(r)[z]
  BY <1>1, <1>2, <1>4 DEF SoundAccount
<1>5. View(r) = [key |-> r.pubkey, certs |-> seen(r)]
  BY DEF View
<1>6. View(w) = [key |-> r.pubkey, certs |-> seen(w)]
  BY <1>1 DEF View
<1>7. seen(w) = [seen(r) EXCEPT ![s] = b.cert]
  <2> HIDE DEF w
  <2>1. seen(w) = [z \in Serials |-> seen(w)[z]] /\ DOMAIN seen(r) = Serials
    OBVIOUS
  <2> QED BY <1>4, <2>1
<1>8. View(r).certs[s] = None
  BY <1>5
<1>9. View(w) = [View(r) EXCEPT !.certs[s] = b.cert]
  <2> HIDE DEF w, seen
  <2> QED BY <1>5, <1>6, <1>7
<1> QED BY <1>3, <1>8, <1>9

\* AddAccountCertificate commits a certificate where there was none.
LEMMA CertificateAllowed ==
  ASSUME IInv, NEW a \in Accounts, NEW s \in Serials, NEW c \in Certs,
         NEW old \in AccountBuckets, old = disk.accounts[a], old.bucket, ~old.cert[s].bucket,
         NEW b \in CertBuckets, b.bucket, b.cert = c,
         tx \in Databases, Changes(tx, a, WithCert(old, s, b)),
         disk' = [tx EXCEPT !.accounts[a].cert[s].pubkey = TRUE]
  PROVE  Allowed
<1>1. disk \in Databases /\ Sound /\ SoundAccount(old)
  BY DEF IInv, Sound
<1>2. PICK new \in CertBuckets : new = [b EXCEPT !.pubkey = TRUE] /\ new.bucket /\ new.cert = c
  <2>1. /\ [b EXCEPT !.pubkey = TRUE] \in CertBuckets
        /\ [b EXCEPT !.pubkey = TRUE].bucket /\ [b EXCEPT !.pubkey = TRUE].cert = c
    BY DEF CertBuckets
  <2> QED BY <2>1, Zenon
<1>3. PICK mid \in AccountBuckets : mid = WithCert(old, s, b) /\ mid.cert[s] = b
  BY WithCertificate
<1>4. PICK r \in AccountBuckets : r = WithCert(old, s, new) /\ [mid EXCEPT !.cert[s] = new] = r
  <2>1. /\ WithCert(old, s, new) \in AccountBuckets
        /\ [WithCert(old, s, b) EXCEPT !.cert[s] = new] = WithCert(old, s, new)
    BY WithCertificate
  <2> QED BY <1>3, <2>1, Zenon
<1>5. tx.accounts[a] = mid /\ Changes(tx, a, mid)
  BY <1>1, <1>3, WrittenAccount
<1>6. disk' = [tx EXCEPT !.accounts[a] = [mid EXCEPT !.cert[s] = [b EXCEPT !.pubkey = TRUE]]]
  BY <1>3, <1>5, Zenon
<1>7. disk' \in Databases /\ Changes(disk', a, r)
  <2>1. disk' = [tx EXCEPT !.accounts[a] = r]
    BY <1>2, <1>4, <1>6, Zenon
  <2> QED BY <1>1, <1>5, <2>1, PutAccount
<1>8. /\ SoundAccount(r)
      /\ View(old).certs[s] = None
      /\ View(r) = [View(old) EXCEPT !.certs[s] = c]
  <2>1. /\ SoundAccount(WithCert(old, s, new))
        /\ View(old).certs[s] = None
        /\ View(WithCert(old, s, new)) = [View(old) EXCEPT !.certs[s] = new.cert]
    <3>1. SoundAccount(old) /\ new.bucket
      BY <1>1, <1>2, Zenon
    <3> QED BY <3>1, AddedIsViewed, Zenon
  <2> QED BY <1>2, <1>4, <2>1, Zenon
<1>9. /\ Sound'
      /\ storedAccounts' = [storedAccounts EXCEPT ![a] = View(r)]
      /\ (disk.nextkey)' = disk.nextkey
  BY <1>1, <1>7, <1>8, CommitChangesOne
<1>10. storedAccounts[a] = View(old) /\ View(old) # None
  BY <1>1, StoredIsViewed, ViewIsRecord
<1>11. Store!AddAccountCertificate(a, s, c)
  BY <1>8, <1>9, <1>10, StoredIsViewed DEF Store!AddAccountCertificate
<1> QED BY <1>7, <1>9, <1>11 DEF Allowed, Store!Next

LEMMA PutCertificateKeyAllowed ==
  ASSUME IInv, putCertificateKey
  PROVE  Allowed
<1> DEFINE a == op.call.acc
           s == op.call.serial
           c == op.call.cert
           old == disk.accounts[a]
<1>1. a \in Accounts /\ s \in Serials /\ c \in Certs /\ old \in AccountBuckets
  BY CallHasArguments DEF IInv, putCertificateKey, Running, Databases
<1>2. CASE disk' = disk
  BY <1>2, SameFile
<1>3. CASE disk' = [tx EXCEPT !.accounts[a].cert[s].pubkey = TRUE]
  <2>1. op # None /\ op.call.kind = "addCert" /\ op.pc = 4
    BY DEF putCertificateKey, Running
  <2>2. op.call.kind # "addAccount" /\ op.pc # 1 /\ op.pc # 2
    BY <2>1
  <2>3. /\ tx \in Databases /\ old.bucket /\ ~old.cert[s].bucket
        /\ \E b \in CertBuckets : b.bucket /\ b.cert = c /\ Changes(tx, a, WithCert(old, s, b))
    BY <2>1, <2>2, Zenon DEF IInv, Underway
  <2> QED BY <1>1, <1>3, <2>3, CertificateAllowed, Zenon
<1> QED BY <1>2, <1>3 DEF putCertificateKey, Rollback, Commit

\* DelAccountCertificate commits the removal of a certificate.
LEMMA CertificateRemoved ==
  ASSUME IInv, NEW a \in Accounts, NEW s \in Serials,
         NEW old \in AccountBuckets, old = disk.accounts[a], old.bucket, old.certs,
         disk' = [disk EXCEPT !.accounts[a].cert[s] = NoCert]
  PROVE  Allowed
<1>1. disk \in Databases /\ Sound /\ SoundAccount(old) /\ NoCert \in CertBuckets /\ ~NoCert.bucket
  BY DEF IInv, Sound, NoCert, CertBuckets
<1>2. PICK r \in AccountBuckets : r = [old EXCEPT !.cert[s] = NoCert]
  BY <1>1 DEF AccountBuckets
<1>3. /\ r.bucket = old.bucket /\ r.pubkey = old.pubkey /\ r.certs = old.certs
      /\ \A z \in Serials : r.cert[z] = IF z = s THEN NoCert ELSE old.cert[z]
  BY <1>2 DEF AccountBuckets
<1>4. disk' = [disk EXCEPT !.accounts[a] = r]
  BY <1>2, Zenon
<1>5. disk' \in Databases /\ Changes(disk', a, r)
  BY <1>1, <1>4 DEF Databases, Changes
<1>6. SoundAccount(r)
  BY <1>1, <1>3 DEF SoundAccount
<1>7. View(r) = [View(old) EXCEPT !.certs[s] = None]
  <2> DEFINE seen(q) == [z \in Serials |-> IF q.certs /\ q.cert[z].bucket THEN q.cert[z].cert ELSE None]
  <2>1. \A z \in Serials : seen(r)[z] = IF z = s THEN None ELSE seen(old)[z]
    BY <1>1, <1>3
  <2>2. View(old) = [key |-> old.pubkey, certs |-> seen(old)]
    BY DEF View
  <2>3. View(r) = [key |-> old.pubkey, certs |-> seen(r)]
    BY <1>3 DEF View
  <2>4. seen(r) = [seen(old) EXCEPT ![s] = None]
    BY <2>1
  <2> HIDE DEF seen
  <2> QED BY <2>2, <2>3, <2>4
<1>8. /\ Sound'
      /\ storedAccounts' = [storedAccounts EXCEPT ![a] = View(r)]
      /\ (disk.nextkey)' = disk.nextkey
  BY <1>1, <1>5, <1>6, CommitChangesOne
<1>9. storedAccounts[a] = View(old) /\ View(old) # None
  BY <1>1, StoredIsViewed, ViewIsRecord
<1>10. Store!DelAccountCertificate(a, s)
  BY <1>7, <1>8, <1>9, StoredIsViewed DEF Store!DelAccountCertificate
<1> QED BY <1>5, <1>8, <1>10 DEF Allowed, Store!Next

LEMMA DelAccountCertificateAllowed ==
  ASSUME IInv, DelAccountCertificate
  PROVE  Allowed
<1> DEFINE a == op.call.acc
           s == op.call.serial
           old == disk.accounts[a]
<1>1. a \in Accounts /\ s \in Serials /\ old \in AccountBuckets /\ tx = disk
  BY CallHasArguments DEF IInv, Underway, DelAccountCertificate, Running, Databases
<1>2. CASE disk' = disk
  BY <1>2, SameFile
<1>3. CASE disk' = [tx EXCEPT !.accounts[a].cert[s] = NoCert] /\ old.bucket /\ old.certs
  BY <1>1, <1>3, CertificateRemoved, Zenon
<1> QED BY <1>1, <1>2, <1>3 DEF DelAccountCertificate, Rollback, Commit

\* SetOrdersNextKey commits the bid engine's page key.
LEMMA SetOrdersNextKeyAllowed ==
  ASSUME IInv, SetOrdersNextKey
  PROVE  Allowed
<1> DEFINE k == op.call.key
<1>1. k \in Keys /\ tx = disk /\ disk \in Databases
  BY CallHasArguments DEF IInv, Underway, SetOrdersNextKey, Running
<1>2. disk' = [disk EXCEPT !.nextkey = k]
  BY <1>1 DEF SetOrdersNextKey, Commit
<1>3. disk' \in Databases /\ disk'.accounts = disk.accounts /\ disk'.nextkey = k
  BY <1>1, <1>2 DEF Databases
<1>4. Sound'
  BY <1>3 DEF Sound, IInv
<1>5. storedAccounts' = storedAccounts
  BY <1>3, StoredIsViewed
<1>6. Store!SetOrdersNextKey(k)
  BY <1>3, <1>5 DEF Store!SetOrdersNextKey
<1> QED BY <1>1, <1>3, <1>4, <1>6 DEF Allowed, Store!Next, Store!PageKeys

-----------------------------------------------------------------------------
(***************************************************************************)
(* The writes before a commit.                                             *)
(***************************************************************************)

\* A call that has written nothing works on the buckets of the file.
LEMMA FirstWrite ==
  ASSUME IInv, NEW kind, Running(kind, 1)
  PROVE  /\ op \in [call : Ops, pc : 1..4] /\ op.call \in Ops /\ op.call.kind = kind /\ op.pc = 1
         /\ tx = disk /\ disk \in Databases
<1>1. op # None /\ op.call.kind = kind /\ op.pc = 1 /\ op \in [call : Ops, pc : 1..4]
  BY DEF IInv, Running
<1>2. op.pc # 2 /\ op.pc \notin {3, 4}
  BY <1>1
<1>3. tx = disk /\ disk \in Databases
  BY <1>1, <1>2, Zenon DEF IInv, Underway
<1> QED BY <1>1, <1>3

\* The next write of a call leaves the file alone.
LEMMA WriteKeepsFile ==
  ASSUME op \in [call : Ops, pc : 1..4], op.pc < 4, NEW t, Write(t)
  PROVE  /\ disk' = disk /\ tx' = t
         /\ op' \in [call : Ops, pc : 1..4]
         /\ op'.call = op.call /\ op'.pc = op.pc + 1
BY DEF Write

\* What Underway says once the account's bucket is there.
LEMMA CreateAccountUnderway ==
  ASSUME IInv, createAccount
  PROVE  disk' = disk /\ (op' # None => op' \in [call : Ops, pc : 1..4]) /\ Underway'
<1> DEFINE a == op.call.acc
           old == disk.accounts[a]
<1>1. /\ op \in [call : Ops, pc : 1..4] /\ op.call.kind = "addAccount" /\ op.pc = 1
      /\ a \in Accounts /\ tx = disk /\ disk \in Databases
  BY FirstWrite, CallHasArguments DEF createAccount
<1>2. CASE Rollback("account exists")
  BY <1>2 DEF Rollback, Underway
<1>3. CASE ~tx.accounts[a].bucket /\ Write([tx EXCEPT !.accounts[a].bucket = TRUE])
  <2>1. /\ disk' = disk /\ tx' = [tx EXCEPT !.accounts[a].bucket = TRUE]
        /\ op' \in [call : Ops, pc : 1..4] /\ op'.call = op.call /\ op'.pc = op.pc + 1
    <3>1. op.pc < 4
      BY <1>1
    <3> QED BY <1>1, <1>3, <3>1, WriteKeepsFile, Zenon
  <2>2. [old EXCEPT !.bucket = TRUE] \in AccountBuckets
    <3>1. old \in AccountBuckets
      BY <1>1 DEF Databases
    <3> QED BY <3>1 DEF AccountBuckets
  <2>3. tx' = [disk EXCEPT !.accounts[a] = [old EXCEPT !.bucket = TRUE]]
    BY <1>1, <2>1, Zenon
  <2>4. /\ tx' \in Databases
        /\ tx'.accounts = [disk.accounts EXCEPT ![a] = [old EXCEPT !.bucket = TRUE]]
        /\ tx'.nextkey = disk.nextkey
    BY <1>1, <2>2, <2>3 DEF Databases
  <2>5. op'.pc = 2
    <3>1. op.pc = 1 /\ op'.pc = op.pc + 1
      BY <1>1, <2>1, Zenon
    <3> QED BY <3>1
  <2> QED BY <1>1, <1>3, <2>1, <2>4, <2>5, Zenon DEF Underway, Changes
<1> QED BY <1>2, <1>3 DEF createAccount

LEMMA CreateCertificatesUnderway ==
  ASSUME IInv, createCertificates
  PROVE  disk' = disk /\ (op' # None => op' \in [call : Ops, pc : 1..4]) /\ Underway'
<1> DEFINE a == op.call.acc
           old == disk.accounts[a]
<1>1. /\ op \in [call : Ops, pc : 1..4] /\ op.call.kind = "addCert" /\ op.pc = 1
      /\ a \in Accounts /\ tx = disk /\ disk \in Databases
  BY FirstWrite, CallHasArguments DEF createCertificates
<1>2. CASE Rollback("account not exists")
  BY <1>2 DEF Rollback, Underway
<1>3. CASE tx.accounts[a].bucket /\ Write([tx EXCEPT !.accounts[a].certs = TRUE])
  <2>1. /\ disk' = disk /\ tx' = [tx EXCEPT !.accounts[a].certs = TRUE]
        /\ op' \in [call : Ops, pc : 1..4] /\ op'.call = op.call /\ op'.pc = op.pc + 1
    <3>1. op.pc < 4
      BY <1>1
    <3> QED BY <1>1, <1>3, <3>1, WriteKeepsFile, Zenon
  <2>2. [old EXCEPT !.certs = TRUE] \in AccountBuckets
    <3>1. old \in AccountBuckets
      BY <1>1 DEF Databases
    <3> QED BY <3>1 DEF AccountBuckets
  <2>3. tx' = [disk EXCEPT !.accounts[a] = [old EXCEPT !.certs = TRUE]]
    BY <1>1, <2>1, Zenon
  <2>4. /\ tx' \in Databases
        /\ tx'.accounts = [disk.accounts EXCEPT ![a] = [old EXCEPT !.certs = TRUE]]
        /\ tx'.nextkey = disk.nextkey
    BY <1>1, <2>2, <2>3 DEF Databases
  <2>5. op'.pc = 2
    <3>1. op.pc = 1 /\ op'.pc = op.pc + 1
      BY <1>1, <2>1, Zenon
    <3> QED BY <3>1
  <2> QED BY <1>1, <1>3, <2>1, <2>4, <2>5, Zenon DEF Underway, Changes
<1> QED BY <1>2, <1>3 DEF createCertificates

\* The bucket of a certificate is created in that of certificates.
LEMMA CertificateCreated ==
  ASSUME disk \in Databases, tx \in Databases, NEW a \in Accounts, NEW s \in Serials,
         NEW old \in AccountBuckets, old = disk.accounts[a],
         Changes(tx, a, [old EXCEPT !.certs = TRUE]), ~tx.accounts[a].cert[s].bucket,
         tx' = [tx EXCEPT !.accounts[a].cert[s].bucket = TRUE]
  PROVE  /\ ~old.cert[s].bucket /\ tx' \in Databases
         /\ \E b \in CertBuckets : b.bucket /\ Changes(tx', a, WithCert(old, s, b))
<1>1. PICK mid \in AccountBuckets : mid = [old EXCEPT !.certs = TRUE]
  BY DEF AccountBuckets
<1>2. /\ mid.cert = old.cert /\ mid.bucket = old.bucket /\ mid.pubkey = old.pubkey /\ mid.certs
      /\ old.cert[s] \in CertBuckets /\ DOMAIN old.cert = Serials
  BY <1>1 DEF AccountBuckets
<1>3. tx.accounts[a] = mid /\ Changes(tx, a, mid)
  BY <1>1, WrittenAccount
<1>4. ~old.cert[s].bucket
  BY <1>2, <1>3
<1>5. PICK b \in CertBuckets : b = [old.cert[s] EXCEPT !.bucket = TRUE] /\ b.bucket
  <2>1. /\ [old.cert[s] EXCEPT !.bucket = TRUE] \in CertBuckets
        /\ [old.cert[s] EXCEPT !.bucket = TRUE].bucket
    BY <1>2 DEF CertBuckets
  <2> QED BY <2>1, Zenon
<1>6. PICK w \in AccountBuckets : w = WithCert(old, s, b)
  BY WithCertificate
<1>7. [mid EXCEPT !.cert[s] = b] = w
  <2>1. [mid EXCEPT !.cert[s] = b]
          = [bucket |-> mid.bucket, pubkey |-> mid.pubkey, certs |-> mid.certs,
             cert |-> [mid.cert EXCEPT ![s] = b]]
    BY DEF AccountBuckets
  <2>2. mid.certs = TRUE
    BY <1>2 DEF AccountBuckets
  <2> QED BY <1>2, <1>6, <2>1, <2>2, Zenon DEF WithCert
<1>8. tx' = [tx EXCEPT !.accounts[a] = w]
  <2>1. tx' = [tx EXCEPT !.accounts[a] = [mid EXCEPT !.cert[s] = [mid.cert[s] EXCEPT !.bucket = TRUE]]]
    BY <1>3, Zenon
  <2> QED BY <1>2, <1>5, <1>7, <2>1, Zenon
<1>9. tx' \in Databases /\ Changes(tx', a, w)
  BY <1>3, <1>8, PutAccount
<1> QED BY <1>4, <1>5, <1>6, <1>9

\* A call that has created the bucket of certificates creates the one of the
\* certificate, if there is none, and writes the certificate into it.
LEMMA CreateCertificateUnderway ==
  ASSUME IInv, createCertificate
  PROVE  disk' = disk /\ (op' # None => op' \in [call : Ops, pc : 1..4]) /\ Underway'
<1> DEFINE a == op.call.acc
           s == op.call.serial
           old == disk.accounts[a]
<1>1. /\ op \in [call : Ops, pc : 1..4] /\ op # None /\ op.call.kind = "addCert" /\ op.pc = 2
      /\ disk \in Databases
  BY DEF IInv, createCertificate, Running
<1>2. a \in Accounts /\ s \in Serials /\ old \in AccountBuckets
  BY <1>1, CallHasArguments DEF Databases
<1>3. tx \in Databases /\ old.bucket /\ Changes(tx, a, [old EXCEPT !.certs = TRUE])
  <2>1. op.call.kind # "addAccount" /\ op.pc # 1 /\ op.pc \notin {3, 4}
    BY <1>1
  <2> QED BY <1>1, <2>1, Zenon DEF IInv, Underway
<1>4. CASE Rollback("certificate exists")
  BY <1>4 DEF Rollback, Underway
<1>5. CASE ~tx.accounts[a].cert[s].bucket /\ Write([tx EXCEPT !.accounts[a].cert[s].bucket = TRUE])
  <2>1. /\ disk' = disk /\ tx' = [tx EXCEPT !.accounts[a].cert[s].bucket = TRUE]
        /\ op' \in [call : Ops, pc : 1..4] /\ op'.call = op.call /\ op'.pc = op.pc + 1
    <3>1. op.pc < 4
      BY <1>1
    <3> QED BY <1>1, <1>5, <3>1, WriteKeepsFile, Zenon
  <2>2. op'.pc = 3
    <3>1. op.pc = 2 /\ op'.pc = op.pc + 1
      BY <1>1, <2>1, Zenon
    <3> QED BY <3>1
  <2>3. /\ ~old.cert[s].bucket /\ tx' \in Databases
        /\ \E b \in CertBuckets : b.bucket /\ Changes(tx', a, WithCert(old, s, b))
    BY <1>1, <1>2, <1>3, <1>5, <2>1, CertificateCreated, Zenon
  <2>4. op'.pc # 4
    BY <2>2
  <2> QED BY <1>1, <1>3, <2>1, <2>2, <2>3, <2>4, Zenon DEF Underway, Changes
<1> QED BY <1>4, <1>5 DEF createCertificate

LEMMA PutCertificateUnderway ==
  ASSUME IInv, putCertificate
  PROVE  disk' = disk /\ (op' # None => op' \in [call : Ops, pc : 1..4]) /\ Underway'
<1>1. /\ op \in [call : Ops, pc : 1..4] /\ op # None /\ op.call.kind = "addCert" /\ op.pc = 3
      /\ disk \in Databases
  BY DEF IInv, putCertificate, Running
<1>2. PICK a \in Accounts, s \in Serials, c \in Certs :
        a = op.call.acc /\ s = op.call.serial /\ c = op.call.cert
  BY <1>1, CallHasArguments
<1>3. PICK old \in AccountBuckets : old = disk.accounts[a]
  BY <1>1 DEF Databases
<1>4. /\ tx \in Databases /\ old.bucket /\ ~old.cert[s].bucket
      /\ \E b \in CertBuckets : b.bucket /\ Changes(tx, a, WithCert(old, s, b))
  <2>1. op.call.kind # "addAccount" /\ op.pc # 1 /\ op.pc # 2
    BY <1>1
  <2> QED BY <1>1, <1>2, <1>3, <2>1, Zenon DEF IInv, Underway
<1>5. /\ disk' = disk /\ tx' = [tx EXCEPT !.accounts[a].cert[s].cert = c]
      /\ op' \in [call : Ops, pc : 1..4] /\ op'.call = op.call /\ op'.pc = op.pc + 1
  <2>1. op.pc < 4
    BY <1>1
  <2>2. Write([tx EXCEPT !.accounts[a].cert[s].cert = c])
    BY <1>2, Zenon DEF putCertificate
  <2> QED BY <1>1, <2>1, <2>2, WriteKeepsFile, Zenon
<1>6. op'.pc = 4
  <2>1. op.pc = 3 /\ op'.pc = op.pc + 1
    BY <1>1, <1>5, Zenon
  <2> QED BY <2>1
<1>7. /\ tx' \in Databases
      /\ \E n \in CertBuckets : n.bucket /\ n.cert = c /\ Changes(tx', a, WithCert(old, s, n))
  <2>1. PICK b \in CertBuckets : b.bucket /\ Changes(tx, a, WithCert(old, s, b))
    BY <1>4
  <2>2. PICK new \in CertBuckets : new = [b EXCEPT !.cert = c] /\ new.bucket /\ new.cert = c
    <3>1. /\ [b EXCEPT !.cert = c] \in CertBuckets
          /\ [b EXCEPT !.cert = c].bucket /\ [b EXCEPT !.cert = c].cert = c
      BY <2>1 DEF CertBuckets
    <3> QED BY <3>1, Zenon
  <2>3. PICK mid \in AccountBuckets : mid = WithCert(old, s, b) /\ mid.cert[s] = b
    BY WithCertificate
  <2>4. PICK w \in AccountBuckets : w = WithCert(old, s, new) /\ [mid EXCEPT !.cert[s] = new] = w
    <3>1. /\ WithCert(old, s, new) \in AccountBuckets
          /\ [WithCert(old, s, b) EXCEPT !.cert[s] = new] = WithCert(old, s, new)
      BY WithCertificate
    <3> QED BY <2>3, <3>1, Zenon
  <2>5. tx.accounts[a] = mid /\ Changes(tx, a, mid)
    BY <1>1, <1>4, <2>1, <2>3, WrittenAccount
  <2>6. tx' = [tx EXCEPT !.accounts[a] = w]
    <3>1. tx' = [tx EXCEPT !.accounts[a] = [mid EXCEPT !.cert[s] = [mid.cert[s] EXCEPT !.cert = c]]]
      BY <1>5, <2>5, Zenon
    <3> QED BY <2>2, <2>3, <2>4, <3>1, Zenon
  <2>7. tx' \in Databases /\ Changes(tx', a, w)
    BY <1>1, <1>4, <2>5, <2>6, PutAccount
  <2> QED BY <2>2, <2>4, <2>7
<1>8. /\ disk'.accounts[op'.call.acc] = old /\ op'.call.acc = a
      /\ op'.call.serial = s /\ op'.call.cert = c /\ op'.call.kind = "addCert"
  BY <1>1, <1>2, <1>3, <1>5, Zenon
<1>9. PICK n \in CertBuckets : n.bucket /\ n.cert = c /\ Changes(tx', a, WithCert(old, s, n))
  BY <1>7, Zenon
<1>10. Changes(tx, op.call.acc, WithCert(disk.accounts[op.call.acc], op.call.serial, n))'
  <2>1. Changes(tx, a, WithCert(old, s, n))'
    BY <1>5, <1>9, Zenon DEF Changes
  <2> QED BY <1>8, <2>1, Zenon DEF Changes, WithCert
<1>11. Underway'
  <2>1. tx' \in Databases /\ op'.pc \in {3, 4}
    BY <1>6, <1>7
  <2> QED BY <1>4, <1>6, <1>8, <1>9, <1>10, <2>1, Zenon DEF Underway
<1> QED BY <1>5, <1>11, Zenon

-----------------------------------------------------------------------------

LEMMA IInvInit == Init => IInv /\ Store!Init
<1> SUFFICES ASSUME Init PROVE IInv /\ Store!Init
  OBVIOUS
<1>1. NoAccount \in AccountBuckets /\ SoundAccount(NoAccount) /\ View(NoAccount) = None
  BY DEF NoAccount, NoCert, AccountBuckets, CertBuckets, SoundAccount, View
<1>2. disk \in Databases /\ disk.nextkey = None /\ \A a \in Accounts : disk.accounts[a] = NoAccount
  BY <1>1 DEF Init, Databases
<1>3. IInv
  BY <1>1, <1>2 DEF Init, IInv, Sound, Underway
<1>4. storedAccounts = [a \in Accounts |-> None]
  BY <1>1, <1>2, StoredIsViewed
<1> QED BY <1>2, <1>3, <1>4 DEF Store!Init

LEMMA IInvStep == IInv /\ [Next]_vars => IInv' /\ [Store!Next]_(Store!storeVars)
<1> SUFFICES ASSUME IInv, [Next]_vars PROVE IInv' /\ [Store!Next]_(Store!storeVars)
  OBVIOUS
<1> DEFINE Good == Allowed /\ (op' # None => op' \in [call : Ops, pc : 1..4]) /\ Underway'
<1> SUFFICES Good
  BY Zenon DEF Allowed, IInv
<1>1. CASE NewBBolt \/ Close \/ UNCHANGED vars
  <2>1. disk' = disk /\ tx' = tx /\ op' = op
    BY <1>1 DEF NewBBolt, Close, vars
  <2>2. Underway' /\ (op' # None => op' \in [call : Ops, pc : 1..4])
    BY <2>1, Zenon DEF IInv, Underway, Changes
  <2> QED BY <2>1, <2>2, SameFile
<1>2. CASE crash
  <2>1. disk' = disk /\ op' = None
    BY <1>2 DEF crash
  <2> QED BY <2>1, SameFile DEF Underway
<1>3. ASSUME NEW o \in Ops, Update(o) PROVE Good
  <2>1. CASE op' = op /\ tx' = tx /\ disk' = disk
    <3>1. Underway' /\ (op' # None => op' \in [call : Ops, pc : 1..4])
      BY <2>1, Zenon DEF IInv, Underway, Changes
    <3> QED BY <2>1, <3>1, SameFile
  <2>2. CASE op' = [call |-> o, pc |-> 1] /\ tx' = disk /\ disk' = disk
    <3>1. op' \in [call : Ops, pc : 1..4] /\ op'.pc = 1
      BY <2>2
    <3>2. Underway'
      BY <2>2, <3>1, Zenon DEF IInv, Underway
    <3> QED BY <2>2, <3>1, <3>2, SameFile
  <2> QED BY <1>3, <2>1, <2>2 DEF Update
<1>4. CASE createAccount \/ createCertificates \/ createCertificate \/ putCertificate
  BY <1>4, SameFile, CreateAccountUnderway, CreateCertificatesUnderway, CreateCertificateUnderway,
     PutCertificateUnderway
<1>5. CASE putPubKey \/ DelAccount \/ putCertificateKey \/ DelAccountCertificate \/ SetOrdersNextKey
  <2>1. Allowed
    BY <1>5, PutPubKeyAllowed, DelAccountAllowed, PutCertificateKeyAllowed,
       DelAccountCertificateAllowed, SetOrdersNextKeyAllowed
  <2>2. op' = None
    BY <1>5 DEF putPubKey, DelAccount, putCertificateKey, DelAccountCertificate, SetOrdersNextKey,
       Commit, Rollback
  <2> QED BY <2>1, <2>2 DEF Underway
<1> QED
  BY <1>1, <1>2, <1>3, <1>4, <1>5, Zenon DEF Next, Step, AddAccount, AddAccountCertificate

\* The file of the persistent configuration (tools/pconfig/bbolt/bbolt.go) behaves
\* as pconfig.Storage promises: whatever stops the process or fails between two
\* writes of a call, its readers see the call happen at once or not at all, no
\* account without its key, and no certificate that was replaced or that outlived
\* its account.
THEOREM FileImplementsStore == Spec => ImplementsStore
BY IInvInit, IInvStep, PTL DEF Spec, ImplementsStore, Store!Spec

-----------------------------------------------------------------------------
(***************************************************************************)
(* The map in memory.                                                      *)
(***************************************************************************)

Records == [key : Keys, certs : [Serials -> Certs \cup {None}]]

HeldOK == held \in [Accounts -> Records \cup {None}]

\* The readers see the map as it is.
LEMMA HeldIsStored ==
  /\ HeldOK => Memory!storedAccounts = held
  /\ HeldOK' => Memory!storedAccounts' = held'
<1>1. ASSUME NEW h \in [Accounts -> Records \cup {None}], NEW a \in Accounts
      PROVE  (IF h[a] = None THEN None
              ELSE [key |-> h[a].key, certs |-> [s \in Serials |-> h[a].certs[s]]]) = h[a]
  <2>1. CASE h[a] # None
    <3>1. h[a] \in Records
      BY <2>1
    <3>2. [s \in Serials |-> h[a].certs[s]] = h[a].certs
      BY <3>1 DEF Records
    <3> QED BY <2>1, <3>1, <3>2 DEF Records
  <2> QED BY <2>1
<1>2. ASSUME HeldOK PROVE Memory!storedAccounts = held
  <2>1. Memory!storedAccounts
          = [a \in Accounts |-> IF held[a] = None THEN None
               ELSE [key |-> held[a].key, certs |-> [s \in Serials |-> held[a].certs[s]]]]
    BY DEF Memory!storedAccounts, Memory!GetAccountPublicKey, Memory!GetAccountCertificate
  <2> QED BY <1>1, <1>2, <2>1 DEF HeldOK
<1>3. ASSUME HeldOK' PROVE Memory!storedAccounts' = held'
  <2>1. Memory!storedAccounts'
          = [a \in Accounts |-> IF held'[a] = None THEN None
               ELSE [key |-> held'[a].key, certs |-> [s \in Serials |-> held'[a].certs[s]]]]
    BY DEF Memory!storedAccounts, Memory!GetAccountPublicKey, Memory!GetAccountCertificate
  <2> QED BY <1>1, <1>3, <2>1 DEF HeldOK
<1> QED BY <1>2, <1>3

\* A call on the map is the call the interface promises, or refused.
LEMMA HeldStep ==
  ASSUME HeldOK, [Memory!Next]_(Memory!memVars)
  PROVE  HeldOK' /\ [Memory!Store!Next]_(Memory!Store!storeVars)
<1> DEFINE Good == HeldOK' /\ [Memory!Store!Next]_(Memory!Store!storeVars)
<1> HIDE DEF Good
<1>1. ASSUME held' = held, bidengine' = bidengine PROVE Good
  <2>1. HeldOK'
    BY <1>1 DEF HeldOK
  <2>2. Memory!storedAccounts' = Memory!storedAccounts
    BY <1>1, <2>1, HeldIsStored
  <2> QED BY <1>1, <2>1, <2>2 DEF Memory!Store!storeVars, Good
<1>2. ASSUME HeldOK', bidengine' = bidengine
      PROVE  Memory!storedAccounts = held /\ Memory!storedAccounts' = held'
  BY <1>2, HeldIsStored
<1>3. ASSUME NEW a \in Accounts, NEW k \in Keys, Memory!AddAccount(a, k) PROVE Good
  <2>1. CASE held[a] # None
    <3>1. held' = held /\ bidengine' = bidengine
      BY <1>3, <2>1, Zenon DEF Memory!AddAccount, Memory!Answer
    <3> QED BY <1>1, <3>1
  <2>2. CASE held[a] = None
    <3>1. held' = [held EXCEPT ![a] = [key |-> k, certs |-> Memory!NoCerts]] /\ bidengine' = bidengine
      BY <1>3, <2>2, Zenon DEF Memory!AddAccount, Memory!Set
    <3>2. HeldOK'
      BY <3>1 DEF HeldOK, Records, Memory!NoCerts
    <3>3. Memory!Store!AddAccount(a, k)
      BY <1>2, <2>2, <3>1, <3>2 DEF Memory!Store!AddAccount, Memory!Store!NoCerts, Memory!NoCerts
    <3> QED BY <3>2, <3>3 DEF Memory!Store!Next, Good
  <2> QED BY <2>1, <2>2
<1>4. ASSUME NEW a \in Accounts, Memory!DelAccount(a) PROVE Good
  <2>1. CASE held[a] = None
    <3>1. held' = held /\ bidengine' = bidengine
      BY <1>4, <2>1, Zenon DEF Memory!DelAccount, Memory!Answer
    <3> QED BY <1>1, <3>1
  <2>2. CASE held[a] # None
    <3>1. held' = [held EXCEPT ![a] = None] /\ bidengine' = bidengine
      BY <1>4, <2>2, Zenon DEF Memory!DelAccount, Memory!Set
    <3>2. HeldOK'
      BY <3>1 DEF HeldOK
    <3>3. Memory!Store!DelAccount(a)
      BY <1>2, <3>1, <3>2 DEF Memory!Store!DelAccount
    <3> QED BY <3>2, <3>3 DEF Memory!Store!Next, Good
  <2> QED BY <2>1, <2>2
<1>5. ASSUME NEW a \in Accounts, NEW s \in Serials, NEW c \in Certs \cup {None}, held[a] # None,
             held' = [held EXCEPT ![a].certs[s] = c]
      PROVE  HeldOK'
  <2>1. held[a] \in Records
    BY <1>5 DEF HeldOK
  <2>2. [held[a] EXCEPT !.certs[s] = c] \in Records
    BY <2>1 DEF Records
  <2> QED BY <1>5, <2>2 DEF HeldOK
<1>6. ASSUME NEW a \in Accounts, NEW s \in Serials, NEW c \in Certs,
             Memory!AddAccountCertificate(a, s, c)
      PROVE  Good
  <2>1. CASE held[a] = None \/ held[a].certs[s] # None
    <3>1. held' = held /\ bidengine' = bidengine
      BY <1>6, <2>1, Zenon DEF Memory!AddAccountCertificate, Memory!Answer
    <3> QED BY <1>1, <3>1
  <2>2. CASE held[a] # None /\ held[a].certs[s] = None
    <3>1. held' = [held EXCEPT ![a].certs[s] = c] /\ bidengine' = bidengine
      BY <1>6, <2>2, Zenon DEF Memory!AddAccountCertificate, Memory!Set
    <3>2. HeldOK'
      BY <1>5, <2>2, <3>1, Zenon
    <3>3. Memory!Store!AddAccountCertificate(a, s, c)
      BY <1>2, <2>2, <3>1, <3>2 DEF Memory!Store!AddAccountCertificate
    <3> QED BY <3>2, <3>3 DEF Memory!Store!Next, Good
  <2> QED BY <2>1, <2>2
<1>7. ASSUME NEW a \in Accounts, NEW s \in Serials, Memory!DelAccountCertificate(a, s) PROVE Good
  <2>1. CASE held[a] = None
    <3>1. held' = held /\ bidengine' = bidengine
      BY <1>7, <2>1, Zenon DEF Memory!DelAccountCertificate, Memory!Answer
    <3> QED BY <1>1, <3>1
  <2>2. CASE held[a] # None
    <3>1. held' = [held EXCEPT ![a].certs[s] = None] /\ bidengine' = bidengine
      BY <1>7, <2>2, Zenon DEF Memory!DelAccountCertificate, Memory!Set
    <3>2. HeldOK'
      BY <1>5, <2>2, <3>1, Zenon
    <3>3. Memory!Store!DelAccountCertificate(a, s)
      BY <1>2, <2>2, <3>1, <3>2 DEF Memory!Store!DelAccountCertificate
    <3> QED BY <3>2, <3>3 DEF Memory!Store!Next, Good
  <2> QED BY <2>1, <2>2
<1>8. ASSUME NEW k \in Keys, Memory!SetOrdersNextKey(k) PROVE Good
  <2>1. held' = held /\ bidengine' = k
    BY <1>8 DEF Memory!SetOrdersNextKey
  <2>2. HeldOK'
    BY <2>1 DEF HeldOK
  <2>3. Memory!storedAccounts' = Memory!storedAccounts
    BY <2>1, <2>2, HeldIsStored
  <2>4. Memory!Store!SetOrdersNextKey(k)
    BY <2>1, <2>3 DEF Memory!Store!SetOrdersNextKey
  <2> QED BY <2>2, <2>4 DEF Memory!Store!Next, Good, Memory!Store!PageKeys
<1>9. ASSUME UNCHANGED Memory!memVars PROVE Good
  BY <1>1, <1>9 DEF Memory!memVars
<1>10. ASSUME Memory!Next PROVE Good
  BY <1>3, <1>4, <1>6, <1>7, <1>8, <1>10, Zenon DEF Memory!Next
<1> QED BY <1>9, <1>10 DEF Good

LEMMA HeldInit == Memory!Init => HeldOK /\ Memory!Store!Init
<1> SUFFICES ASSUME Memory!Init PROVE HeldOK /\ Memory!Store!Init
  OBVIOUS
<1>1. HeldOK
  BY DEF Memory!Init, HeldOK
<1> QED BY <1>1, HeldIsStored DEF Memory!Init, Memory!Store!Init

\* The map in memory (tools/pconfig/memory/memory.go) behaves as pconfig.Storage
\* promises: a call happens at once or is refused, and no certificate is replaced.
THEOREM MapImplementsStore == Memory!Spec => Memory!ImplementsStore
<1>1. HeldOK /\ [Memory!Next]_(Memory!memVars)
        => HeldOK' /\ [Memory!Store!Next]_(Memory!Store!storeVars)
  BY HeldStep
<1> QED BY HeldInit, <1>1, PTL DEF Memory!Spec, Memory!ImplementsStore, Memory!Store!Spec
================================================================================
