---------------------------- MODULE OidcRecords ----------------------------
(***************************************************************************)
(* The PostgreSQL record store of the OpenID Provider                      *)
(* (src/src/adapters/postgres.js) together with the account transactions   *)
(* of the data layer (src/src/db.js), for one realm.                       *)
(*                                                                         *)
(* Many server processes share one database at READ COMMITTED.  A save is  *)
(* one SQL statement, but it takes its row locks one after another         *)
(* (account, parent grant, parent account, target row), so it is four      *)
(* steps here.  A security transaction locks the account, deletes what the *)
(* account has, advances the security version and commits; its writes are  *)
(* invisible to others until the commit.  The other operations are         *)
(* single-row statements and are one step each.                            *)
(***************************************************************************)
EXTENDS Naturals, FiniteSets

CONSTANTS Users,      \* account identifiers (UUIDs, never reused)
          Grants,     \* identifiers of Grant records
          GrantOwner, \* GrantOwner[g]: the account the Grant was created for
          Models,     \* the other models: a set of disjoint sets of identifiers
          Proofs,     \* identifiers of ReplayDetection records
          Savers,     \* connections running an adapter save
          Txs,        \* connections running an account transaction
          Lifetimes,  \* lifetimes a record is saved with, None for no expiry
          BatchSize,  \* limit of one cleanup batch
          MaxTime,    \* bound on the clock
          MaxVersion, \* bound on security_version
          None,       \* SQL NULL
          NoRow       \* no row under an identifier

ASSUME ConstantsAssumption ==
  /\ None \notin Users /\ None \notin Grants
  /\ Lifetimes \subseteq Nat \cup {None} /\ None \notin Nat
  /\ MaxTime \in Nat /\ MaxVersion \in Nat /\ BatchSize \in Nat \ {0}
  /\ GrantOwner \in [Grants -> Users]
  /\ Proofs \cap Grants = {}
  /\ \A M \in Models : M \cap (Grants \cup Proofs) = {}

Artifacts == UNION Models
Keys == Grants \cup Artifacts \cup Proofs

\* A row of oidc_records: the account in its payload, its grant_id, its
\* account_security_version, its expires_at, whether consumed_at is set.
Row == [acct : Users \cup {None}, grant : Grants \cup {None},
        version : Nat \cup {None}, exp : Nat \cup {None}, consumed : BOOLEAN]

\* What the provider sees of a row.
Artifact == [owner : Users \cup {None}, grant : Grants \cup {None}, consumed : BOOLEAN]

ASSUME NoRowAssumption == NoRow \notin Row /\ NoRow \notin Artifact

VARIABLES standing, \* standing[u]: absent, enabled, disabled or deleted row of users
          version,  \* version[u]: users.security_version
          rows,     \* rows[k]: the committed oidc_records row of k
          save,     \* save[s]: the save statement connection s is running
          tx,       \* tx[t]: the account transaction connection t is running
          now,      \* CURRENT_TIMESTAMP
          wins      \* wins[k]: successful claims of the row stored under k (history)

vars == <<standing, version, rows, save, tx, now, wins>>

Present(k) == rows[k] # NoRow
ExpiresAt(at, ttl) == IF ttl = None THEN None ELSE at + ttl
Live(r, at) == r.exp # None => r.exp > at

\* What find, findByUserCode and findByUid return: an unexpired row whose
\* account, if any, is enabled and still at the version the row was saved at.
Visible(k) ==
  /\ Present(k) /\ Live(rows[k], now)
  /\ rows[k].version # None =>
       /\ standing[rows[k].acct] = "enabled"
       /\ version[rows[k].acct] = rows[k].version

----------------------------------------------------------------------------
(* The save statement a connection is running, and what it has locked.     *)

SavePc == {"idle", "grant", "parent", "write"}
NoSave == [pc |-> "idle", key |-> None, acct |-> None, grant |-> None, at |-> 0,
           owner |-> None, version |-> None]

NoTx == [pc |-> "idle", user |-> None, target |-> "enabled", doomed |-> {}]

\* SELECT ... FOR UPDATE of users: the account row is locked by a transaction.
UserLocked(u) == \E t \in Txs : tx[t].pc # "idle" /\ tx[t].user = u

\* Saves that hold FOR SHARE on the users row of u, on the Grant row g.
UserSharers(u) ==
  {s \in Savers : /\ save[s].pc # "idle"
                  /\ save[s].acct = u \/ (save[s].pc = "write" /\ save[s].owner = u)}
GrantSharers(g) ==
  {s \in Savers : save[s].pc \in {"parent", "write"} /\ save[s].grant = g}

\* Rows a running transaction has deleted but not yet committed.
RowLocked(k) == \E t \in Txs : k \in tx[t].doomed

Init ==
  /\ standing = [u \in Users |-> "fresh"]
  /\ version = [u \in Users |-> 0]
  /\ rows = [k \in Keys |-> NoRow]
  /\ save = [s \in Savers |-> NoSave]
  /\ tx = [t \in Txs |-> NoTx]
  /\ now = 0
  /\ wins = [k \in Keys |-> 0]

----------------------------------------------------------------------------
(* upsert                                                                  *)

\* Payloads the provider saves: a Grant names the account it was created for;
\* an Interaction may name a grant without an account; a session names only an
\* account.
Payload(k, u, g) == k \in Grants => u = GrantOwner[k] /\ g = None

\* Mutant: the account is read without FOR SHARE.
SaveBeginUnlocked(s, k, u, g) ==
  /\ save[s].pc = "idle"
  /\ Payload(k, u, g)
  /\ u # None => standing[u] = "enabled"
  /\ save' = [save EXCEPT ![s] =
       [pc |-> IF g = None THEN "write" ELSE "grant", key |-> k, acct |-> u,
        grant |-> g, at |-> now, owner |-> u,
        version |-> IF u = None THEN None ELSE version[u]]]
  /\ UNCHANGED <<standing, version, rows, tx, now, wins>>

\* The "account" subquery: the account the payload names must be enabled, and
\* its row is share-locked (waiting for a transaction that holds it).  A save
\* that names an account which is not enabled ends here and changes nothing.
SaveBegin(s, k, u, g) ==
  /\ save[s].pc = "idle"
  /\ Payload(k, u, g)
  /\ u # None => standing[u] = "enabled" /\ ~UserLocked(u)
  /\ save' = [save EXCEPT ![s] =
       [pc |-> IF g = None THEN "write" ELSE "grant", key |-> k, acct |-> u,
        grant |-> g, at |-> now, owner |-> u,
        version |-> IF u = None THEN None ELSE version[u]]]
  /\ UNCHANGED <<standing, version, rows, tx, now, wins>>

\* Mutant: a save under a missing Grant waits for it.
SaveGrantWaits(s) ==
  LET g == save[s].grant IN
  /\ save[s].pc = "grant"
  /\ ~RowLocked(g)
  /\ Present(g) /\ Live(rows[g], save[s].at)
  /\ save' = [save EXCEPT ![s].pc = "parent"]
  /\ UNCHANGED <<standing, version, rows, tx, now, wins>>

\* The "parent_grant" subquery: the Grant row must exist and be unexpired at
\* the statement's timestamp; it is share-locked.
SaveGrant(s) ==
  LET g == save[s].grant IN
  /\ save[s].pc = "grant"
  /\ ~RowLocked(g)
  /\ IF Present(g) /\ Live(rows[g], save[s].at)
       THEN save' = [save EXCEPT ![s].pc = "parent"]
       ELSE save' = [save EXCEPT ![s] = NoSave]
  /\ UNCHANGED <<standing, version, rows, tx, now, wins>>

\* The "parent_account" subquery: the grant's account must be enabled, at the
\* version the grant was saved at, and be the account the payload names.
SaveParent(s) ==
  LET g == save[s].grant
      p == rows[g].acct
      valid == /\ standing[p] = "enabled" /\ version[p] = rows[g].version
               /\ save[s].acct \in {None, p}
  IN
  /\ save[s].pc = "parent"
  /\ ~UserLocked(p)
  /\ IF valid
       THEN save' = [save EXCEPT ![s].pc = "write", ![s].owner = p, ![s].version = version[p]]
       ELSE save' = [save EXCEPT ![s] = NoSave]
  /\ UNCHANGED <<standing, version, rows, tx, now, wins>>

\* Mutant: consumed_at is taken from the payload, without COALESCE.
SaveWriteResets(s) ==
  LET k == save[s].key
      sv == save[s]
  IN
  /\ sv.pc = "write"
  /\ ~RowLocked(k)
  /\ k \in Grants => GrantSharers(k) = {}
  /\ \E ttl \in Lifetimes, c \in BOOLEAN :
       rows' = [rows EXCEPT ![k] =
         [acct |-> sv.owner, grant |-> sv.grant, version |-> sv.version,
          exp |-> ExpiresAt(sv.at, ttl), consumed |-> c]]
  /\ wins' = IF Present(k) THEN wins ELSE [wins EXCEPT ![k] = 0]
  /\ save' = [save EXCEPT ![s] = NoSave]
  /\ UNCHANGED <<standing, version, tx, now>>

\* INSERT ... ON CONFLICT DO UPDATE, committed with the statement.  The row
\* inherits the parent's account; consumed_at survives a conflicting save.  The
\* payload's lifetime and consumed mark matter only here.
SaveWrite(s) ==
  LET k == save[s].key
      sv == save[s]
  IN
  /\ sv.pc = "write"
  /\ ~RowLocked(k)
  /\ k \in Grants => GrantSharers(k) = {}
  /\ \E ttl \in Lifetimes, c \in BOOLEAN :
       rows' = [rows EXCEPT ![k] =
         [acct |-> sv.owner, grant |-> sv.grant, version |-> sv.version,
          exp |-> ExpiresAt(sv.at, ttl),
          consumed |-> c \/ (Present(k) /\ rows[k].consumed)]]
  /\ wins' = IF Present(k) THEN wins ELSE [wins EXCEPT ![k] = 0]
  /\ save' = [save EXCEPT ![s] = NoSave]
  /\ UNCHANGED <<standing, version, tx, now>>

\* A save whose statement fails: connection lost, or chosen as deadlock victim.
SaveAbort(s) ==
  /\ save[s].pc # "idle"
  /\ save' = [save EXCEPT ![s] = NoSave]
  /\ UNCHANGED <<standing, version, rows, tx, now, wins>>

\* Mutant: ON CONFLICT DO UPDATE for ReplayDetection too.
SaveProofUpdates(p, ttl) ==
  /\ rows' = [rows EXCEPT ![p] =
       [acct |-> None, grant |-> None, version |-> None,
        exp |-> ExpiresAt(now, ttl), consumed |-> FALSE]]
  /\ wins' = [wins EXCEPT ![p] = 0]
  /\ UNCHANGED <<standing, version, save, tx, now>>

\* upsert of a ReplayDetection record: ON CONFLICT DO NOTHING, and no row
\* inserted means the proof was replayed.
SaveProof(p, ttl) ==
  /\ ~Present(p)
  /\ rows' = [rows EXCEPT ![p] =
       [acct |-> None, grant |-> None, version |-> None,
        exp |-> ExpiresAt(now, ttl), consumed |-> FALSE]]
  /\ wins' = [wins EXCEPT ![p] = 0]
  /\ UNCHANGED <<standing, version, save, tx, now>>

----------------------------------------------------------------------------
(* consume, destroy, revokeByGrantId, cleanupExpired                       *)

\* The compare-and-set of consume and claimInitialAccessToken: one winner.
Consume(k) ==
  /\ Present(k) /\ Live(rows[k], now) /\ ~rows[k].consumed
  /\ ~RowLocked(k)
  /\ rows' = [rows EXCEPT ![k].consumed = TRUE]
  /\ wins' = [wins EXCEPT ![k] = @ + 1]
  /\ UNCHANGED <<standing, version, save, tx, now>>

Free(k) == ~RowLocked(k) /\ GrantSharers(k) = {}

DeleteRows(S) == rows' = [k \in Keys |-> IF k \in S THEN NoRow ELSE rows[k]]

Destroy(k) ==
  /\ Present(k) /\ Free(k)
  /\ DeleteRows({k})
  /\ UNCHANGED <<standing, version, save, tx, now, wins>>

RevokeByGrantId(M, g) ==
  LET linked == {k \in M : Present(k) /\ rows[k].grant = g} IN
  /\ linked # {} /\ \A k \in linked : Free(k)
  /\ DeleteRows(linked)
  /\ UNCHANGED <<standing, version, save, tx, now, wins>>

\* Rows cleanupExpired may take: expired and not locked (SKIP LOCKED).
Expired == {k \in Keys : Present(k) /\ ~Live(rows[k], now) /\ Free(k)}

\* One batch, oldest expiry first.
Cleanup(S) ==
  /\ S # {} /\ S \subseteq Expired
  /\ \/ S = Expired /\ Cardinality(S) <= BatchSize
     \/ /\ Cardinality(S) = BatchSize
        /\ \A k \in S, l \in Expired \ S : rows[k].exp <= rows[l].exp
  /\ DeleteRows(S)
  /\ UNCHANGED <<standing, version, save, tx, now, wins>>

----------------------------------------------------------------------------
(* Accounts: createUser, mutateAccountSecurity and deleteAccount           *)

CreateUser(u) ==
  /\ standing[u] = "fresh"
  /\ \E st \in {"enabled", "disabled"} : standing' = [standing EXCEPT ![u] = st]
  /\ UNCHANGED <<version, rows, save, tx, now, wins>>

\* Mutant: SELECT without FOR UPDATE, so saves of the account are not waited for.
TxLockUnguarded(t, u, target) ==
  /\ tx[t].pc = "idle"
  /\ standing[u] \in {"enabled", "disabled"} /\ version[u] < MaxVersion
  /\ ~UserLocked(u)
  /\ tx' = [tx EXCEPT ![t] = [pc |-> "locked", user |-> u, target |-> target, doomed |-> {}]]
  /\ UNCHANGED <<standing, version, rows, save, now, wins>>

\* BEGIN; SELECT ... FOR UPDATE.  target is what the transaction will leave:
\* the account enabled or disabled by mutate, or deleted.  An absent account
\* is rolled back at once.
TxLock(t, u, target) ==
  /\ tx[t].pc = "idle"
  /\ standing[u] \in {"enabled", "disabled"} /\ version[u] < MaxVersion
  /\ ~UserLocked(u) /\ UserSharers(u) = {}
  /\ tx' = [tx EXCEPT ![t] = [pc |-> "locked", user |-> u, target |-> target, doomed |-> {}]]
  /\ UNCHANGED <<standing, version, rows, save, now, wins>>

\* revokeAccountSql: the account's rows and the rows of the account's grants.
Doomed(u) ==
  {k \in Keys : /\ Present(k)
                /\ \/ rows[k].acct = u
                   \/ /\ rows[k].grant # None /\ Present(rows[k].grant)
                      /\ rows[rows[k].grant].acct = u}

TxRevoke(t) ==
  /\ tx[t].pc = "locked"
  /\ \A k \in Doomed(tx[t].user) : Free(k)
  /\ tx' = [tx EXCEPT ![t].pc = "revoked", ![t].doomed = Doomed(tx[t].user)]
  /\ UNCHANGED <<standing, version, rows, save, now, wins>>

\* Mutant: the version advances and nothing is deleted.
TxCommitKeeps(t) ==
  LET u == tx[t].user IN
  /\ tx[t].pc = "revoked"
  /\ standing' = [standing EXCEPT ![u] = tx[t].target]
  /\ version' = [version EXCEPT ![u] = IF tx[t].target = "deleted" THEN @ ELSE @ + 1]
  /\ tx' = [tx EXCEPT ![t] = NoTx]
  /\ UNCHANGED <<rows, save, now, wins>>

\* COMMIT: the account change, the version and the deletions appear together.
TxCommit(t) ==
  LET u == tx[t].user IN
  /\ tx[t].pc = "revoked"
  /\ standing' = [standing EXCEPT ![u] = tx[t].target]
  /\ version' = [version EXCEPT ![u] = IF tx[t].target = "deleted" THEN @ ELSE @ + 1]
  /\ DeleteRows(tx[t].doomed)
  /\ tx' = [tx EXCEPT ![t] = NoTx]
  /\ UNCHANGED <<save, now, wins>>

\* Mutant: the connection is released without ROLLBACK.
TxEndUnfinished(t) ==
  /\ tx[t].pc # "idle"
  /\ tx' = [tx EXCEPT ![t].pc = "aborted"]
  /\ UNCHANGED <<standing, version, rows, save, now, wins>>

\* A mutation that applied nothing commits without revoking; an error in
\* mutate, in the audit write or on the connection rolls everything back.
TxEnd(t) ==
  /\ tx[t].pc # "idle"
  /\ tx' = [tx EXCEPT ![t] = NoTx]
  /\ UNCHANGED <<standing, version, rows, save, now, wins>>

Tick ==
  /\ now < MaxTime /\ now' = now + 1
  /\ UNCHANGED <<standing, version, rows, save, tx, wins>>

----------------------------------------------------------------------------
(* Waiting in a circle: the save holds the grant and waits for the account *)
(* row, the transaction holds the account row and waits for the grant.     *)
(* PostgreSQL detects it and fails one of the two.                         *)

Deadlocked(s, t) ==
  /\ save[s].pc = "parent" /\ tx[t].pc = "locked"
  /\ rows[save[s].grant].acct = tx[t].user

BreakDeadlock(s) == (\E t \in Txs : Deadlocked(s, t)) /\ SaveAbort(s)

SaverStep(s) == SaveGrant(s) \/ SaveParent(s) \/ SaveWrite(s)

Next ==
  \/ \E s \in Savers, k \in Grants \cup Artifacts, u \in Users \cup {None},
        g \in Grants \cup {None} : SaveBegin(s, k, u, g)
  \/ \E s \in Savers : SaverStep(s) \/ SaveAbort(s)
  \/ \E p \in Proofs, ttl \in Lifetimes : SaveProof(p, ttl)
  \/ \E k \in Artifacts \cup Proofs : Consume(k)
  \/ \E k \in Grants \cup Artifacts : Destroy(k)
  \/ \E M \in Models, g \in Grants : RevokeByGrantId(M, g)
  \/ \E S \in SUBSET Expired : Cleanup(S)
  \/ \E u \in Users : CreateUser(u)
  \/ \E t \in Txs, u \in Users, target \in {"enabled", "disabled", "deleted"} :
       TxLock(t, u, target)
  \/ \E t \in Txs : TxRevoke(t) \/ TxCommit(t) \/ TxEnd(t)
  \/ Tick

Spec == Init /\ [][Next]_vars

\* The database runs a statement it has accepted, finishes a transaction it can
\* finish, resolves deadlocks and wakes the waiters of an exclusively locked row
\* in turn.  It may starve a save that overwrites a Grant row other saves keep
\* share-locking, and nothing says clients keep calling.
ArtifactStep(s) ==
  save[s].key \notin Grants /\ (SaverStep(s) \/ BreakDeadlock(s))

Fairness ==
  /\ \A s \in Savers : SF_vars(ArtifactStep(s))
  /\ \A t \in Txs : WF_vars(TxRevoke(t)) /\ WF_vars(TxCommit(t))

FairSpec == Spec /\ Fairness

----------------------------------------------------------------------------
(* Properties                                                              *)

SaveState ==
  [pc : SavePc, key : Keys \cup {None}, acct : Users \cup {None},
   grant : Grants \cup {None}, at : Nat, owner : Users \cup {None}, version : Nat \cup {None}]
TxState ==
  [pc : {"idle", "locked", "revoked"}, user : Users \cup {None},
   target : {"enabled", "disabled", "deleted"}, doomed : SUBSET Keys]

\* The variables have their types: rows, statements and transactions of the
\* shapes the adapter and the data layer build.
TypeOK ==
  /\ standing \in [Users -> {"fresh", "enabled", "disabled", "deleted"}]
  /\ version \in [Users -> Nat]
  /\ rows \in [Keys -> Row \cup {NoRow}]
  /\ save \in [Savers -> SaveState]
  /\ tx \in [Txs -> TxState]
  /\ now \in Nat
  /\ wins \in [Keys -> Nat]

\* Revocation is complete and no save crosses it: every stored row that names
\* an account names an enabled one at its current security version, so a row
\* saved before a password reset, a disable, a delete or a session revocation
\* never outlives it, and a late save never re-creates one (postgres.js upsert
\* against db.js mutateAccountSecurity and deleteAccount).
RowsAreCurrent ==
  \A k \in Keys : Present(k) =>
    IF rows[k].acct = None THEN rows[k].version = None /\ rows[k].grant = None
    ELSE standing[rows[k].acct] = "enabled" /\ rows[k].version = version[rows[k].acct]

\* find misses only what has expired: its test of the account's epoch never
\* hides an unexpired row, because the transaction that moves the epoch leaves
\* none behind (postgres.js find, findByUserCode, findByUid).
FindMissesOnlyExpired == \A k \in Keys : Present(k) /\ Live(rows[k], now) => Visible(k)

\* A one-use artifact has at most one successful claim, whatever saves of the
\* same record run between (consume's compare-and-set, upsert's COALESCE).
ClaimedOnce == \A k \in Keys : wins[k] <= 1 /\ (Present(k) /\ wins[k] = 1 => rows[k].consumed)

\* An accepted proof blocks its replay until it expires: its row is neither
\* removed nor given a new expiry while it is live (ReplayDetection's DO
\* NOTHING, cleanupExpired).
ReplayWindow ==
  [][\A p \in Proofs : Present(p) /\ Live(rows[p], now) =>
       rows'[p] # NoRow /\ rows'[p].exp = rows[p].exp]_vars

\* A save and an account transaction wait for each other only if the payload
\* does not name the grant's account: the account lock is taken first by both
\* otherwise (postgres.js "account" before "parent_grant"; db.js FOR UPDATE
\* before the deletes).
NamedSavesDoNotDeadlock ==
  \A s \in Savers, t \in Txs : Deadlocked(s, t) => save[s].acct # tx[t].user

\* Every statement that saves an artifact ends: no circle of waiting
\* connections other than the one PostgreSQL breaks.
SavesEnd ==
  \A s \in Savers :
    (save[s].pc # "idle" /\ save[s].key \notin Grants) ~> (save[s].pc = "idle")

\* The store the adapter offers is the one ArtifactStore describes: the locks,
\* versions and transactions make each operation take effect in one step.
Arts ==
  [k \in Keys |->
     IF Present(k)
       THEN [owner |-> rows[k].acct, grant |-> rows[k].grant, consumed |-> rows[k].consumed]
       ELSE NoRow]

Store == INSTANCE ArtifactStore WITH
  Others <- Artifacts \cup Proofs, NoArt <- NoRow, arts <- Arts

\* OidcRecords implements ArtifactStore.
StoreSpec == Store!Spec
============================================================================
