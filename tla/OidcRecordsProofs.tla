------------------------ MODULE OidcRecordsProofs --------------------------
(***************************************************************************)
(* Proofs about OidcRecords for every value of its constants: the type     *)
(* invariant, that stored rows are current, that payloads which name their *)
(* account cannot deadlock, and that the store implements ArtifactStore.   *)
(***************************************************************************)
EXTENDS OidcRecords, TLAPS

(***************************************************************************)
(* The inductive invariant.  RowsAreCurrent is not inductive by itself: it *)
(* rests on what a running save has read and locked (SavesHold), on what a *)
(* running transaction has locked and marked for deletion (TxsHold), and   *)
(* on grants and the artifacts under them naming the same account          *)
(* (GrantsOwned).                                                          *)
(***************************************************************************)

GrantsOwned ==
  \A k \in Keys : Present(k) =>
    /\ k \in Grants => rows[k].acct = GrantOwner[k]
    /\ rows[k].grant # None => rows[k].acct = GrantOwner[rows[k].grant]

\* What a save has read is still so, because it holds the rows it read.
SaveHolds(s) ==
  /\ save[s].key \in Grants \cup Artifacts
  /\ save[s].key \in Grants => save[s].acct = GrantOwner[save[s].key] /\ save[s].grant = None
  /\ save[s].acct # None => standing[save[s].acct] = "enabled" /\ ~UserLocked(save[s].acct)
  /\ save[s].pc \in {"grant", "parent"} => save[s].grant # None
  /\ save[s].pc \in {"parent", "write"} /\ save[s].grant # None =>
       Present(save[s].grant) /\ ~RowLocked(save[s].grant)
  /\ save[s].pc = "write" =>
       /\ save[s].acct \in {None, save[s].owner}
       /\ save[s].key \in Grants => save[s].owner = save[s].acct
       /\ save[s].grant # None => save[s].owner = GrantOwner[save[s].grant]
       /\ IF save[s].owner = None THEN save[s].version = None
          ELSE /\ standing[save[s].owner] = "enabled" /\ ~UserLocked(save[s].owner)
               /\ save[s].version = version[save[s].owner]

SavesHold == \A s \in Savers : save[s].pc # "idle" => SaveHolds(s)

Owned(u) == {k \in Keys : Present(k) /\ rows[k].acct = u}

\* A transaction has an account, and once it has deleted, all the account owns.
TxHolds(t) ==
  /\ tx[t].pc # "idle" => tx[t].user \in Users /\ standing[tx[t].user] \in {"enabled", "disabled"}
  /\ tx[t].doomed = IF tx[t].pc = "revoked" THEN Owned(tx[t].user) ELSE {}

OneTxPerUser ==
  \A t, v \in Txs :
    tx[t].pc # "idle" /\ tx[v].pc # "idle" /\ tx[t].user = tx[v].user => t = v

TxsHold == (\A t \in Txs : TxHolds(t)) /\ OneTxPerUser

IInv == TypeOK /\ RowsAreCurrent /\ GrantsOwned /\ SavesHold /\ TxsHold

----------------------------------------------------------------------------
(* Facts every step uses.                                                  *)

\* A statement that never started, and no transaction, have their types.
LEMMA IdleTypes == NoSave \in SaveState /\ NoTx \in TxState
BY ConstantsAssumption DEF NoSave, NoTx, SaveState, TxState, SavePc

\* Initially nothing is stored, saved or locked.
LEMMA InitIInv == Init => IInv
<1> SUFFICES ASSUME Init PROVE IInv
  OBVIOUS
<1>1. TypeOK
  BY IdleTypes DEF Init, TypeOK
<1>2. RowsAreCurrent /\ GrantsOwned
  BY DEF Init, RowsAreCurrent, GrantsOwned, Present
<1>3. SavesHold
  BY DEF Init, SavesHold, NoSave
<1>4. TxsHold
  BY DEF Init, TxsHold, TxHolds, OneTxPerUser, NoTx
<1> QED
  BY <1>1, <1>2, <1>3, <1>4 DEF IInv

\* Starting a save keeps the invariant.
LEMMA SaveBeginIInv ==
  ASSUME IInv, NEW s \in Savers, NEW k \in Grants \cup Artifacts,
         NEW u \in Users \cup {None}, NEW g \in Grants \cup {None}, SaveBegin(s, k, u, g)
  PROVE  IInv'
<1> USE DEF IInv
<1>1. TypeOK'
  BY ConstantsAssumption DEF SaveBegin, TypeOK, SaveState, SavePc, Keys
<1>2. RowsAreCurrent' /\ GrantsOwned'
  BY DEF SaveBegin, RowsAreCurrent, GrantsOwned, Present
<1>3. SavesHold'
  <2> SUFFICES ASSUME NEW r \in Savers, save'[r].pc # "idle" PROVE SaveHolds(r)'
    BY DEF SavesHold
  <2>1. CASE r = s
    BY <2>1, ConstantsAssumption
    DEF SaveBegin, SaveHolds, TypeOK, UserLocked, RowLocked, Present, Payload
  <2>2. CASE r # s
    BY <2>2 DEF SaveBegin, SavesHold, SaveHolds, TypeOK, UserLocked, RowLocked, Present
  <2> QED BY <2>1, <2>2
<1>4. TxsHold'
  BY DEF SaveBegin, TxsHold, TxHolds, OneTxPerUser, Owned, Present
<1> QED
  BY <1>1, <1>2, <1>3, <1>4

\* Reading and locking the parent grant keeps the invariant.
LEMMA SaveGrantIInv ==
  ASSUME IInv, NEW s \in Savers, SaveGrant(s)
  PROVE  IInv'
<1> USE DEF IInv
<1>1. TypeOK'
  BY IdleTypes DEF SaveGrant, TypeOK, SaveState, SavePc
<1>2. RowsAreCurrent' /\ GrantsOwned'
  BY DEF SaveGrant, RowsAreCurrent, GrantsOwned, Present
<1>3. SavesHold'
  <2> SUFFICES ASSUME NEW r \in Savers, save'[r].pc # "idle" PROVE SaveHolds(r)'
    BY DEF SavesHold
  <2>1. CASE r = s
    BY <2>1 DEF SaveGrant, SavesHold, SaveHolds, TypeOK, SaveState, UserLocked, RowLocked,
                Present, NoSave
  <2>2. CASE r # s
    BY <2>2 DEF SaveGrant, SavesHold, SaveHolds, TypeOK, UserLocked, RowLocked, Present
  <2> QED BY <2>1, <2>2
<1>4. TxsHold'
  BY DEF SaveGrant, TxsHold, TxHolds, OneTxPerUser, Owned, Present
<1> QED
  BY <1>1, <1>2, <1>3, <1>4

\* Checking and locking the parent account keeps the invariant.
LEMMA SaveParentIInv ==
  ASSUME IInv, NEW s \in Savers, SaveParent(s)
  PROVE  IInv'
<1> USE DEF IInv
<1> DEFINE g == save[s].grant
<1>1. g \in Grants /\ Present(g) /\ rows[g].acct = GrantOwner[g] /\ GrantOwner[g] \in Users
  BY ConstantsAssumption DEF SaveParent, SavesHold, SaveHolds, GrantsOwned, TypeOK, SaveState, Keys
<1>2. TypeOK'
  BY <1>1, IdleTypes DEF SaveParent, TypeOK, SaveState, SavePc
<1>3. RowsAreCurrent' /\ GrantsOwned'
  BY DEF SaveParent, RowsAreCurrent, GrantsOwned, Present
<1>4. SavesHold'
  <2> SUFFICES ASSUME NEW r \in Savers, save'[r].pc # "idle" PROVE SaveHolds(r)'
    BY DEF SavesHold
  <2>1. CASE r = s
    BY <1>1, <2>1, ConstantsAssumption
    DEF SaveParent, SavesHold, SaveHolds, TypeOK, SaveState, UserLocked, RowLocked, Present, NoSave
  <2>2. CASE r # s
    BY <2>2 DEF SaveParent, SavesHold, SaveHolds, TypeOK, UserLocked, RowLocked, Present
  <2> QED BY <2>1, <2>2
<1>5. TxsHold'
  BY DEF SaveParent, TxsHold, TxHolds, OneTxPerUser, Owned, Present
<1> QED
  BY <1>2, <1>3, <1>4, <1>5

\* Ending a save without writing keeps the invariant.
LEMMA SaveAbortIInv ==
  ASSUME IInv, NEW s \in Savers, SaveAbort(s)
  PROVE  IInv'
<1> USE DEF IInv
<1>1. TypeOK'
  BY IdleTypes DEF SaveAbort, TypeOK
<1>2. RowsAreCurrent' /\ GrantsOwned'
  BY DEF SaveAbort, RowsAreCurrent, GrantsOwned, Present
<1>3. SavesHold'
  BY DEF SaveAbort, SavesHold, SaveHolds, TypeOK, UserLocked, RowLocked, Present, NoSave
<1>4. TxsHold'
  BY DEF SaveAbort, TxsHold, TxHolds, OneTxPerUser, Owned, Present
<1> QED
  BY <1>1, <1>2, <1>3, <1>4

\* Writing the row keeps the invariant: the version it carries is the one its
\* account still has, and no transaction is deleting that account's rows.
LEMMA SaveWriteIInv ==
  ASSUME IInv, NEW s \in Savers, SaveWrite(s)
  PROVE  IInv'
<1> USE DEF IInv
<1> DEFINE k == save[s].key
           new == rows'[k]
<1>1. /\ k \in Grants \cup Artifacts /\ k \in Keys /\ ~RowLocked(k)
      /\ save[s] \in SaveState /\ SaveHolds(s) /\ save[s].pc = "write"
  BY DEF SaveWrite, SavesHold, SaveHolds, TypeOK, Keys
<1>2. /\ new \in Row /\ new # NoRow /\ new.acct = save[s].owner
      /\ new.grant = save[s].grant /\ new.version = save[s].version
      /\ \A l \in Keys \ {k} : rows'[l] = rows[l]
      /\ DOMAIN rows' = Keys
  <2> PICK ttl \in Lifetimes, c \in BOOLEAN :
         rows' = [rows EXCEPT ![k] =
           [acct |-> save[s].owner, grant |-> save[s].grant, version |-> save[s].version,
            exp |-> ExpiresAt(save[s].at, ttl),
            consumed |-> c \/ (Present(k) /\ rows[k].consumed)]]
    BY DEF SaveWrite
  <2> DEFINE exp == ExpiresAt(save[s].at, ttl)
             used == c \/ (Present(k) /\ rows[k].consumed)
  <2>1. exp \in Nat \cup {None}
    BY <1>1, ConstantsAssumption DEF ExpiresAt, SaveState
  <2>2. used \in BOOLEAN
    OBVIOUS
  <2>3. new = [acct |-> save[s].owner, grant |-> save[s].grant, version |-> save[s].version,
               exp |-> exp, consumed |-> used]
    BY <1>1 DEF TypeOK
  <2>4. /\ save[s].owner \in Users \cup {None} /\ save[s].grant \in Grants \cup {None}
        /\ save[s].version \in Nat \cup {None}
    BY <1>1 DEF SaveState
  <2> HIDE DEF exp, used, new
  <2>5. new \in Row
    BY <2>1, <2>2, <2>3, <2>4 DEF Row
  <2> USE DEF new
  <2> QED
    BY <1>1, <2>3, <2>5, NoRowAssumption DEF TypeOK
<1>3. TypeOK'
  <2>1. rows' \in [Keys -> Row \cup {NoRow}]
    BY <1>2 DEF TypeOK, SaveWrite
  <2> QED
    BY <1>1, <2>1, IdleTypes DEF SaveWrite, TypeOK
<1>4. RowsAreCurrent'
  <2> SUFFICES ASSUME NEW l \in Keys, rows'[l] # NoRow
               PROVE  IF rows'[l].acct = None THEN rows'[l].version = None /\ rows'[l].grant = None
                      ELSE standing[rows'[l].acct] = "enabled" /\ rows'[l].version = version[rows'[l].acct]
    BY DEF SaveWrite, RowsAreCurrent, Present
  <2>1. CASE l = k
    <3>1. save[s].owner = None => save[s].grant = None
      BY <1>1, ConstantsAssumption DEF SaveHolds, SaveState
    <3> QED BY <1>1, <1>2, <2>1, <3>1 DEF SaveHolds
  <2>2. CASE l # k
    BY <1>2, <2>2 DEF RowsAreCurrent, Present
  <2> QED BY <2>1, <2>2
<1>5. GrantsOwned'
  BY <1>1, <1>2 DEF SaveWrite, GrantsOwned, Present, SaveHolds
<1>6. SavesHold'
  BY <1>1, <1>2 DEF SaveWrite, SavesHold, SaveHolds, TypeOK, UserLocked, RowLocked, Present, NoSave
<1>7. TxsHold'
  <2> SUFFICES ASSUME NEW t \in Txs, tx[t].pc = "revoked"
               PROVE  Owned(tx[t].user)' = Owned(tx[t].user)
    BY DEF SaveWrite, TxsHold, TxHolds, OneTxPerUser
  <2>1. k \notin Owned(tx[t].user)
    BY <1>1 DEF TxsHold, TxHolds, RowLocked
  <2>2. new.acct # tx[t].user
    BY <1>1, <1>2, ConstantsAssumption DEF SaveHolds, UserLocked, TxsHold, TxHolds, OneTxPerUser
  <2> QED
    BY <1>1, <1>2, <2>1, <2>2 DEF Owned, Present, SaveWrite
<1> QED
  BY <1>3, <1>4, <1>5, <1>6, <1>7

\* A ReplayDetection row names no account and no grant.
LEMMA SaveProofIInv ==
  ASSUME IInv, NEW p \in Proofs, NEW ttl \in Lifetimes, SaveProof(p, ttl)
  PROVE  IInv'
<1> USE DEF IInv
<1> DEFINE exp == ExpiresAt(now, ttl)
           new == [acct |-> None, grant |-> None, version |-> None, exp |-> exp, consumed |-> FALSE]
<1>1. p \in Keys /\ p \notin Grants
  BY ConstantsAssumption DEF Keys
<1>2. exp \in Nat \cup {None}
  BY ConstantsAssumption DEF ExpiresAt, TypeOK
<1>3. rows' = [rows EXCEPT ![p] = new]
  BY DEF SaveProof
<1> HIDE DEF exp
<1>4. new \in Row /\ new # NoRow
  <2>1. new \in Row
    BY <1>2 DEF Row
  <2> QED BY <2>1, NoRowAssumption
<1>5. /\ rows'[p] \in Row /\ rows'[p] # NoRow /\ rows'[p].acct = None
      /\ rows'[p].grant = None /\ rows'[p].version = None
      /\ \A l \in Keys \ {p} : rows'[l] = rows[l]
  BY <1>1, <1>3, <1>4 DEF TypeOK
<1>6. TypeOK'
  BY <1>1, <1>3, <1>4 DEF SaveProof, TypeOK
<1>7. RowsAreCurrent' /\ GrantsOwned'
  BY <1>1, <1>5 DEF SaveProof, RowsAreCurrent, GrantsOwned, Present
<1>8. SavesHold'
  BY <1>5, ConstantsAssumption
  DEF SaveProof, SavesHold, SaveHolds, TypeOK, SaveState, UserLocked, RowLocked, Present, Keys
<1>9. TxsHold'
  <2> SUFFICES ASSUME NEW t \in Txs, tx[t].pc = "revoked"
               PROVE  Owned(tx[t].user)' = Owned(tx[t].user)
    BY DEF SaveProof, TxsHold, TxHolds, OneTxPerUser
  <2>1. tx[t].user # None /\ ~Present(p)
    BY ConstantsAssumption DEF TxsHold, TxHolds, SaveProof
  <2>2. \A l \in Keys : l \in Owned(tx[t].user)' <=> l \in Owned(tx[t].user)
    BY <1>1, <1>5, <2>1 DEF Owned, Present, SaveProof
  <2> QED BY <2>2 DEF Owned
<1> QED
  BY <1>6, <1>7, <1>8, <1>9

\* Claiming a row changes only its consumed mark.
LEMMA ConsumeIInv ==
  ASSUME IInv, NEW k \in Keys, Consume(k)
  PROVE  IInv'
<1> USE DEF IInv
<1>1. rows[k] \in Row
  BY DEF TypeOK, Consume, Present
<1>2. /\ rows'[k] \in Row /\ rows'[k] # NoRow /\ rows'[k].acct = rows[k].acct
      /\ rows'[k].grant = rows[k].grant /\ rows'[k].version = rows[k].version
      /\ \A l \in Keys \ {k} : rows'[l] = rows[l]
  BY <1>1, NoRowAssumption DEF TypeOK, Consume, Row
<1>3. TypeOK'
  BY <1>1, <1>2 DEF TypeOK, Consume
<1>4. RowsAreCurrent' /\ GrantsOwned'
  BY <1>2 DEF Consume, RowsAreCurrent, GrantsOwned, Present
<1>5. SavesHold'
  <2>1. \A l \in Keys : Present(l) => Present(l)'
    BY <1>2 DEF Present
  <2> QED
    BY <2>1 DEF Consume, SavesHold, SaveHolds, TypeOK, SaveState, UserLocked, RowLocked, Keys
<1>6. TxsHold'
  <2> SUFFICES ASSUME NEW t \in Txs, tx[t].pc = "revoked"
               PROVE  Owned(tx[t].user)' = Owned(tx[t].user)
    BY DEF Consume, TxsHold, TxHolds, OneTxPerUser
  <2> QED
    BY <1>2 DEF Owned, Present, Consume
<1> QED
  BY <1>3, <1>4, <1>5, <1>6

\* Deleting rows that nobody has locked keeps the invariant; destroy,
\* revokeByGrantId and cleanupExpired are instances.
LEMMA ForgetIInv ==
  ASSUME IInv, NEW S \in SUBSET Keys, DeleteRows(S), \A k \in S : Free(k),
         UNCHANGED <<standing, version, save, tx, now, wins>>
  PROVE  IInv'
<1> USE DEF IInv
<1>1. \A l \in Keys : rows'[l] = IF l \in S THEN NoRow ELSE rows[l]
  BY DEF DeleteRows
<1>2. TypeOK'
  BY DEF TypeOK, DeleteRows
<1>3. RowsAreCurrent' /\ GrantsOwned'
  BY <1>1 DEF RowsAreCurrent, GrantsOwned, Present
<1>4. SavesHold'
  <2> SUFFICES ASSUME NEW r \in Savers, save[r].pc # "idle" PROVE SaveHolds(r)'
    BY DEF SavesHold
  <2>1. SaveHolds(r) /\ save[r].grant \in Grants \cup {None}
    BY DEF SavesHold, TypeOK, SaveState
  <2>2. save[r].pc \in {"parent", "write"} /\ save[r].grant # None => save[r].grant \notin S
    BY <2>1 DEF Free, GrantSharers
  <2>3. save[r].pc \in {"parent", "write"} /\ save[r].grant # None => Present(save[r].grant)'
    BY <1>1, <2>1, <2>2 DEF SaveHolds, Present, Keys
  <2> QED
    BY <2>1, <2>3 DEF SaveHolds, UserLocked, RowLocked
<1>5. TxsHold'
  <2> SUFFICES ASSUME NEW t \in Txs, tx[t].pc = "revoked"
               PROVE  Owned(tx[t].user)' = Owned(tx[t].user)
    BY DEF TxsHold, TxHolds, OneTxPerUser
  <2>1. Owned(tx[t].user) \cap S = {}
    BY DEF Free, RowLocked, TxsHold, TxHolds, OneTxPerUser
  <2> QED
    BY <1>1, <2>1 DEF Owned, Present
<1> QED
  BY <1>2, <1>3, <1>4, <1>5

LEMMA CreateUserIInv ==
  ASSUME IInv, NEW u \in Users, CreateUser(u)
  PROVE  IInv'
<1> USE DEF IInv
<1>1. TypeOK'
  BY DEF CreateUser, TypeOK
<1>2. \A v \in Users : standing[v] # "fresh" => standing'[v] = standing[v]
  BY DEF CreateUser, TypeOK
<1>3. RowsAreCurrent'
  BY <1>2 DEF CreateUser, RowsAreCurrent, Present, TypeOK, Row
<1>4. GrantsOwned'
  BY DEF CreateUser, GrantsOwned, Present
<1>5. SavesHold'
  BY <1>2 DEF CreateUser, SavesHold, SaveHolds, TypeOK, SaveState, UserLocked, RowLocked, Present
<1>6. TxsHold'
  <2>1. \A w : Owned(w)' = Owned(w)
    BY DEF Owned, Present, CreateUser
  <2>2. ASSUME NEW t \in Txs PROVE TxHolds(t)'
    BY <1>2, <2>1 DEF CreateUser, TxsHold, TxHolds
  <2> QED
    BY <2>2 DEF CreateUser, TxsHold, OneTxPerUser
<1> QED
  BY <1>1, <1>3, <1>4, <1>5, <1>6

\* A transaction gets the account row only when no save shares it.
LEMMA TxLockIInv ==
  ASSUME IInv, NEW t \in Txs, NEW u \in Users,
         NEW target \in {"enabled", "disabled", "deleted"}, TxLock(t, u, target)
  PROVE  IInv'
<1> USE DEF IInv
<1>1. TypeOK'
  BY DEF TxLock, TypeOK, TxState
<1>2. RowsAreCurrent' /\ GrantsOwned'
  BY DEF TxLock, RowsAreCurrent, GrantsOwned, Present
<1>3. /\ tx'[t].pc = "locked" /\ tx'[t].user = u /\ tx'[t].doomed = {}
      /\ \A v \in Txs \ {t} : tx'[v] = tx[v]
  BY DEF TxLock, TypeOK
<1>4. SavesHold'
  <2> SUFFICES ASSUME NEW r \in Savers, save[r].pc # "idle" PROVE SaveHolds(r)'
    BY DEF SavesHold, TxLock
  <2>1. SaveHolds(r)
    BY DEF SavesHold
  <2>2. save[r].acct # u /\ (save[r].pc = "write" => save[r].owner # u)
    BY DEF TxLock, UserSharers
  <2>3. \A w : w # u /\ ~UserLocked(w) => ~UserLocked(w)'
    BY <1>3 DEF UserLocked
  <2>4. \A l : ~RowLocked(l) => ~RowLocked(l)'
    BY <1>3 DEF RowLocked
  <2> QED
    BY <2>1, <2>2, <2>3, <2>4 DEF SaveHolds, TxLock, Present
<1>5. TxsHold'
  <2>1. \A w : Owned(w)' = Owned(w)
    BY DEF Owned, Present, TxLock
  <2> QED
    BY <1>3, <2>1 DEF TxLock, TxsHold, TxHolds, OneTxPerUser, UserLocked
<1> QED
  BY <1>1, <1>2, <1>4, <1>5

\* What revokeAccountSql selects is what the account owns: a row under one of
\* the account's grants names the account itself.
LEMMA DoomedIsOwned == ASSUME IInv, NEW u PROVE Doomed(u) = Owned(u)
BY DEF IInv, Doomed, Owned, GrantsOwned, TypeOK, Row, Keys, Present

\* Deleting the account's rows locks only rows no save has read.
LEMMA TxRevokeIInv ==
  ASSUME IInv, NEW t \in Txs, TxRevoke(t)
  PROVE  IInv'
<1> USE DEF IInv
<1> DEFINE u == tx[t].user
<1>1. Doomed(u) = Owned(u) /\ Owned(u) \in SUBSET Keys
  BY DoomedIsOwned DEF Owned
<1>2. TypeOK'
  <2>1. tx[t] \in TxState /\ tx \in [Txs -> TxState]
    BY DEF TypeOK
  <2> HIDE DEF u
  <2>2. [tx[t] EXCEPT !.pc = "revoked", !.doomed = Owned(u)] \in TxState
    BY <1>1, <2>1 DEF TxState
  <2>3. tx' = [tx EXCEPT ![t] = [tx[t] EXCEPT !.pc = "revoked", !.doomed = Owned(u)]]
    BY <1>1 DEF TxRevoke, u
  <2> QED BY <2>1, <2>2, <2>3 DEF TxRevoke, TypeOK
<1>3. RowsAreCurrent' /\ GrantsOwned'
  BY DEF TxRevoke, RowsAreCurrent, GrantsOwned, Present
<1>4. /\ tx'[t].pc = "revoked" /\ tx'[t].user = u /\ tx'[t].doomed = Owned(u)
      /\ \A v \in Txs \ {t} : tx'[v] = tx[v]
  BY <1>1 DEF TxRevoke, TypeOK, TxState
<1>5. SavesHold'
  <2> SUFFICES ASSUME NEW r \in Savers, save[r].pc # "idle" PROVE SaveHolds(r)'
    BY DEF SavesHold, TxRevoke
  <2>1. SaveHolds(r)
    BY DEF SavesHold
  <2>2. \A w : ~UserLocked(w) => ~UserLocked(w)'
    BY <1>4 DEF UserLocked, TxRevoke
  <2>3. \A l : ~RowLocked(l) /\ l \notin Owned(u) => ~RowLocked(l)'
    BY <1>4 DEF RowLocked
  <2>4. save[r].pc \in {"parent", "write"} /\ save[r].grant # None => save[r].grant \notin Owned(u)
    BY <1>1 DEF TxRevoke, Free, GrantSharers
  <2> QED
    BY <2>1, <2>2, <2>3, <2>4 DEF SaveHolds, TxRevoke, Present
<1>6. TxsHold'
  <2>1. \A w : Owned(w)' = Owned(w)
    BY DEF Owned, Present, TxRevoke
  <2>2. ASSUME NEW v \in Txs PROVE TxHolds(v)'
    <3>1. CASE v = t
      BY <1>4, <2>1, <3>1 DEF TxRevoke, TxsHold, TxHolds
    <3>2. CASE v # t
      BY <1>4, <2>1, <3>2 DEF TxRevoke, TxsHold, TxHolds
    <3> QED BY <3>1, <3>2
  <2>3. OneTxPerUser'
    <3>1. tx[t].pc # "idle"
      BY DEF TxRevoke
    <3> QED BY <1>4, <3>1 DEF TxsHold, OneTxPerUser
  <2> QED BY <2>2, <2>3 DEF TxsHold
<1> QED
  BY <1>2, <1>3, <1>5, <1>6

\* COMMIT removes everything the account owned along with its old version.
LEMMA TxCommitIInv ==
  ASSUME IInv, NEW t \in Txs, TxCommit(t)
  PROVE  IInv'
<1> USE DEF IInv
<1> DEFINE u == tx[t].user
<1>1. /\ u \in Users /\ tx[t].pc = "revoked" /\ tx[t].doomed = Owned(u)
      /\ tx[t].target \in {"enabled", "disabled", "deleted"}
  BY DEF TxCommit, TxsHold, TxHolds, OneTxPerUser, TypeOK, TxState
<1>2. /\ \A l \in Keys : rows'[l] = IF l \in Owned(u) THEN NoRow ELSE rows[l]
      /\ DOMAIN rows' = Keys
  BY <1>1 DEF TxCommit, DeleteRows
<1>3. /\ \A v \in Users \ {u} : standing'[v] = standing[v] /\ version'[v] = version[v]
  BY <1>1 DEF TxCommit, TypeOK
<1>4. /\ tx'[t].pc = "idle" /\ tx'[t].doomed = {}
      /\ \A v \in Txs \ {t} : tx'[v] = tx[v]
  BY DEF TxCommit, TypeOK, NoTx
<1>5. TypeOK'
  <2>1. rows' \in [Keys -> Row \cup {NoRow}]
    BY <1>2 DEF TypeOK, TxCommit, DeleteRows
  <2>2. standing' \in [Users -> {"fresh", "enabled", "disabled", "deleted"}]
        /\ version' \in [Users -> Nat]
    BY <1>1 DEF TypeOK, TxCommit
  <2> QED BY <2>1, <2>2, IdleTypes DEF TypeOK, TxCommit
<1>6. RowsAreCurrent'
  <2>1. \A l \in Keys : Present(l)' => Present(l) /\ rows'[l] = rows[l] /\ rows[l].acct # u
    BY <1>2 DEF Present, Owned
  <2>2. \A l \in Keys : Present(l) => rows[l].acct \in Users \cup {None}
    BY DEF TypeOK, Row, Present
  <2> QED BY <1>3, <2>1, <2>2 DEF RowsAreCurrent, Present
<1>7. GrantsOwned'
  BY <1>2 DEF GrantsOwned, Present
<1>8. SavesHold'
  <2> SUFFICES ASSUME NEW r \in Savers, save[r].pc # "idle" PROVE SaveHolds(r)'
    BY DEF SavesHold, TxCommit
  <2>1. SaveHolds(r) /\ save[r] \in SaveState
    BY DEF SavesHold, TypeOK
  <2>2. UserLocked(u) /\ \A l \in Owned(u) : RowLocked(l)
    BY <1>1 DEF UserLocked, RowLocked
  <2>3. save[r].acct # u /\ (save[r].pc = "write" => save[r].owner # u)
    BY <1>1, <2>1, <2>2, ConstantsAssumption DEF SaveHolds
  <2>4. (\A w : ~UserLocked(w) => ~UserLocked(w)') /\ (\A l : ~RowLocked(l) => ~RowLocked(l)')
    BY <1>4 DEF UserLocked, RowLocked
  <2>5. save[r].pc \in {"parent", "write"} /\ save[r].grant # None => Present(save[r].grant)'
    <3> SUFFICES ASSUME save[r].pc \in {"parent", "write"}, save[r].grant # None
                 PROVE  Present(save[r].grant)'
      BY DEF TxCommit
    <3>1. save[r].grant \in Keys
      BY <2>1 DEF SaveState, Keys
    <3>2. Present(save[r].grant) /\ save[r].grant \notin Owned(u)
      BY <2>1, <2>2 DEF SaveHolds
    <3>3. rows'[save[r].grant] = rows[save[r].grant] /\ save' = save
      BY <1>2, <3>1, <3>2 DEF TxCommit
    <3> QED BY <3>2, <3>3 DEF Present
  <2>6. save' = save
    BY DEF TxCommit
  <2> QED
    BY <1>3, <2>1, <2>3, <2>4, <2>5, <2>6 DEF SaveHolds, SaveState
<1>9. TxsHold'
  <2>1. ASSUME NEW v \in Txs PROVE TxHolds(v)'
    <3>1. CASE v = t
      BY <1>4, <3>1 DEF TxHolds
    <3>2. CASE v # t /\ tx[v].pc # "idle"
      <4>1. tx'[v] = tx[v] /\ tx[v].user \in Users /\ tx[v].user # u /\ TxHolds(v)
        BY <1>1, <1>4, <3>2 DEF TxsHold, TxHolds, OneTxPerUser
      <4>2. \A l \in Keys : l \in Owned(tx[v].user)' <=> l \in Owned(tx[v].user)
        BY <1>2, <4>1 DEF Owned, Present
      <4>3. Owned(tx[v].user)' = Owned(tx[v].user)
        BY <4>2 DEF Owned
      <4> QED BY <1>3, <4>1, <4>3 DEF TxHolds
    <3>3. CASE v # t /\ tx[v].pc = "idle"
      BY <1>4, <3>3 DEF TxsHold, TxHolds
    <3> QED BY <3>1, <3>2, <3>3
  <2>2. OneTxPerUser'
    BY <1>4 DEF TxsHold, OneTxPerUser
  <2> QED BY <2>1, <2>2 DEF TxsHold
<1> QED
  BY <1>5, <1>6, <1>7, <1>8, <1>9

LEMMA TxEndIInv ==
  ASSUME IInv, NEW t \in Txs, TxEnd(t)
  PROVE  IInv'
<1> USE DEF IInv
<1>1. TypeOK'
  BY IdleTypes DEF TxEnd, TypeOK
<1>2. RowsAreCurrent' /\ GrantsOwned'
  BY DEF TxEnd, RowsAreCurrent, GrantsOwned, Present
<1>3. /\ tx'[t].pc = "idle" /\ tx'[t].doomed = {}
      /\ \A v \in Txs \ {t} : tx'[v] = tx[v]
  BY DEF TxEnd, TypeOK, NoTx
<1>4. SavesHold'
  <2>1. (\A w : ~UserLocked(w) => ~UserLocked(w)') /\ (\A l : ~RowLocked(l) => ~RowLocked(l)')
    BY <1>3 DEF UserLocked, RowLocked
  <2> QED
    BY <2>1 DEF TxEnd, SavesHold, SaveHolds, Present
<1>5. TxsHold'
  <2>1. \A w : Owned(w)' = Owned(w)
    BY DEF Owned, Present, TxEnd
  <2>2. ASSUME NEW v \in Txs PROVE TxHolds(v)'
    <3>1. CASE v = t
      BY <1>3, <3>1 DEF TxHolds
    <3>2. CASE v # t
      BY <1>3, <2>1, <3>2 DEF TxEnd, TxsHold, TxHolds
    <3> QED BY <3>1, <3>2
  <2>3. OneTxPerUser'
    BY <1>3 DEF TxsHold, OneTxPerUser
  <2> QED BY <2>2, <2>3 DEF TxsHold
<1> QED
  BY <1>1, <1>2, <1>4, <1>5

\* A step that changes at most the clock.
LEMMA TickIInv ==
  ASSUME IInv, now' \in Nat, UNCHANGED <<standing, version, rows, save, tx, wins>>
  PROVE  IInv'
<1> USE DEF IInv
<1>1. TypeOK'
  BY DEF TypeOK
<1>2. RowsAreCurrent' /\ GrantsOwned'
  BY DEF RowsAreCurrent, GrantsOwned, Present
<1>3. SavesHold' /\ TxsHold'
  BY DEF SavesHold, SaveHolds, TxsHold, TxHolds, OneTxPerUser, UserLocked, RowLocked, Owned, Present
<1> QED
  BY <1>1, <1>2, <1>3

\* Every step of the system keeps the invariant.
LEMMA NextIInv == IInv /\ [Next]_vars => IInv'
<1> SUFFICES ASSUME IInv, [Next]_vars PROVE IInv'
  OBVIOUS
<1>1. ASSUME NEW s \in Savers, NEW k \in Grants \cup Artifacts, NEW u \in Users \cup {None},
             NEW g \in Grants \cup {None}, SaveBegin(s, k, u, g)
      PROVE  IInv'
  BY <1>1, SaveBeginIInv
<1>2. ASSUME NEW s \in Savers, SaverStep(s) \/ SaveAbort(s)
      PROVE  IInv'
  BY <1>2, SaveGrantIInv, SaveParentIInv, SaveWriteIInv, SaveAbortIInv DEF SaverStep
<1>3. ASSUME NEW p \in Proofs, NEW ttl \in Lifetimes, SaveProof(p, ttl)
      PROVE  IInv'
  BY <1>3, SaveProofIInv
<1>4. ASSUME NEW k \in Artifacts \cup Proofs, Consume(k)
      PROVE  IInv'
  BY <1>4, ConsumeIInv DEF Keys
<1>5. ASSUME NEW k \in Grants \cup Artifacts, Destroy(k)
      PROVE  IInv'
  <2>1. {k} \in SUBSET Keys /\ \A l \in {k} : Free(l)
    BY <1>5 DEF Keys, Destroy
  <2> QED BY <1>5, <2>1, ForgetIInv DEF Destroy
<1>6. ASSUME NEW M \in Models, NEW g \in Grants, RevokeByGrantId(M, g)
      PROVE  IInv'
  <2> DEFINE linked == {k \in M : Present(k) /\ rows[k].grant = g}
  <2>1. linked \in SUBSET Keys
    BY DEF Keys, Artifacts
  <2>2. DeleteRows(linked) /\ (\A k \in linked : Free(k))
    BY <1>6 DEF RevokeByGrantId
  <2> HIDE DEF linked
  <2> QED BY <1>6, <2>1, <2>2, ForgetIInv DEF RevokeByGrantId
<1>7. ASSUME NEW S \in SUBSET Expired, Cleanup(S)
      PROVE  IInv'
  <2>1. S \in SUBSET Keys /\ \A k \in S : Free(k)
    BY DEF Expired
  <2> QED BY <1>7, <2>1, ForgetIInv DEF Cleanup
<1>8. ASSUME NEW u \in Users, CreateUser(u)
      PROVE  IInv'
  BY <1>8, CreateUserIInv
<1>9. ASSUME NEW t \in Txs, NEW u \in Users,
             NEW target \in {"enabled", "disabled", "deleted"}, TxLock(t, u, target)
      PROVE  IInv'
  BY <1>9, TxLockIInv
<1>10. ASSUME NEW t \in Txs, TxRevoke(t) \/ TxCommit(t) \/ TxEnd(t)
       PROVE  IInv'
  BY <1>10, TxRevokeIInv, TxCommitIInv, TxEndIInv
<1>11. CASE Tick
  <2>1. now' \in Nat
    BY <1>11 DEF Tick, IInv, TypeOK
  <2> QED BY <1>11, <2>1, TickIInv DEF Tick
<1>12. CASE UNCHANGED vars
  <2>1. now' \in Nat
    BY <1>12 DEF vars, IInv, TypeOK
  <2> QED BY <1>12, <2>1, TickIInv DEF vars
<1> QED
  BY <1>1, <1>2, <1>3, <1>4, <1>5, <1>6, <1>7, <1>8, <1>9, <1>10, <1>11, <1>12 DEF Next

\* The strengthening holds in every reachable state.
THEOREM Invariance == Spec => []IInv
BY InitIInv, NextIInv, PTL DEF Spec

\* Rows, statements and transactions always have their types.
THEOREM TypeCorrect == Spec => []TypeOK
<1>1. IInv => TypeOK
  BY DEF IInv
<1> QED BY <1>1, Invariance, PTL

\* For any number of accounts, grants, artifacts and connections, a security
\* change leaves no row of the account behind and no save crosses it.
THEOREM RowsStayCurrent == Spec => []RowsAreCurrent
<1>1. IInv => RowsAreCurrent
  BY DEF IInv
<1> QED BY <1>1, Invariance, PTL

\* The epoch test of find never hides an unexpired row.
THEOREM FindIsComplete == Spec => []FindMissesOnlyExpired
<1>1. IInv => FindMissesOnlyExpired
  BY DEF IInv, RowsAreCurrent, FindMissesOnlyExpired, Visible
<1> QED BY <1>1, Invariance, PTL

\* A save whose payload names the grant's account never waits in a circle with
\* an account transaction: it would hold the account row the other has locked.
THEOREM NamedSavesAreSafe == Spec => []NamedSavesDoNotDeadlock
<1>1. IInv => NamedSavesDoNotDeadlock
  <2> SUFFICES ASSUME IInv, NEW s \in Savers, NEW t \in Txs, Deadlocked(s, t),
                      save[s].acct = tx[t].user
               PROVE  FALSE
    BY DEF NamedSavesDoNotDeadlock
  <2>1. save[s].acct # None /\ save[s].pc # "idle" /\ tx[t].pc # "idle"
    BY ConstantsAssumption DEF Deadlocked, IInv, TxsHold, TxHolds
  <2> QED
    BY <2>1 DEF IInv, SavesHold, SaveHolds, UserLocked
<1> QED BY <1>1, Invariance, PTL

----------------------------------------------------------------------------
(* One-use artifacts.                                                      *)

LEMMA ClaimedStep == TypeOK /\ ClaimedOnce /\ [Next]_vars => ClaimedOnce'
<1> SUFFICES ASSUME TypeOK, ClaimedOnce, [Next]_vars PROVE ClaimedOnce'
  OBVIOUS
<1> USE DEF ClaimedOnce
<1>1. ASSUME NEW S \in SUBSET Keys, DeleteRows(S), wins' = wins
      PROVE  ClaimedOnce'
  BY <1>1 DEF DeleteRows, Present
<1>2. ASSUME UNCHANGED <<rows, wins>>
      PROVE  ClaimedOnce'
  BY <1>2 DEF Present
<1>3. ASSUME NEW s \in Savers, SaveWrite(s)
      PROVE  ClaimedOnce'
  <2> DEFINE k == save[s].key
  <2> PICK ttl \in Lifetimes, c \in BOOLEAN :
         rows' = [rows EXCEPT ![k] =
           [acct |-> save[s].owner, grant |-> save[s].grant, version |-> save[s].version,
            exp |-> ExpiresAt(save[s].at, ttl),
            consumed |-> c \/ (Present(k) /\ rows[k].consumed)]]
    BY <1>3 DEF SaveWrite
  <2> SUFFICES ASSUME NEW l \in Keys
               PROVE  wins'[l] <= 1 /\ (rows'[l] # NoRow /\ wins'[l] = 1 => rows'[l].consumed)
    BY DEF Present
  <2>1. CASE l # k
    BY <1>3, <2>1 DEF SaveWrite, TypeOK, Present
  <2>2. CASE l = k /\ Present(k)
    BY <1>3, <2>2 DEF SaveWrite, TypeOK
  <2>3. CASE l = k /\ ~Present(k)
    BY <1>3, <2>3 DEF SaveWrite, TypeOK
  <2> QED BY <2>1, <2>2, <2>3
<1>4. ASSUME NEW p \in Proofs, NEW ttl \in Lifetimes, SaveProof(p, ttl)
      PROVE  ClaimedOnce'
  BY <1>4 DEF SaveProof, TypeOK, Present
<1>5. ASSUME NEW k \in Keys, Consume(k)
      PROVE  ClaimedOnce'
  <2>1. rows[k] \in Row /\ wins[k] = 0
    BY <1>5 DEF Consume, TypeOK, Present
  <2>2. rows'[k].consumed = TRUE /\ wins'[k] = 1
        /\ \A l \in Keys \ {k} : rows'[l] = rows[l] /\ wins'[l] = wins[l]
    BY <1>5, <2>1 DEF Consume, TypeOK, Row
  <2> QED BY <1>5, <2>2 DEF Present
<1>6. ASSUME NEW t \in Txs, TxCommit(t)
      PROVE  ClaimedOnce'
  <2>1. tx[t].doomed \in SUBSET Keys
    BY DEF TypeOK, TxState
  <2> QED BY <1>1, <1>6, <2>1 DEF TxCommit
<1>7. ASSUME NEW M \in Models, NEW g \in Grants, RevokeByGrantId(M, g)
      PROVE  ClaimedOnce'
  <2> DEFINE linked == {k \in M : Present(k) /\ rows[k].grant = g}
  <2>1. linked \in SUBSET Keys
    BY DEF Keys, Artifacts
  <2>2. DeleteRows(linked) /\ wins' = wins
    BY <1>7 DEF RevokeByGrantId
  <2> HIDE DEF linked
  <2> QED BY <1>1, <2>1, <2>2
<1>8. ASSUME NEW S \in SUBSET Expired, Cleanup(S)
      PROVE  ClaimedOnce'
  <2>1. S \in SUBSET Keys
    BY DEF Expired
  <2> QED BY <1>1, <1>8, <2>1 DEF Cleanup
<1>9. ASSUME NEW k \in Grants \cup Artifacts, Destroy(k)
      PROVE  ClaimedOnce'
  <2>1. {k} \in SUBSET Keys
    BY DEF Keys
  <2> QED BY <1>1, <1>9, <2>1 DEF Destroy
<1>10. ASSUME NEW s \in Savers, NEW k, NEW u, NEW g, SaveBegin(s, k, u, g)
       PROVE  ClaimedOnce'
  BY <1>2, <1>10 DEF SaveBegin
<1>11. ASSUME NEW s \in Savers, SaveGrant(s) \/ SaveParent(s) \/ SaveAbort(s)
       PROVE  ClaimedOnce'
  BY <1>2, <1>11 DEF SaveGrant, SaveParent, SaveAbort
<1>12. ASSUME NEW u \in Users, CreateUser(u)
       PROVE  ClaimedOnce'
  BY <1>2, <1>12 DEF CreateUser
<1>13. ASSUME NEW t \in Txs, NEW u, NEW target, TxLock(t, u, target)
       PROVE  ClaimedOnce'
  BY <1>2, <1>13 DEF TxLock
<1>14. ASSUME NEW t \in Txs, TxRevoke(t) \/ TxEnd(t)
       PROVE  ClaimedOnce'
  BY <1>2, <1>14 DEF TxRevoke, TxEnd
<1>15. CASE Tick \/ UNCHANGED vars
  BY <1>2, <1>15 DEF Tick, vars
<1>16. \A k \in Artifacts \cup Proofs : Consume(k) => ClaimedOnce'
  BY <1>5 DEF Keys
<1> QED
  BY <1>3, <1>4, <1>6, <1>7, <1>8, <1>9, <1>10, <1>11, <1>12, <1>13, <1>14, <1>15, <1>16
  DEF Next, SaverStep

\* At most one claim of a stored one-use artifact succeeds, for any number of
\* connections claiming it and saving it at once.
THEOREM OneUse == Spec => []ClaimedOnce
<1>1. Init => ClaimedOnce
  BY DEF Init, ClaimedOnce, Present
<1> QED BY <1>1, TypeCorrect, ClaimedStep, PTL DEF Spec

----------------------------------------------------------------------------
(* Replay detection.                                                       *)

\* A proof belongs to no account, so no account transaction deletes it.
ProofsUnowned == \A p \in Proofs : Present(p) => rows[p].acct = None

\* What one step does to the proofs: it leaves them, removes expired ones,
\* stores one that was not there, or marks one consumed.
LEMMA ProofStep ==
  ASSUME IInv, ProofsUnowned, [Next]_vars, NEW p \in Proofs
  PROVE  /\ Present(p)' => rows'[p].acct = None
         /\ Present(p) /\ Live(rows[p], now) => rows'[p] # NoRow /\ rows'[p].exp = rows[p].exp
<1> DEFINE Goal == /\ Present(p)' => rows'[p].acct = None
                   /\ Present(p) /\ Live(rows[p], now) =>
                        rows'[p] # NoRow /\ rows'[p].exp = rows[p].exp
<1> SUFFICES Goal
  OBVIOUS
<1>1. /\ TypeOK /\ p \in Keys /\ p \notin Grants
      /\ \A M \in Models : p \notin M
      /\ p \notin Artifacts
      /\ Present(p) => rows[p].acct = None
  BY ConstantsAssumption DEF IInv, Keys, Artifacts, ProofsUnowned
<1>2. ASSUME rows'[p] = rows[p] PROVE Goal
  BY <1>1, <1>2 DEF Present
<1>3. ASSUME NEW S, p \notin S \/ ~Live(rows[p], now), DeleteRows(S) PROVE Goal
  BY <1>1, <1>3 DEF DeleteRows, Present
<1>4. ASSUME NEW s \in Savers, SaveWrite(s) PROVE Goal
  <2>1. save[s].key # p
    BY <1>1, <1>4 DEF IInv, SaveWrite, SavesHold, SaveHolds
  <2>2. rows'[p] = rows[p]
    BY <1>1, <1>4, <2>1 DEF SaveWrite, TypeOK
  <2> QED BY <1>2, <2>2
<1>5. ASSUME NEW q \in Proofs, NEW ttl \in Lifetimes, SaveProof(q, ttl) PROVE Goal
  <2>1. CASE q # p
    <3>1. rows'[p] = rows[p]
      BY <1>1, <1>5, <2>1 DEF SaveProof, TypeOK
    <3> QED BY <1>2, <3>1
  <2>2. CASE q = p
    <3>1. ~Present(p) /\ rows'[p].acct = None
      BY <1>1, <1>5, <2>2 DEF SaveProof, TypeOK
    <3> QED BY <3>1
  <2> QED BY <2>1, <2>2
<1>6. ASSUME NEW k \in Artifacts \cup Proofs, Consume(k) PROVE Goal
  <2>1. CASE k # p
    <3>1. rows'[p] = rows[p]
      BY <1>1, <1>6, <2>1 DEF Consume, TypeOK
    <3> QED BY <1>2, <3>1
  <2>2. CASE k = p
    <3>1. rows[p] \in Row /\ rows' = [rows EXCEPT ![p].consumed = TRUE]
      BY <1>1, <1>6, <2>2 DEF Consume, TypeOK, Present
    <3>2. rows'[p] \in Row /\ rows'[p].acct = rows[p].acct /\ rows'[p].exp = rows[p].exp
      BY <1>1, <3>1 DEF TypeOK, Row
    <3> QED BY <1>1, <1>6, <2>2, <3>2, NoRowAssumption DEF Consume
  <2> QED BY <2>1, <2>2
<1>7. ASSUME NEW k \in Grants \cup Artifacts, Destroy(k) PROVE Goal
  <2>1. p \notin {k}
    BY <1>1
  <2> QED BY <1>3, <1>7, <2>1 DEF Destroy
<1>8. ASSUME NEW M \in Models, NEW g \in Grants, RevokeByGrantId(M, g) PROVE Goal
  <2> DEFINE linked == {k \in M : Present(k) /\ rows[k].grant = g}
  <2>1. p \notin linked /\ DeleteRows(linked)
    BY <1>1, <1>8 DEF RevokeByGrantId
  <2> HIDE DEF linked
  <2> QED BY <1>3, <2>1
<1>9. ASSUME NEW S \in SUBSET Expired, Cleanup(S) PROVE Goal
  <2>1. p \notin S \/ ~Live(rows[p], now)
    BY DEF Expired
  <2> QED BY <1>3, <1>9, <2>1 DEF Cleanup
<1>10. ASSUME NEW t \in Txs, TxCommit(t) PROVE Goal
  <2>1. p \notin tx[t].doomed
    <3>1. tx[t].doomed = Owned(tx[t].user) /\ tx[t].user \in Users
      BY <1>10 DEF IInv, TxsHold, TxHolds, TxCommit
    <3>2. tx[t].user # None
      BY <3>1, ConstantsAssumption
    <3> QED BY <1>1, <3>1, <3>2 DEF Owned
  <2> QED BY <1>3, <1>10, <2>1 DEF TxCommit
<1>11. ASSUME UNCHANGED rows PROVE Goal
  BY <1>2, <1>11
<1> HIDE DEF Goal
<1>12. ASSUME NEW s \in Savers, NEW k, NEW u, NEW g, SaveBegin(s, k, u, g) PROVE Goal
  BY <1>11, <1>12 DEF SaveBegin
<1>13. ASSUME NEW s \in Savers, SaveGrant(s) \/ SaveParent(s) \/ SaveAbort(s) PROVE Goal
  BY <1>11, <1>13 DEF SaveGrant, SaveParent, SaveAbort
<1>14. ASSUME NEW u \in Users, CreateUser(u) PROVE Goal
  BY <1>11, <1>14 DEF CreateUser
<1>15. ASSUME NEW t \in Txs, NEW u, NEW target, TxLock(t, u, target) PROVE Goal
  BY <1>11, <1>15 DEF TxLock
<1>16. ASSUME NEW t \in Txs, TxRevoke(t) \/ TxEnd(t) PROVE Goal
  BY <1>11, <1>16 DEF TxRevoke, TxEnd
<1>17. CASE Tick \/ UNCHANGED vars
  BY <1>11, <1>17 DEF Tick, vars
<1> QED
  BY <1>4, <1>5, <1>6, <1>7, <1>8, <1>9, <1>10, <1>12, <1>13, <1>14, <1>15, <1>16, <1>17
  DEF Next, SaverStep

\* An accepted proof blocks its replay for its whole lifetime, whatever account
\* transactions, revocations and cleanups run.
THEOREM ProofsBlockReplay == Spec => ReplayWindow
<1>1. Init => ProofsUnowned
  BY DEF Init, ProofsUnowned, Present, Keys
<1>2. IInv /\ ProofsUnowned /\ [Next]_vars => ProofsUnowned'
  BY ProofStep DEF ProofsUnowned
<1>3. IInv /\ ProofsUnowned /\ [Next]_vars =>
        [\A p \in Proofs : Present(p) /\ Live(rows[p], now) =>
           rows'[p] # NoRow /\ rows'[p].exp = rows[p].exp]_vars
  BY ProofStep
<1> QED BY <1>1, <1>2, <1>3, Invariance, PTL DEF Spec, ReplayWindow

----------------------------------------------------------------------------
(* Refinement of ArtifactStore.                                            *)

LEMMA StoreIds == Store!Ids = Keys
BY DEF Store!Ids, Keys

\* What ArtifactStore sees of a stored row, and that it is not "nothing".
LEMMA ArtOf ==
  ASSUME TypeOK, NEW k \in Keys
  PROVE  /\ Present(k) => /\ Arts[k] # NoRow
                          /\ Arts[k] = [owner |-> rows[k].acct, grant |-> rows[k].grant,
                                        consumed |-> rows[k].consumed]
                          /\ Arts[k].owner = rows[k].acct
                          /\ Arts[k].consumed = rows[k].consumed
         /\ ~Present(k) => Arts[k] = NoRow
<1>1. Present(k) => [owner |-> rows[k].acct, grant |-> rows[k].grant,
                     consumed |-> rows[k].consumed] \in Artifact
  BY DEF TypeOK, Present, Row, Artifact
<1>2. Present(k) => /\ Arts[k] # NoRow
                    /\ Arts[k] = [owner |-> rows[k].acct, grant |-> rows[k].grant,
                                  consumed |-> rows[k].consumed]
  BY <1>1, NoRowAssumption DEF Arts
<1>3. Present(k) => Arts[k].owner = rows[k].acct /\ Arts[k].consumed = rows[k].consumed
  BY <1>2
<1>4. ~Present(k) => Arts[k] = NoRow
  BY DEF Arts
<1> QED BY <1>2, <1>3, <1>4

LEMMA InitRefines == Init => Store!Init
BY StoreIds DEF Init, Store!Init, Arts, Present

\* Rows are deleted: the store forgets them.
LEMMA ForgetRefines ==
  ASSUME NEW S \in SUBSET Keys, DeleteRows(S), UNCHANGED standing
  PROVE  Store!Forget(S)
BY StoreIds DEF Store!Forget, DeleteRows, Arts, Present

\* The write of a save is where the artifact is issued: its account is enabled
\* and its grant is stored for the same account at that instant.
LEMMA SaveWriteRefines ==
  ASSUME IInv, NEW s \in Savers, SaveWrite(s)
  PROVE  Store!Issue(save[s].key, save[s].owner, save[s].grant)
<1>1. PICK k \in Keys, u \in Users \cup {None}, g \in Grants \cup {None},
           ver \in Nat \cup {None}, at \in Nat :
        /\ k = save[s].key /\ u = save[s].owner /\ g = save[s].grant
        /\ ver = save[s].version /\ at = save[s].at
  BY DEF IInv, SaveWrite, SavesHold, SaveHolds, TypeOK, Keys, SaveState
<1>2. TypeOK /\ SaveHolds(s) /\ save[s].pc = "write"
  BY DEF IInv, SavesHold, SaveWrite
<1>3. u # None => standing[u] = "enabled"
  BY <1>1, <1>2 DEF SaveHolds
<1>4. g # None => u # None /\ Arts[g] # NoRow /\ Arts[g].owner = u
  <2> SUFFICES ASSUME g # None PROVE u # None /\ Arts[g] # NoRow /\ Arts[g].owner = u
    OBVIOUS
  <2>1. g \in Grants /\ g \in Keys /\ u = GrantOwner[g] /\ Present(g)
    BY <1>1, <1>2 DEF SaveHolds, Keys
  <2>2. rows[g].acct = u /\ u # None
    BY <2>1, ConstantsAssumption DEF IInv, GrantsOwned
  <2> QED BY <1>2, <2>1, <2>2, ArtOf
<1>5. PICK ttl \in Lifetimes, c \in BOOLEAN :
        rows' = [rows EXCEPT ![k] =
          [acct |-> u, grant |-> g, version |-> ver, exp |-> ExpiresAt(at, ttl),
           consumed |-> c \/ (Present(k) /\ rows[k].consumed)]]
  BY <1>1 DEF SaveWrite
<1> DEFINE used == c \/ (Present(k) /\ rows[k].consumed)
           exp == ExpiresAt(at, ttl)
           row == [acct |-> u, grant |-> g, version |-> ver, exp |-> exp, consumed |-> used]
<1>6. used \in BOOLEAN /\ exp \in Nat \cup {None}
  BY ConstantsAssumption DEF ExpiresAt
<1>7. used = (c \/ (Arts[k] # NoRow /\ Arts[k].consumed))
  <2>1. CASE Present(k)
    <3>1. Arts[k] # NoRow /\ Arts[k].consumed = rows[k].consumed
      BY <1>2, <2>1, ArtOf
    <3> QED BY <2>1, <3>1
  <2>2. CASE ~Present(k)
    BY <1>2, <2>2, ArtOf
  <2> QED BY <2>1, <2>2
<1>8. rows' = [rows EXCEPT ![k] = row]
  BY <1>5
<1> HIDE DEF used, exp
<1>9. row \in Row /\ row # NoRow /\ row.acct = u /\ row.grant = g /\ row.consumed = used
  BY <1>6, NoRowAssumption DEF Row
<1> HIDE DEF row
<1>10. rows'[k] = row /\ \A l \in Keys \ {k} : rows'[l] = rows[l]
  BY <1>2, <1>8 DEF TypeOK
<1>11. Arts' = [Arts EXCEPT ![k] = [owner |-> u, grant |-> g, consumed |-> used]]
  BY <1>9, <1>10 DEF Arts, Present
<1>12. Arts' = [Arts EXCEPT ![k] = [owner |-> u, grant |-> g,
                                    consumed |-> c \/ (Arts[k] # NoRow /\ Arts[k].consumed)]]
  BY <1>7, <1>11
<1>13. Store!Issue(k, u, g)
  BY <1>3, <1>4, <1>12 DEF Store!Issue, Store!Stored, SaveWrite
<1> QED BY <1>1, <1>13

\* An accepted proof is issued without an account.
LEMMA SaveProofRefines ==
  ASSUME TypeOK, NEW p \in Proofs, NEW ttl \in Lifetimes, SaveProof(p, ttl)
  PROVE  Store!Issue(p, None, None)
<1> DEFINE exp == ExpiresAt(now, ttl)
           row == [acct |-> None, grant |-> None, version |-> None, exp |-> exp, consumed |-> FALSE]
<1>1. p \in Keys /\ ~Present(p) /\ exp \in Nat \cup {None} /\ rows' = [rows EXCEPT ![p] = row]
  BY ConstantsAssumption DEF SaveProof, Keys, ExpiresAt, TypeOK
<1> HIDE DEF exp
<1>2. row \in Row /\ row # NoRow /\ row.acct = None /\ row.grant = None /\ row.consumed = FALSE
  <2>1. row \in Row
    BY <1>1 DEF Row
  <2>2. row.acct = None /\ row.grant = None /\ row.consumed = FALSE
    OBVIOUS
  <2> QED BY <2>1, <2>2, NoRowAssumption
<1> HIDE DEF row
<1>3. Arts[p] = NoRow
  BY <1>1, ArtOf
<1>4. rows'[p] = row /\ \A l \in Keys \ {p} : rows'[l] = rows[l]
  BY <1>1 DEF TypeOK
<1>5. Arts' = [Arts EXCEPT ![p] = [owner |-> None, grant |-> None, consumed |-> FALSE]]
  BY <1>2, <1>4 DEF Arts, Present
<1>6. Arts' = [Arts EXCEPT ![p] = [owner |-> None, grant |-> None,
                 consumed |-> FALSE \/ (Arts[p] # NoRow /\ Arts[p].consumed)]]
  BY <1>3, <1>5
<1> QED
  BY <1>6 DEF Store!Issue, Store!Stored, SaveProof

\* The one winning claim.
LEMMA ConsumeRefines ==
  ASSUME TypeOK, NEW k \in Keys, Consume(k)
  PROVE  Store!Consume(k)
<1>1. Present(k) /\ ~rows[k].consumed /\ rows[k] \in Row
      /\ rows' = [rows EXCEPT ![k].consumed = TRUE]
  BY DEF Consume, TypeOK, Present
<1>2. /\ Arts[k] # NoRow
      /\ Arts[k] = [owner |-> rows[k].acct, grant |-> rows[k].grant, consumed |-> rows[k].consumed]
  BY <1>1, ArtOf
<1>3. rows'[k] \in Row /\ rows'[k] # NoRow /\ rows'[k].consumed = TRUE
      /\ rows'[k].acct = rows[k].acct /\ rows'[k].grant = rows[k].grant
      /\ \A l \in Keys \ {k} : rows'[l] = rows[l]
  BY <1>1, NoRowAssumption DEF Row, TypeOK
<1>4. /\ Arts'[k] = [owner |-> rows[k].acct, grant |-> rows[k].grant, consumed |-> TRUE]
      /\ \A l \in Keys \ {k} : Arts'[l] = Arts[l]
  BY <1>3 DEF Arts, Present
<1>5. Arts' = [Arts EXCEPT ![k].consumed = TRUE]
  BY <1>2, <1>4 DEF Arts
<1> QED BY <1>1, <1>2, <1>5 DEF Store!Consume, Store!Stored, Consume

\* The commit of an account transaction removes all the account had.
LEMMA TxCommitRefines ==
  ASSUME IInv, NEW t \in Txs, TxCommit(t)
  PROVE  tx[t].user \in Users /\ Store!Secure(tx[t].user, tx[t].target)
<1>1. TypeOK /\ tx[t].doomed = Owned(tx[t].user) /\ tx[t].user \in Users
      /\ standing[tx[t].user] \in {"enabled", "disabled"}
  BY DEF IInv, TxsHold, TxHolds, TxCommit
<1>2. \A k \in Keys : (Arts[k] # NoRow /\ Arts[k].owner = tx[t].user) <=> k \in Owned(tx[t].user)
  <2> SUFFICES ASSUME NEW k \in Keys
               PROVE  (Arts[k] # NoRow /\ Arts[k].owner = tx[t].user) <=> k \in Owned(tx[t].user)
    OBVIOUS
  <2>1. CASE Present(k)
    <3>1. Arts[k] # NoRow /\ Arts[k].owner = rows[k].acct
      BY <1>1, <2>1, ArtOf
    <3> QED BY <2>1, <3>1 DEF Owned
  <2>2. CASE ~Present(k)
    BY <1>1, <2>2, ArtOf DEF Owned
  <2> QED BY <2>1, <2>2
<1>3. Arts' = [k \in Keys |-> IF k \in Owned(tx[t].user) THEN NoRow ELSE Arts[k]]
  BY <1>1 DEF Arts, Present, TxCommit, DeleteRows
<1>4. Arts' = [k \in Keys |-> IF Arts[k] # NoRow /\ Arts[k].owner = tx[t].user
                                THEN NoRow ELSE Arts[k]]
  BY <1>2, <1>3
<1> QED BY <1>1, <1>4, StoreIds DEF Store!Secure, Store!Stored, TxCommit

\* Every step is a step of the store, or changes nothing it can see.
LEMMA NextRefines == IInv /\ [Next]_vars => [Store!Next]_Store!absVars
<1> SUFFICES ASSUME IInv, [Next]_vars PROVE Store!Next \/ UNCHANGED Store!absVars
  OBVIOUS
<1>1. TypeOK
  BY DEF IInv
<1>2. ASSUME UNCHANGED <<standing, rows>>
      PROVE  UNCHANGED Store!absVars
  BY <1>2 DEF Store!absVars, Arts, Present
<1>3. ASSUME NEW S \in SUBSET Keys, DeleteRows(S), UNCHANGED standing
      PROVE  Store!Next
  BY <1>3, ForgetRefines, StoreIds DEF Store!Next
<1>4. ASSUME NEW s \in Savers, SaveWrite(s)
      PROVE  Store!Next
  <2>1. /\ save[s].key \in Keys /\ save[s].owner \in Users \cup {None}
        /\ save[s].grant \in Grants \cup {None}
    BY <1>4 DEF IInv, SaveWrite, SavesHold, SaveHolds, TypeOK, Keys, SaveState
  <2> QED BY <1>4, <2>1, SaveWriteRefines, StoreIds DEF Store!Next
<1>5. ASSUME NEW p \in Proofs, NEW ttl \in Lifetimes, SaveProof(p, ttl)
      PROVE  Store!Next
  BY <1>1, <1>5, SaveProofRefines, StoreIds DEF Store!Next, Keys
<1>6. ASSUME NEW k \in Artifacts \cup Proofs, Consume(k)
      PROVE  Store!Next
  BY <1>1, <1>6, ConsumeRefines, StoreIds DEF Store!Next, Keys
<1>7. ASSUME NEW k \in Grants \cup Artifacts, Destroy(k)
      PROVE  Store!Next
  <2>1. {k} \in SUBSET Keys
    BY DEF Keys
  <2> QED BY <1>3, <1>7, <2>1 DEF Destroy
<1>8. ASSUME NEW M \in Models, NEW g \in Grants, RevokeByGrantId(M, g)
      PROVE  Store!Next
  <2> DEFINE linked == {k \in M : Present(k) /\ rows[k].grant = g}
  <2>1. linked \in SUBSET Keys
    BY DEF Keys, Artifacts
  <2>2. DeleteRows(linked) /\ standing' = standing
    BY <1>8 DEF RevokeByGrantId
  <2> HIDE DEF linked
  <2> QED BY <1>3, <2>1, <2>2
<1>9. ASSUME NEW S \in SUBSET Expired, Cleanup(S)
      PROVE  Store!Next
  <2>1. S \in SUBSET Keys
    BY DEF Expired
  <2> QED BY <1>3, <1>9, <2>1 DEF Cleanup
<1>10. ASSUME NEW u \in Users, CreateUser(u)
       PROVE  Store!Next
  <2>1. Store!Create(u)
    BY <1>10 DEF CreateUser, Store!Create, Arts, Present
  <2> QED BY <2>1 DEF Store!Next
<1>11. ASSUME NEW t \in Txs, TxCommit(t)
       PROVE  Store!Next
  <2>1. tx[t].target \in {"enabled", "disabled", "deleted"}
    BY <1>1 DEF TypeOK, TxState
  <2> QED BY <1>11, <2>1, TxCommitRefines DEF Store!Next
<1>12. ASSUME NEW s \in Savers, NEW k, NEW u, NEW g, SaveBegin(s, k, u, g)
       PROVE  UNCHANGED Store!absVars
  BY <1>2, <1>12 DEF SaveBegin
<1>13. ASSUME NEW s \in Savers, SaveGrant(s) \/ SaveParent(s) \/ SaveAbort(s)
       PROVE  UNCHANGED Store!absVars
  BY <1>2, <1>13 DEF SaveGrant, SaveParent, SaveAbort
<1>14. ASSUME NEW t \in Txs, NEW u, NEW target, TxLock(t, u, target)
       PROVE  UNCHANGED Store!absVars
  BY <1>2, <1>14 DEF TxLock
<1>15. ASSUME NEW t \in Txs, TxRevoke(t) \/ TxEnd(t)
       PROVE  UNCHANGED Store!absVars
  BY <1>2, <1>15 DEF TxRevoke, TxEnd
<1>16. CASE Tick \/ UNCHANGED vars
  BY <1>2, <1>16 DEF Tick, vars
<1> QED
  BY <1>4, <1>5, <1>6, <1>7, <1>8, <1>9, <1>10, <1>11, <1>12, <1>13, <1>14, <1>15, <1>16
  DEF Next, SaverStep

\* For every number of accounts, artifacts and connections the adapter and the
\* account transactions implement ArtifactStore.
THEOREM Implements == Spec => StoreSpec
<1>1. Spec => Store!Init /\ [][Store!Next]_Store!absVars
  BY InitRefines, NextRefines, Invariance, PTL DEF Spec
<1> QED BY <1>1 DEF StoreSpec, Store!Spec
============================================================================
