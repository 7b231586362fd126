--------------------- MODULE FederatedIdentitiesProofs ---------------------
(***************************************************************************)
(* Proofs about FederatedIdentities, for every number of accounts,         *)
(* subjects and connections: its transactions implement IdentityLinks.     *)
(* Then about ScimGroups: no update of a group is lost, and users.groups   *)
(* is right as long as no two transactions affect a common account.        *)
(***************************************************************************)
EXTENDS FederatedIdentities, ScimGroups, TLAPS

(***************************************************************************)
(* The inductive invariant says what each lock excludes.  A commit writes  *)
(* what earlier statements decided, so everything they looked at has to    *)
(* hold still: the login namespace for a new account, the primary key of   *)
(* federated_identities for a new link, the users row for its account.     *)
(***************************************************************************)

\* Which fields a transaction has at which point.
Shape(r) ==
  \/ r = NoTx
  \/ r.op = "resolve" /\ r.pc \in {"update", "collide", "account"} /\ r.sub \in Subjects
  \/ r.op = "resolve" /\ r.pc \in {"link", "stored", "found"} /\ r.sub \in Subjects /\ r.user \in Users
  \/ r.op = "link" /\ r.pc \in {"user", "insert", "stored"} /\ r.sub \in Subjects /\ r.user \in Users
  \/ r.op = "delete" /\ r.pc = "cascade" /\ r.user \in Users

Transaction ==
  [op : {None, "resolve", "link", "delete"},
   pc : {"idle", "update", "collide", "account", "link", "stored", "found", "user", "insert", "cascade"},
   sub : Subjects \cup {None}, user : Users \cup {None}]

Types ==
  /\ standing \in [Users -> {"fresh", "enabled", "disabled", "deleted"}]
  /\ login \in [Users -> Names \cup {None}]
  /\ link \in [Subjects -> Users \cup {None}]
  /\ tx \in [Txs -> Transaction]
  /\ \A t \in Txs : Shape(tx[t])

Creating(t) == tx[t].op = "resolve" /\ tx[t].pc \in {"link", "stored"}
LinkOpen(t) == tx[t].op = "link" /\ tx[t].pc \in {"user", "insert", "stored"}
Deleting(t) == tx[t].op = "delete" /\ tx[t].pc = "cascade"
Linking(t) == tx[t].op = "link" /\ tx[t].pc \in {"insert", "stored"}
Storing(t) == tx[t].op \in {"resolve", "link"} /\ tx[t].pc = "stored"

\* A link leads to an account that exists; no two lead to one, and no two
\* accounts have one login name.
LinksHold ==
  /\ \A s \in Subjects : link[s] # None => Present(link[s])
  /\ \A s, o \in Subjects : link[s] # None /\ link[s] = link[o] => s = o
  /\ \A u, v \in Users : Present(u) /\ Present(v) /\ login[u] = login[v] => u = v

\* The namespace lock: one new account at a time, whose name stays free.
CreatingHolds ==
  \A t \in Txs : Creating(t) =>
    /\ Unused(tx[t].user) /\ ~LoginTaken(NameOf[tx[t].sub])
    /\ \A o \in Txs : Creating(o) => o = t

\* FOR KEY SHARE: the account of a link is not deleted under it.  The lock of
\* account and provider: no two links of one account.
LinkingHolds ==
  /\ \A t \in Txs : Linking(t) =>
       /\ Present(tx[t].user)
       /\ \A o \in Txs : Deleting(o) => tx[o].user # tx[t].user
  /\ \A t, o \in Txs : LinkOpen(t) /\ LinkOpen(o) /\ tx[t].user = tx[o].user => t = o

\* The primary key: a link that waits for its commit has no rival.
StoringHolds ==
  /\ \A t \in Txs : Storing(t) => link[tx[t].sub] = None
  /\ \A t, o \in Txs : Storing(t) /\ Storing(o) /\ tx[t].sub = tx[o].sub => t = o
  /\ \A t \in Txs : Storing(t) /\ tx[t].op = "link" => \A s \in Subjects : link[s] # tx[t].user

IInv ==
  Types /\ LinksHold /\ CreatingHolds /\ LinkingHolds /\ StoringHolds /\ ResolutionIsCurrent

----------------------------------------------------------------------------
(* Facts every step uses.                                                  *)

\* Initially nobody has an account and nothing runs.
LEMMA InitIInv == Init => IInv
<1> SUFFICES ASSUME Init PROVE IInv
  OBVIOUS
<1>1. Types
  BY LinksAssumption DEF Init, LinksInit, Types, Transaction, Shape, NoTx
<1>2. LinksHold
  BY <1>1 DEF Init, LinksInit, LinksHold, Present
<1>3. CreatingHolds /\ LinkingHolds /\ StoringHolds /\ ResolutionIsCurrent
  BY LinksAssumption DEF Init, NoTx, CreatingHolds, LinkingHolds, StoringHolds,
     ResolutionIsCurrent, Creating, Linking, LinkOpen, Storing, In
<1> QED BY <1>1, <1>2, <1>3 DEF IInv

\* What a step may write into a transaction.
LEMMA ShapeSet ==
  ASSUME Types, NEW t \in Txs, NEW r \in Transaction, Shape(r)
  PROVE  [tx EXCEPT ![t] = r] \in [Txs -> Transaction]
         /\ \A o \in Txs : Shape([tx EXCEPT ![t] = r][o])
BY DEF Types

\* Types are preserved.
LEMMA TypesStep == Types /\ [Next]_vars => Types'
<1> SUFFICES ASSUME Types, [Next]_vars PROVE Types'
  OBVIOUS
<1> USE LinksAssumption
<1>1. NoTx \in Transaction /\ Shape(NoTx)
  BY DEF NoTx, Transaction, Shape
<1>2. ASSUME NEW t \in Txs, End(t), UNCHANGED linkVars PROVE Types'
  BY <1>1, <1>2, ShapeSet DEF Types, End, linkVars
<1>3. ASSUME NEW t \in Txs, NEW r \in Transaction, Shape(r), tx' = [tx EXCEPT ![t] = r],
             UNCHANGED linkVars
      PROVE  Types'
  BY <1>3, ShapeSet DEF Types, linkVars
<1>4. CASE UNCHANGED vars
  BY <1>4 DEF Types, vars, linkVars
<1>5. ASSUME NEW t \in Txs, NEW s \in Subjects, ResolveBegin(t, s) PROVE Types'
  BY <1>5, <1>3 DEF ResolveBegin, Run, Transaction, Shape
<1>6. ASSUME NEW t \in Txs, ResolveFound(t) PROVE Types'
  <2> DEFINE r == [tx[t] EXCEPT !.pc = "found", !.user = link[tx[t].sub]]
  <2>1. tx' = [tx EXCEPT ![t] = r] /\ UNCHANGED linkVars
    BY <1>6 DEF ResolveFound
  <2>2. tx[t] \in Transaction /\ tx[t].op = "resolve" /\ tx[t].sub \in Subjects
        /\ link[tx[t].sub] \in Users
    BY <1>6 DEF ResolveFound, Types, Shape, NoTx
  <2>3. r \in Transaction /\ r.op = tx[t].op /\ r.pc = "found" /\ r.sub = tx[t].sub
        /\ r.user = link[tx[t].sub]
    BY <2>2 DEF Transaction
  <2>4. Shape(r)
    BY <2>2, <2>3 DEF Shape
  <2> QED BY <1>3, <2>1, <2>3, <2>4
<1>7. ASSUME NEW t \in Txs, ResolveMissed(t) PROVE Types'
  BY <1>7, <1>2 DEF ResolveMissed, Goto, Types, Transaction, Shape, NoTx, linkVars
<1>8. ASSUME NEW t \in Txs, ResolveCollide(t) PROVE Types'
  BY <1>8, <1>2 DEF ResolveCollide, Goto, Types, Transaction, Shape, NoTx, linkVars
<1>9. ASSUME NEW t \in Txs, NEW u \in Users, ResolveAccount(t, u) PROVE Types'
  BY <1>9 DEF ResolveAccount, Types, Transaction, Shape, NoTx, linkVars
<1>10. ASSUME NEW t \in Txs, ResolveClash(t) \/ Rollback(t) PROVE Types'
  BY <1>10, <1>2 DEF ResolveClash, Rollback
<1>11. ASSUME NEW t \in Txs, ResolveLink(t) PROVE Types'
  BY <1>11, <1>2 DEF ResolveLink, Goto, Types, Transaction, Shape, NoTx, linkVars
<1>12. ASSUME NEW t \in Txs, ResolveCommit(t) PROVE Types'
  BY <1>12, <1>1, ShapeSet DEF ResolveCommit, End, Types, Shape, NoTx, linkVars
<1>13. ASSUME NEW t \in Txs, NEW s \in Subjects, NEW u \in Users, LinkBegin(t, s, u) PROVE Types'
  BY <1>13, <1>3 DEF LinkBegin, Run, Transaction, Shape
<1>14. ASSUME NEW t \in Txs, LinkUser(t) PROVE Types'
  BY <1>14, <1>2 DEF LinkUser, Goto, Types, Transaction, Shape, NoTx, linkVars
<1>15. ASSUME NEW t \in Txs, LinkInsert(t) PROVE Types'
  BY <1>15, <1>2 DEF LinkInsert, Goto, Types, Transaction, Shape, NoTx, linkVars
<1>16. ASSUME NEW t \in Txs, LinkCommit(t) PROVE Types'
  BY <1>16, <1>1, ShapeSet DEF LinkCommit, End, Types, Shape, NoTx
<1>17. ASSUME NEW s \in Subjects, Unlink(s) PROVE Types'
  BY <1>17 DEF Unlink, UnlinkAccount, Types
<1>18. ASSUME NEW u \in Users, NEW n \in Names, CreateUser(u, n) PROVE Types'
  BY <1>18 DEF CreateUser, CreateAccount, Types
<1>19. ASSUME NEW u \in Users, NEW to \in {"enabled", "disabled"}, SetEnabled(u, to) PROVE Types'
  BY <1>19 DEF SetEnabled, ChangeStanding, Types
<1>20. ASSUME NEW t \in Txs, NEW u \in Users, DeleteBegin(t, u) PROVE Types'
  BY <1>20, <1>3 DEF DeleteBegin, Run, Transaction, Shape
<1>21. ASSUME NEW t \in Txs, DeleteCommit(t) PROVE Types'
  BY <1>21, <1>1, ShapeSet DEF DeleteCommit, ChangeStanding, End, Types, Shape, NoTx
<1> QED BY <1>4, <1>5, <1>6, <1>7, <1>8, <1>9, <1>10, <1>11, <1>12, <1>13, <1>14, <1>15, <1>16,
           <1>17, <1>18, <1>19, <1>20, <1>21 DEF Next, Step

----------------------------------------------------------------------------
(* Each action keeps what the locks protect, and is a step of IdentityLinks *)
(* or none at all.                                                         *)

Kept == LinksHold /\ CreatingHolds /\ LinkingHolds /\ StoringHolds /\ ResolutionIsCurrent

\* A transaction that ends without writing releases its locks.
LEMMA EndKeeps ==
  ASSUME IInv, Types', NEW t \in Txs, End(t), UNCHANGED linkVars
  PROVE  Kept'
<1>1. tx'[t] = NoTx /\ \A o \in Txs : o # t => tx'[o] = tx[o]
  BY DEF End, IInv, Types
<1>2. LinksHold'
  BY DEF IInv, LinksHold, linkVars, Present
<1>3. /\ \A o \in Txs : Creating(o)' => Creating(o) /\ tx'[o] = tx[o]
      /\ \A o \in Txs : Linking(o)' => Linking(o) /\ tx'[o] = tx[o]
      /\ \A o \in Txs : LinkOpen(o)' => LinkOpen(o) /\ tx'[o] = tx[o]
      /\ \A o \in Txs : Deleting(o)' => Deleting(o) /\ tx'[o] = tx[o]
      /\ \A o \in Txs : Storing(o)' => Storing(o) /\ tx'[o] = tx[o]
  BY <1>1 DEF Creating, Linking, LinkOpen, Deleting, Storing, NoTx
<1>4. CreatingHolds' /\ LinkingHolds' /\ StoringHolds'
  BY <1>3 DEF IInv, CreatingHolds, LinkingHolds, StoringHolds, linkVars, Present, Unused, LoginTaken
<1>5. ResolutionIsCurrent'
  BY <1>1 DEF IInv, ResolutionIsCurrent, In, NoTx, linkVars, Present
<1> QED BY <1>2, <1>4, <1>5 DEF Kept

\* Statements that only read, up to the first lock that matters.
LEMMA ReadKeeps ==
  ASSUME IInv, Types', NEW t \in Txs, UNCHANGED linkVars,
         \A o \in Txs : o # t => tx'[o] = tx[o],
         tx'[t].op = "resolve" /\ tx'[t].pc \in {"update", "collide", "account"}
  PROVE  Kept'
<1>1. LinksHold'
  BY DEF IInv, LinksHold, linkVars, Present
<1>2. /\ \A o \in Txs : Creating(o)' => Creating(o) /\ tx'[o] = tx[o]
      /\ \A o \in Txs : Linking(o)' => Linking(o) /\ tx'[o] = tx[o]
      /\ \A o \in Txs : LinkOpen(o)' => LinkOpen(o) /\ tx'[o] = tx[o]
      /\ \A o \in Txs : Deleting(o)' => Deleting(o) /\ tx'[o] = tx[o]
      /\ \A o \in Txs : Storing(o)' => Storing(o) /\ tx'[o] = tx[o]
  BY DEF Creating, Linking, LinkOpen, Deleting, Storing
<1>3. CreatingHolds' /\ LinkingHolds' /\ StoringHolds'
  BY <1>2 DEF IInv, CreatingHolds, LinkingHolds, StoringHolds, linkVars, Present, Unused, LoginTaken
<1>4. ResolutionIsCurrent'
  BY DEF IInv, ResolutionIsCurrent, In, linkVars, Present
<1> QED BY <1>1, <1>3, <1>4 DEF Kept

\* What the abbreviations of the invariant look at.
LEMMA SameTx ==
  ASSUME NEW o \in Txs, tx'[o] = tx[o]
  PROVE  /\ Creating(o)' = Creating(o) /\ Linking(o)' = Linking(o) /\ LinkOpen(o)' = LinkOpen(o)
         /\ Deleting(o)' = Deleting(o) /\ Storing(o)' = Storing(o)
BY DEF Creating, Linking, LinkOpen, Deleting, Storing

LEMMA ResolveFoundKeeps ==
  ASSUME IInv, Types', NEW t \in Txs, ResolveFound(t)
  PROVE  Kept'
<1>1. /\ UNCHANGED linkVars /\ \A o \in Txs : o # t => tx'[o] = tx[o]
      /\ tx'[t].op = "resolve" /\ tx'[t].pc = "found" /\ tx'[t].sub = tx[t].sub
      /\ tx'[t].user = link[tx[t].sub] /\ tx[t].sub \in Subjects /\ link[tx[t].sub] # None
  BY DEF ResolveFound, IInv, Types, Transaction, Shape, NoTx
<1>2. LinksHold'
  BY <1>1 DEF IInv, LinksHold, linkVars, Present
<1>3. ~Creating(t)' /\ ~Linking(t)' /\ ~LinkOpen(t)' /\ ~Deleting(t)' /\ ~Storing(t)'
  BY <1>1 DEF Creating, Linking, LinkOpen, Deleting, Storing
<1>4. CreatingHolds' /\ LinkingHolds' /\ StoringHolds'
  BY <1>1, <1>3, SameTx
  DEF IInv, CreatingHolds, LinkingHolds, StoringHolds, linkVars, Present, Unused, LoginTaken
<1>5. ResolutionIsCurrent'
  BY <1>1 DEF IInv, ResolutionIsCurrent, LinksHold, In, linkVars, Present
<1> QED BY <1>2, <1>4, <1>5 DEF Kept

LEMMA ResolveAccountKeeps ==
  ASSUME IInv, Types', NEW t \in Txs, NEW u \in Users, ResolveAccount(t, u)
  PROVE  Kept'
<1>1. /\ UNCHANGED linkVars /\ \A o \in Txs : o # t => tx'[o] = tx[o]
      /\ tx'[t].op = "resolve" /\ tx'[t].pc = "link" /\ tx'[t].sub = tx[t].sub
      /\ tx'[t].user = u /\ tx[t].sub \in Subjects
  BY DEF ResolveAccount, IInv, Types, Transaction, Shape, NoTx
<1>2. /\ Unused(u) /\ ~LoginTaken(NameOf[tx[t].sub])
      /\ \A o \in Txs : ~Creating(o)
  BY DEF ResolveAccount, NamespaceLocked, In, Creating
<1>3. LinksHold'
  BY <1>1 DEF IInv, LinksHold, linkVars, Present
<1>4. ~Linking(t)' /\ ~LinkOpen(t)' /\ ~Deleting(t)' /\ ~Storing(t)'
  BY <1>1 DEF Linking, LinkOpen, Deleting, Storing
<1>5. CreatingHolds'
  BY <1>1, <1>2, SameTx DEF CreatingHolds, linkVars, Present, Unused, LoginTaken
<1>6. LinkingHolds' /\ StoringHolds'
  BY <1>1, <1>4, SameTx DEF IInv, LinkingHolds, StoringHolds, linkVars, Present
<1>7. ResolutionIsCurrent'
  BY <1>1 DEF IInv, ResolutionIsCurrent, In, linkVars, Present
<1> QED BY <1>3, <1>5, <1>6, <1>7 DEF Kept

LEMMA ResolveLinkKeeps ==
  ASSUME IInv, Types', NEW t \in Txs, ResolveLink(t)
  PROVE  Kept'
<1>1. CASE link[tx[t].sub] # None
  BY <1>1, EndKeeps DEF ResolveLink
<1>2. CASE link[tx[t].sub] = None
  <2>1. /\ UNCHANGED linkVars /\ \A o \in Txs : o # t => tx'[o] = tx[o]
        /\ tx[t].op = "resolve" /\ tx[t].pc = "link"
        /\ tx'[t].op = "resolve" /\ tx'[t].pc = "stored" /\ tx'[t].sub = tx[t].sub
        /\ tx'[t].user = tx[t].user /\ tx[t].sub \in Subjects
    BY <1>2 DEF ResolveLink, Goto, IInv, Types, Transaction, Shape, NoTx
  <2>2. \A o \in Txs : o # t /\ Storing(o) => tx[o].sub # tx[t].sub
    BY DEF ResolveLink, Inserting, In, Storing
  <2>3. LinksHold'
    BY <2>1 DEF IInv, LinksHold, linkVars, Present
  <2>4. Creating(t) /\ Creating(t)' /\ ~Linking(t)' /\ ~LinkOpen(t)' /\ ~Deleting(t)' /\ Storing(t)'
    BY <2>1 DEF Creating, Linking, LinkOpen, Deleting, Storing
  <2>5. CreatingHolds' /\ LinkingHolds'
    BY <2>1, <2>4, SameTx DEF IInv, CreatingHolds, LinkingHolds, linkVars, Present, Unused, LoginTaken
  <2>6. StoringHolds'
    BY <1>2, <2>1, <2>2, <2>4, SameTx DEF IInv, StoringHolds, linkVars
  <2>7. ResolutionIsCurrent'
    BY <2>1 DEF IInv, ResolutionIsCurrent, In, linkVars, Present
  <2> QED BY <2>3, <2>5, <2>6, <2>7 DEF Kept
<1> QED BY <1>1, <1>2

LEMMA LinkBeginKeeps ==
  ASSUME IInv, Types', NEW t \in Txs, NEW s \in Subjects, NEW u \in Users, LinkBegin(t, s, u)
  PROVE  Kept'
<1>1. /\ UNCHANGED linkVars /\ \A o \in Txs : o # t => tx'[o] = tx[o]
      /\ tx'[t].op = "link" /\ tx'[t].pc = "user" /\ tx'[t].user = u
  BY DEF LinkBegin, Run, IInv, Types
<1>2. \A o \in Txs : LinkOpen(o) => tx[o].user # u
  BY DEF LinkBegin, UserProviderLocked, In, LinkOpen
<1>3. LinksHold'
  BY <1>1 DEF IInv, LinksHold, linkVars, Present
<1>4. ~Creating(t)' /\ ~Linking(t)' /\ ~Deleting(t)' /\ ~Storing(t)'
  BY <1>1 DEF Creating, Linking, Deleting, Storing
<1>5. CreatingHolds' /\ StoringHolds'
  BY <1>1, <1>4, SameTx DEF IInv, CreatingHolds, StoringHolds, linkVars, Present, Unused, LoginTaken
<1>6. LinkingHolds'
  BY <1>1, <1>2, <1>4, SameTx DEF IInv, LinkingHolds, linkVars, Present
<1>7. ResolutionIsCurrent'
  BY <1>1 DEF IInv, ResolutionIsCurrent, In, linkVars, Present
<1> QED BY <1>3, <1>5, <1>6, <1>7 DEF Kept

LEMMA LinkUserKeeps ==
  ASSUME IInv, Types', NEW t \in Txs, LinkUser(t)
  PROVE  Kept'
<1>1. CASE ~Present(tx[t].user)
  BY <1>1, EndKeeps DEF LinkUser
<1>2. CASE Present(tx[t].user)
  <2>1. /\ UNCHANGED linkVars /\ \A o \in Txs : o # t => tx'[o] = tx[o]
        /\ tx[t].op = "link" /\ tx[t].pc = "user"
        /\ tx'[t].op = "link" /\ tx'[t].pc = "insert" /\ tx'[t].user = tx[t].user
    BY <1>2 DEF LinkUser, Goto, IInv, Types, Transaction
  <2>2. \A o \in Txs : Deleting(o) => tx[o].user # tx[t].user
    BY DEF LinkUser, ForUpdate, In, Deleting
  <2>3. LinksHold'
    BY <2>1 DEF IInv, LinksHold, linkVars, Present
  <2>4. ~Creating(t)' /\ LinkOpen(t) /\ LinkOpen(t)' /\ ~Deleting(t)' /\ ~Storing(t)'
    BY <2>1 DEF Creating, LinkOpen, Deleting, Storing
  <2>5. CreatingHolds' /\ StoringHolds'
    BY <2>1, <2>4, SameTx DEF IInv, CreatingHolds, StoringHolds, linkVars, Present, Unused, LoginTaken
  <2>6. LinkingHolds'
    BY <1>2, <2>1, <2>2, <2>4, SameTx DEF IInv, LinkingHolds, linkVars, Present
  <2>7. ResolutionIsCurrent'
    BY <2>1 DEF IInv, ResolutionIsCurrent, In, linkVars, Present
  <2> QED BY <2>3, <2>5, <2>6, <2>7 DEF Kept
<1> QED BY <1>1, <1>2

LEMMA LinkInsertKeeps ==
  ASSUME IInv, Types', NEW t \in Txs, LinkInsert(t)
  PROVE  Kept'
<1>1. CASE link[tx[t].sub] # None \/ \E o \in Subjects : link[o] = tx[t].user
  BY <1>1, EndKeeps DEF LinkInsert
<1>2. CASE ~(link[tx[t].sub] # None \/ \E o \in Subjects : link[o] = tx[t].user)
  <2>1. /\ UNCHANGED linkVars /\ \A o \in Txs : o # t => tx'[o] = tx[o]
        /\ tx[t].op = "link" /\ tx[t].pc = "insert"
        /\ tx'[t].op = "link" /\ tx'[t].pc = "stored" /\ tx'[t].user = tx[t].user
        /\ tx'[t].sub = tx[t].sub
    BY <1>2 DEF LinkInsert, Goto, IInv, Types, Transaction
  <2>2. \A o \in Txs : o # t /\ Storing(o) => tx[o].sub # tx[t].sub
    BY DEF LinkInsert, Inserting, In, Storing
  <2>3. LinksHold'
    BY <2>1 DEF IInv, LinksHold, linkVars, Present
  <2>4. /\ ~Creating(t)' /\ LinkOpen(t) /\ LinkOpen(t)' /\ Linking(t) /\ Linking(t)'
        /\ ~Deleting(t)' /\ Storing(t)'
    BY <2>1 DEF Creating, Linking, LinkOpen, Deleting, Storing
  <2>5. CreatingHolds' /\ LinkingHolds'
    BY <2>1, <2>4, SameTx DEF IInv, CreatingHolds, LinkingHolds, linkVars, Present, Unused, LoginTaken
  <2>6. StoringHolds'
    BY <1>2, <2>1, <2>2, <2>4, SameTx DEF IInv, StoringHolds, linkVars
  <2>7. ResolutionIsCurrent'
    BY <2>1 DEF IInv, ResolutionIsCurrent, In, linkVars, Present
  <2> QED BY <2>3, <2>5, <2>6, <2>7 DEF Kept
<1> QED BY <1>1, <1>2

----------------------------------------------------------------------------
(* The commits.                                                            *)

\* A resolve that created an account and its link: a CreateLinked step.
LEMMA ResolveCommitKeeps ==
  ASSUME IInv, Types', NEW t \in Txs, ResolveCommit(t)
  PROVE  Kept' /\ (LinksNext \/ UNCHANGED linkVars)
<1>1. CASE tx[t].pc = "found" /\ UNCHANGED linkVars
  BY <1>1, EndKeeps DEF ResolveCommit
<1>2. CASE tx[t].pc = "stored" /\ ~UNCHANGED linkVars
  <2> DEFINE s == tx[t].sub
             u == tx[t].user
  <2>1. /\ s \in Subjects /\ u \in Users
        /\ standing' = [standing EXCEPT ![u] = "enabled"]
        /\ login' = [login EXCEPT ![u] = NameOf[s]] /\ link' = [link EXCEPT ![s] = u]
        /\ tx'[t] = NoTx /\ \A o \in Txs : o # t => tx'[o] = tx[o]
    BY <1>2 DEF ResolveCommit, End, IInv, Types, Shape, NoTx
  <2>2. Creating(t) /\ Storing(t)
    BY <1>2 DEF ResolveCommit, Creating, Storing
  <2>3. /\ Unused(u) /\ ~LoginTaken(NameOf[s]) /\ link[s] = None
        /\ \A o \in Txs : Creating(o) => o = t
        /\ \A o \in Txs : o # t /\ Storing(o) => tx[o].sub # s
    BY <2>1, <2>2 DEF IInv, CreatingHolds, StoringHolds
  <2>4. CreateLinked(s, u)
    BY <2>1, <2>3 DEF CreateLinked
  <2>5. ~Creating(t)' /\ ~Linking(t)' /\ ~LinkOpen(t)' /\ ~Deleting(t)' /\ ~Storing(t)'
    BY <2>1 DEF Creating, Linking, LinkOpen, Deleting, Storing, NoTx
  <2>6. \A v \in Users : /\ v # u => standing'[v] = standing[v] /\ login'[v] = login[v]
                         /\ v # u => Present(v)' = Present(v)
                         /\ v = u => Present(v)' /\ ~Present(v) /\ login'[v] = NameOf[s]
    BY <2>1, <2>3 DEF IInv, Types, Present, Unused
  <2>7. \A o \in Subjects : link'[o] = IF o = s THEN u ELSE link[o]
    BY <2>1 DEF IInv, Types
  <2>8. LinksHold'
    <3>1. \A o \in Subjects : link[o] # None => link[o] \in Users /\ Present(link[o])
      BY DEF IInv, Types, LinksHold
    <3>2. \A o \in Subjects : (link[o] # None => Present(link[o]))'
      BY <2>1, <2>6, <2>7, <3>1
    <3>3. \A o, p \in Subjects : link'[o] # None /\ link'[o] = link'[p] => o = p
      BY <2>6, <2>7, <3>1, <2>1, LinksAssumption DEF IInv, LinksHold
    <3>4. \A v, w \in Users : Present(v)' /\ Present(w)' /\ login'[v] = login'[w] => v = w
      BY <2>3, <2>6 DEF IInv, LinksHold, LoginTaken
    <3> QED BY <3>2, <3>3, <3>4 DEF LinksHold
  <2>9. CreatingHolds'
    BY <2>1, <2>3, <2>5, SameTx DEF CreatingHolds
  <2>10. LinkingHolds'
    BY <2>1, <2>5, <2>6, SameTx DEF IInv, LinkingHolds, Types, Shape, NoTx, Linking
  <2>11. StoringHolds'
    <3>1. \A o \in Txs : Storing(o)' => o # t /\ Storing(o) /\ tx'[o] = tx[o]
                                        /\ tx[o].sub \in Subjects /\ tx[o].sub # s
      BY <2>1, <2>3, <2>5, SameTx DEF IInv, Types, Shape, NoTx, Storing
    <3>2. \A o \in Txs : Storing(o) /\ tx[o].op = "link" => tx[o].user # u
      BY <2>1, <2>3 DEF IInv, LinkingHolds, Linking, Storing, Unused
    <3> QED BY <2>7, <3>1, <3>2 DEF IInv, StoringHolds
  <2>12. ResolutionIsCurrent'
    <3>1. ASSUME NEW o \in In("resolve", {"found"})'
          PROVE  (link[tx[o].sub] = tx[o].user /\ Present(tx[o].user))'
      <4>1. o \in In("resolve", {"found"}) /\ o # t /\ tx'[o] = tx[o] /\ o \in Txs
        BY <2>1, <3>1 DEF In, NoTx
      <4>2. link[tx[o].sub] = tx[o].user /\ Present(tx[o].user) /\ tx[o].sub \in Subjects
            /\ tx[o].user \in Users
        BY <4>1 DEF IInv, ResolutionIsCurrent, Types, Shape, NoTx, In
      <4>3. tx[o].sub # s
        BY <2>3, <4>2, LinksAssumption
      <4> QED BY <2>6, <2>7, <4>1, <4>2, <4>3
    <3> QED BY <3>1 DEF ResolutionIsCurrent
  <2> QED BY <2>1, <2>4, <2>8, <2>9, <2>10, <2>11, <2>12 DEF Kept, LinksNext
<1>3. CASE UNCHANGED linkVars
  BY <1>3, EndKeeps DEF ResolveCommit
<1> QED BY <1>1, <1>2, <1>3 DEF ResolveCommit

\* A link that commits: a LinkAccount step.
LEMMA LinkCommitKeeps ==
  ASSUME IInv, Types', NEW t \in Txs, LinkCommit(t)
  PROVE  Kept' /\ LinksNext
<1> DEFINE s == tx[t].sub
           u == tx[t].user
<1>1. /\ s \in Subjects /\ u \in Users
      /\ link' = [link EXCEPT ![s] = u] /\ standing' = standing /\ login' = login
      /\ tx'[t] = NoTx /\ \A o \in Txs : o # t => tx'[o] = tx[o]
  BY DEF LinkCommit, End, IInv, Types, Shape, NoTx
<1>2. Linking(t) /\ LinkOpen(t) /\ Storing(t) /\ tx[t].op = "link"
  BY DEF LinkCommit, Linking, LinkOpen, Storing
<1>3. /\ Present(u) /\ link[s] = None /\ \A o \in Subjects : link[o] # u
      /\ \A o \in Txs : o # t /\ Storing(o) => tx[o].sub # s
      /\ \A o \in Txs : o # t /\ LinkOpen(o) => tx[o].user # u
  BY <1>1, <1>2 DEF IInv, LinkingHolds, StoringHolds
<1>4. LinkAccount(s, u)
  BY <1>1, <1>3 DEF LinkAccount
<1>5. ~Creating(t)' /\ ~Linking(t)' /\ ~LinkOpen(t)' /\ ~Deleting(t)' /\ ~Storing(t)'
  BY <1>1 DEF Creating, Linking, LinkOpen, Deleting, Storing, NoTx
<1>6. \A o \in Subjects : link'[o] = IF o = s THEN u ELSE link[o]
  BY <1>1 DEF IInv, Types
<1>7. LinksHold'
  BY <1>1, <1>3, <1>6 DEF IInv, LinksHold, Present
<1>8. CreatingHolds' /\ LinkingHolds'
  BY <1>1, <1>5, SameTx DEF IInv, CreatingHolds, LinkingHolds, Present, Unused, LoginTaken
<1>9. StoringHolds'
  <2>1. \A o \in Txs : Storing(o)' => /\ o # t /\ Storing(o) /\ tx'[o] = tx[o]
                                      /\ tx[o].sub \in Subjects /\ tx[o].sub # s
                                      /\ tx[o].op = "link" => tx[o].user # u
    BY <1>1, <1>3, <1>5, SameTx DEF IInv, Types, Shape, NoTx, Storing, LinkOpen
  <2> QED BY <1>6, <2>1 DEF IInv, StoringHolds
<1>10. ResolutionIsCurrent'
  <2>1. ASSUME NEW o \in In("resolve", {"found"})'
        PROVE  (link[tx[o].sub] = tx[o].user /\ Present(tx[o].user))'
    <3>1. o \in In("resolve", {"found"}) /\ o # t /\ tx'[o] = tx[o] /\ o \in Txs
      BY <1>1, <2>1 DEF In, NoTx
    <3>2. link[tx[o].sub] = tx[o].user /\ Present(tx[o].user) /\ tx[o].sub \in Subjects
          /\ tx[o].user \in Users
      BY <3>1 DEF IInv, ResolutionIsCurrent, Types, Shape, NoTx, In
    <3>3. tx[o].sub # s
      BY <1>3, <3>2, LinksAssumption
    <3> QED BY <1>1, <1>6, <3>1, <3>2, <3>3 DEF Present
  <2> QED BY <2>1 DEF ResolutionIsCurrent
<1> QED BY <1>1, <1>4, <1>7, <1>8, <1>9, <1>10 DEF Kept, LinksNext

\* An unlink waits for the resolve that is about to return the account.
LEMMA UnlinkKeeps ==
  ASSUME IInv, Types', NEW s \in Subjects, Unlink(s)
  PROVE  Kept' /\ LinksNext
<1>1. /\ link' = [link EXCEPT ![s] = None] /\ standing' = standing /\ login' = login /\ tx' = tx
      /\ UnlinkAccount(s)
  BY DEF Unlink, UnlinkAccount
<1>2. \A o \in Subjects : link'[o] = IF o = s THEN None ELSE link[o]
  BY <1>1 DEF IInv, Types
<1>3. LinksHold'
  BY <1>1, <1>2 DEF IInv, LinksHold, Present
<1>4. CreatingHolds' /\ LinkingHolds'
  BY <1>1, SameTx DEF IInv, CreatingHolds, LinkingHolds, Present, Unused, LoginTaken
<1>5. StoringHolds'
  <2>1. \A o \in Txs : Storing(o)' => Storing(o) /\ tx[o].sub \in Subjects
                                      /\ (tx[o].op = "link" => tx[o].user \in Users)
    BY <1>1, SameTx DEF IInv, Types, Shape, NoTx, Storing
  <2> QED BY <1>1, <1>2, <2>1, LinksAssumption DEF IInv, StoringHolds
<1>6. ResolutionIsCurrent'
  <2>1. \A o \in In("resolve", {"found"}) : tx[o].sub # s /\ tx[o].sub \in Subjects
    BY DEF Unlink, LinkLocked, In, IInv, Types, Shape, NoTx
  <2> QED BY <1>1, <1>2, <2>1 DEF IInv, ResolutionIsCurrent, In, Present
<1> QED BY <1>1, <1>3, <1>4, <1>5, <1>6 DEF Kept, LinksNext

\* The creation of an account waits for the namespace.
LEMMA CreateUserKeeps ==
  ASSUME IInv, Types', NEW u \in Users, NEW n \in Names, CreateUser(u, n)
  PROVE  Kept' /\ LinksNext
<1>1. /\ standing' = [standing EXCEPT ![u] = "enabled"] /\ login' = [login EXCEPT ![u] = n]
      /\ link' = link /\ tx' = tx /\ CreateAccount(u, n) /\ Unused(u) /\ ~LoginTaken(n)
  BY DEF CreateUser, CreateAccount
<1>2. \A o \in Txs : ~Creating(o)
  BY DEF CreateUser, NamespaceLocked, In, Creating
<1>3. \A v \in Users : /\ v # u => Present(v)' = Present(v) /\ login'[v] = login[v]
                       /\ v = u => Present(v)' /\ ~Present(v) /\ login'[v] = n
  BY <1>1 DEF IInv, Types, Present, Unused
<1>4. LinksHold'
  <2>1. \A o \in Subjects : (link[o] # None => Present(link[o]))'
    BY <1>1, <1>3 DEF IInv, Types, LinksHold
  <2>2. \A v, w \in Users : Present(v)' /\ Present(w)' /\ login'[v] = login'[w] => v = w
    BY <1>1, <1>3 DEF IInv, LinksHold, LoginTaken
  <2> QED BY <1>1, <2>1, <2>2 DEF IInv, LinksHold
<1>5. CreatingHolds'
  BY <1>1, <1>2, SameTx DEF CreatingHolds
<1>6. LinkingHolds'
  BY <1>1, <1>3, SameTx DEF IInv, LinkingHolds, Types, Shape, NoTx, Linking
<1>7. StoringHolds'
  BY <1>1, SameTx DEF IInv, StoringHolds
<1>8. ResolutionIsCurrent'
  BY <1>1, <1>3 DEF IInv, ResolutionIsCurrent, In, Types, Shape, NoTx
<1> QED BY <1>1, <1>4, <1>5, <1>6, <1>7, <1>8 DEF Kept, LinksNext

\* Enabling and disabling leave every account where it is.
LEMMA SetEnabledKeeps ==
  ASSUME IInv, Types', NEW u \in Users, NEW to \in {"enabled", "disabled"}, SetEnabled(u, to)
  PROVE  Kept' /\ LinksNext
<1>1. standing' = [standing EXCEPT ![u] = to] /\ login' = login /\ tx' = tx /\ Present(u)
      /\ ChangeStanding(u, to)
  BY DEF SetEnabled, ChangeStanding
<1>2. link' = link
  BY DEF SetEnabled, ChangeStanding, IInv, Types
<1>3. \A v \in Users : Present(v)' = Present(v)
  BY <1>1 DEF IInv, Types, Present
<1>4. LinksHold'
  BY <1>1, <1>2, <1>3 DEF IInv, LinksHold, Types
<1>5. CreatingHolds'
  BY <1>1, <1>3, SameTx DEF IInv, CreatingHolds, Unused, LoginTaken, Types, Shape, NoTx, Creating
<1>6. LinkingHolds'
  BY <1>1, <1>3, SameTx DEF IInv, LinkingHolds, Types, Shape, NoTx, Linking
<1>7. StoringHolds'
  BY <1>1, <1>2, SameTx DEF IInv, StoringHolds
<1>8. ResolutionIsCurrent'
  BY <1>1, <1>2, <1>3 DEF IInv, ResolutionIsCurrent, In, Types, Shape, NoTx
<1> QED BY <1>1, <1>4, <1>5, <1>6, <1>7, <1>8 DEF Kept, LinksNext

\* A deletion waits for the links of its account that are being made.
LEMMA DeleteBeginKeeps ==
  ASSUME IInv, Types', NEW t \in Txs, NEW u \in Users, DeleteBegin(t, u)
  PROVE  Kept'
<1>1. /\ UNCHANGED linkVars /\ \A o \in Txs : o # t => tx'[o] = tx[o]
      /\ tx'[t].op = "delete" /\ tx'[t].pc = "cascade" /\ tx'[t].user = u
  BY DEF DeleteBegin, Run, IInv, Types
<1>2. \A o \in Txs : Linking(o) => tx[o].user # u
  BY DEF DeleteBegin, KeyShared, In, Linking
<1>3. LinksHold'
  BY <1>1 DEF IInv, LinksHold, linkVars, Present
<1>4. ~Creating(t)' /\ ~Linking(t)' /\ ~LinkOpen(t)' /\ ~Storing(t)'
  BY <1>1 DEF Creating, Linking, LinkOpen, Storing
<1>5. CreatingHolds' /\ StoringHolds'
  BY <1>1, <1>4, SameTx DEF IInv, CreatingHolds, StoringHolds, linkVars, Present, Unused, LoginTaken
<1>6. LinkingHolds'
  BY <1>1, <1>2, <1>4, SameTx DEF IInv, LinkingHolds, linkVars, Present
<1>7. ResolutionIsCurrent'
  BY <1>1 DEF IInv, ResolutionIsCurrent, In, linkVars, Present
<1> QED BY <1>3, <1>5, <1>6, <1>7 DEF Kept

\* A deletion that commits takes the links along, but none a resolve holds.
LEMMA DeleteCommitKeeps ==
  ASSUME IInv, Types', NEW t \in Txs, DeleteCommit(t)
  PROVE  Kept' /\ LinksNext
<1> DEFINE u == tx[t].user
<1>1. /\ u \in Users /\ standing' = [standing EXCEPT ![u] = "deleted"] /\ login' = login
      /\ link' = [s \in Subjects |-> IF link[s] = u THEN None ELSE link[s]]
      /\ tx'[t] = NoTx /\ \A o \in Txs : o # t => tx'[o] = tx[o]
      /\ ChangeStanding(u, "deleted")
  BY DEF DeleteCommit, ChangeStanding, End, IInv, Types, Shape, NoTx
<1>2. ~Creating(t)' /\ ~Linking(t)' /\ ~LinkOpen(t)' /\ ~Deleting(t)' /\ ~Storing(t)' /\ Deleting(t)
  BY <1>1 DEF Creating, Linking, LinkOpen, Deleting, Storing, NoTx, DeleteCommit
<1>3. \A v \in Users : Present(v)' = (v # u /\ Present(v))
  BY <1>1 DEF IInv, Types, Present
<1>4. \A s \in Subjects : link'[s] = IF link[s] = u THEN None ELSE link[s]
  BY <1>1
<1>5. LinksHold'
  <2>1. \A s \in Subjects : (link[s] # None => Present(link[s]))'
    BY <1>3, <1>4 DEF IInv, Types, LinksHold
  <2>2. \A s, o \in Subjects : link'[s] # None /\ link'[s] = link'[o] => s = o
    BY <1>4 DEF IInv, LinksHold
  <2>3. \A v, w \in Users : Present(v)' /\ Present(w)' /\ login'[v] = login'[w] => v = w
    BY <1>1, <1>3 DEF IInv, LinksHold
  <2> QED BY <2>1, <2>2, <2>3 DEF LinksHold
<1>6. CreatingHolds'
  <2>1. \A o \in Txs : Creating(o)' =>
          /\ Creating(o) /\ tx'[o] = tx[o] /\ tx[o].user \in Users
          /\ Unused(tx[o].user) /\ ~LoginTaken(NameOf[tx[o].sub])
          /\ \A p \in Txs : Creating(p) => p = o
    BY <1>1, <1>2, SameTx DEF IInv, CreatingHolds, Types, Shape, NoTx, Creating
  <2>2. \A n : LoginTaken(n)' => LoginTaken(n)
    BY <1>1, <1>3 DEF LoginTaken
  <2>3. \A v \in Users : Unused(v) => Unused(v)'
    BY <1>3 DEF Unused
  <2>4. \A p \in Txs : Creating(p)' => Creating(p)
    BY <2>1
  <2> QED BY <2>1, <2>2, <2>3, <2>4 DEF CreatingHolds
<1>7. LinkingHolds'
  <2>1. \A o \in Txs : Linking(o)' =>
          /\ Linking(o) /\ tx'[o] = tx[o] /\ tx[o].user \in Users
          /\ Present(tx[o].user) /\ tx[o].user # u
    BY <1>1, <1>2, SameTx DEF IInv, LinkingHolds, Types, Shape, NoTx, Linking
  <2>2. \A o \in Txs : /\ Deleting(o)' => Deleting(o) /\ tx'[o] = tx[o]
                       /\ LinkOpen(o)' => LinkOpen(o) /\ tx'[o] = tx[o]
    BY <1>1, <1>2, SameTx
  <2>3. \A o \in Txs : (Linking(o) => Present(tx[o].user))'
    BY <1>3, <2>1
  <2> QED BY <2>1, <2>2, <2>3 DEF IInv, LinkingHolds
<1>8. StoringHolds'
  <2>1. \A o \in Txs : Storing(o)' => Storing(o) /\ tx'[o] = tx[o] /\ tx[o].sub \in Subjects
                                      /\ (tx[o].op = "link" => tx[o].user \in Users)
    BY <1>1, <1>2, SameTx DEF IInv, Types, Shape, NoTx, Storing
  <2> QED BY <1>4, <2>1, LinksAssumption DEF IInv, StoringHolds
<1>9. ResolutionIsCurrent'
  <2>1. ASSUME NEW o \in In("resolve", {"found"})'
        PROVE  (link[tx[o].sub] = tx[o].user /\ Present(tx[o].user))'
    <3>1. o \in In("resolve", {"found"}) /\ o # t /\ tx'[o] = tx[o] /\ o \in Txs
      BY <1>1, <2>1 DEF In, NoTx
    <3>2. link[tx[o].sub] = tx[o].user /\ Present(tx[o].user) /\ tx[o].sub \in Subjects
          /\ tx[o].user \in Users
      BY <3>1 DEF IInv, ResolutionIsCurrent, Types, Shape, NoTx, In
    <3>3. tx[o].user # u
      BY <3>1, <3>2 DEF DeleteCommit, LinkLocked
    <3> QED BY <1>3, <1>4, <3>1, <3>2, <3>3
  <2> QED BY <2>1 DEF ResolutionIsCurrent
<1> QED BY <1>1, <1>5, <1>6, <1>7, <1>8, <1>9 DEF Kept, LinksNext

----------------------------------------------------------------------------
(* Every step.                                                             *)

LEMMA StepKeeps == IInv /\ [Next]_vars => IInv' /\ [LinksNext]_linkVars
<1> SUFFICES ASSUME IInv, [Next]_vars PROVE IInv' /\ (LinksNext \/ UNCHANGED linkVars)
  OBVIOUS
<1>1. Types'
  BY TypesStep DEF IInv
<1> SUFFICES Kept' /\ (LinksNext \/ UNCHANGED linkVars)
  BY <1>1 DEF IInv, Kept
<1>2. ASSUME NEW t \in Txs, Rollback(t) \/ ResolveClash(t)
      PROVE  Kept' /\ UNCHANGED linkVars
  BY <1>1, <1>2, EndKeeps DEF Rollback, ResolveClash
<1>3. ASSUME NEW t \in Txs, NEW s \in Subjects, ResolveBegin(t, s)
      PROVE  Kept' /\ UNCHANGED linkVars
  <2>1. /\ \A o \in Txs : o # t => tx'[o] = tx[o] /\ UNCHANGED linkVars
        /\ tx'[t].op = "resolve" /\ tx'[t].pc = "update"
    BY <1>3 DEF ResolveBegin, Run, IInv, Types
  <2> QED BY <1>1, <1>3, <2>1, ReadKeeps DEF ResolveBegin
<1>4. ASSUME NEW t \in Txs, ResolveMissed(t) \/ ResolveCollide(t)
      PROVE  Kept' /\ UNCHANGED linkVars
  <2>1. End(t) \/ Goto(t, "collide") \/ Goto(t, "account")
    BY <1>4 DEF ResolveMissed, ResolveCollide
  <2>2. UNCHANGED linkVars /\ tx[t].op = "resolve"
    BY <1>4 DEF ResolveMissed, ResolveCollide
  <2>3. CASE ~End(t)
    <3>1. /\ \A o \in Txs : o # t => tx'[o] = tx[o]
          /\ tx'[t].op = "resolve" /\ tx'[t].pc \in {"collide", "account"}
      BY <2>1, <2>2, <2>3 DEF Goto, IInv, Types, Transaction
    <3> QED BY <1>1, <2>2, <3>1, ReadKeeps
  <2> QED BY <1>1, <2>2, <2>3, EndKeeps
<1>5. ASSUME NEW t \in Txs, ResolveFound(t) PROVE Kept' /\ UNCHANGED linkVars
  BY <1>1, <1>5, ResolveFoundKeeps DEF ResolveFound
<1>6. ASSUME NEW t \in Txs, NEW u \in Users, ResolveAccount(t, u) PROVE Kept' /\ UNCHANGED linkVars
  BY <1>1, <1>6, ResolveAccountKeeps DEF ResolveAccount
<1>7. ASSUME NEW t \in Txs, ResolveLink(t) PROVE Kept' /\ UNCHANGED linkVars
  BY <1>1, <1>7, ResolveLinkKeeps DEF ResolveLink
<1>8. ASSUME NEW t \in Txs, LinkUser(t) \/ LinkInsert(t) PROVE Kept' /\ UNCHANGED linkVars
  BY <1>1, <1>8, LinkUserKeeps, LinkInsertKeeps DEF LinkUser, LinkInsert
<1>9. ASSUME NEW t \in Txs, NEW s \in Subjects, NEW u \in Users, LinkBegin(t, s, u)
      PROVE  Kept' /\ UNCHANGED linkVars
  BY <1>1, <1>9, LinkBeginKeeps DEF LinkBegin
<1>10. ASSUME NEW t \in Txs, NEW u \in Users, DeleteBegin(t, u) PROVE Kept' /\ UNCHANGED linkVars
  BY <1>1, <1>10, DeleteBeginKeeps DEF DeleteBegin
<1>11. ASSUME NEW t \in Txs, Step(t) PROVE Kept' /\ (LinksNext \/ UNCHANGED linkVars)
  BY <1>1, <1>2, <1>4, <1>5, <1>6, <1>7, <1>8, <1>11, ResolveCommitKeeps, LinkCommitKeeps,
     DeleteCommitKeeps DEF Step
<1>12. CASE UNCHANGED vars
  <2>1. UNCHANGED linkVars /\ tx' = tx
    BY <1>12 DEF vars
  <2>2. LinksHold' /\ ResolutionIsCurrent'
    BY <2>1 DEF IInv, LinksHold, ResolutionIsCurrent, In, linkVars, Present
  <2>3. CreatingHolds' /\ LinkingHolds' /\ StoringHolds'
    BY <2>1, SameTx DEF IInv, CreatingHolds, LinkingHolds, StoringHolds, linkVars, Present, Unused,
       LoginTaken
  <2> QED BY <2>1, <2>2, <2>3 DEF Kept
<1> QED BY <1>1, <1>2, <1>3, <1>9, <1>10, <1>11, <1>12, UnlinkKeeps, CreateUserKeeps,
           SetEnabledKeeps DEF Next

----------------------------------------------------------------------------
(* The theorems.                                                           *)

\* The locks and the statements of resolve, link, unlink, creation and deletion keep
\* the invariant, whatever transactions overlap.
LEMMA Invariance == Spec => []IInv
<1>1. IInv /\ [Next]_vars => IInv'
  BY StepKeeps
<1> QED BY <1>1, InitIInv, PTL DEF Spec

\* The account a resolve is about to return is the one its subject is linked to, and it
\* exists (PostgresFederatedIdentityRepository.resolve).
THEOREM ResolutionsAreCurrent == Spec => []ResolutionIsCurrent
<1>1. IInv => ResolutionIsCurrent
  BY DEF IInv
<1> QED BY <1>1, Invariance, PTL

\* No two subjects of the provider reach one account, no link leads to an account that
\* is gone, and no two accounts have one login name.
THEOREM LinksAreUnique == Spec => []LinksHold
<1>1. IInv => LinksHold
  BY DEF IInv
<1> QED BY <1>1, Invariance, PTL

\* The repository's transactions implement the one-step links of IdentityLinks: nothing
\* is linked but by an administrator, or together with an account made for the subject
\* under a login name nobody had.
THEOREM Implements == Spec => ImplementsLinks
<1>1. Init => LinksInit
  BY DEF Init
<1>2. IInv /\ [Next]_vars => [LinksNext]_linkVars
  BY StepKeeps
<1> QED BY <1>1, <1>2, Invariance, PTL DEF Spec, ImplementsLinks, LinksSpec

----------------------------------------------------------------------------
(***************************************************************************)
(* ScimGroups, the other transactions that outlive what they read: any     *)
(* number of groups, accounts and requests.  The inductive invariant: what *)
(* a request read is what the group has, as long as the version it read is *)
(* the one of the row and the row is there (RequestHolds); one request at  *)
(* a time holds a group row (OneHolder); and members exist, also those a   *)
(* transaction is about to commit (MembersExist and RequestHolds).         *)
(***************************************************************************)

Desired == {<< >>} \cup UNION {[S -> SUBSET Groups] : S \in SUBSET Accounts}
RequestRow ==
  [pc : {"idle", "row", "read"} \cup HoldsGroup, op : {Absent, "create", "replace", "delete"},
   group : Groups \cup {Absent}, version : Nat, base : SUBSET Accounts, next : SUBSET Accounts,
   affected : SUBSET Accounts, desired : Desired, todo : SUBSET Accounts, done : SUBSET Accounts]

ScimTypes ==
  /\ users \subseteq Accounts /\ state \in [Groups -> {"fresh", "live", "gone"}]
  /\ version \in [Groups -> Nat] /\ members \in [Groups -> SUBSET Accounts]
  /\ request \in [Requests -> RequestRow]

\* What is known of a request by where it is.
RequestHolds(r) ==
  /\ r.pc # "idle" => r.group \in Groups
  /\ r.pc \in {"row", "read"} => state[r.group] # "fresh" /\ r.version <= version[r.group]
  /\ r.pc = "read" =>
       /\ r.op \in {"replace", "delete"}
       /\ state[r.group] = "live" /\ version[r.group] = r.version =>
            r.base \cap users = members[r.group]
  /\ r.pc \in HoldsGroup =>
       /\ r.op = "create" => state[r.group] = "fresh"
       /\ r.op # "create" => state[r.group] = "live" /\ r.base \cap users = members[r.group]
  /\ r.pc \in HoldsMembers => r.next \subseteq users \cap r.affected

OneHolder ==
  \A s, t \in Requests : s # t /\ {request[s].pc, request[t].pc} \subseteq HoldsGroup =>
    request[s].group # request[t].group

MembersExist == \A g \in Groups : members[g] \subseteq users

ScimIInv == ScimTypes /\ (\A t \in Requests : RequestHolds(request[t])) /\ OneHolder /\ MembersExist

\* A step of one request that commits nothing.
LEMMA RequestStep ==
  ASSUME ScimIInv, UNCHANGED <<users, state, version, members>>,
         NEW t \in Requests, NEW r \in RequestRow, request' = [request EXCEPT ![t] = r], RequestHolds(r),
         r.pc \in HoldsGroup =>
           \A s \in Requests \ {t} : request[s].pc \in HoldsGroup => request[s].group # r.group
  PROVE  ScimIInv'
<1>1. \A s \in Requests : request'[s] = IF s = t THEN r ELSE request[s]
  BY DEF ScimIInv, ScimTypes
<1>2. ScimTypes'
  BY DEF ScimIInv, ScimTypes
<1>3. ASSUME NEW s \in Requests PROVE RequestHolds(request[s])'
  <2>1. RequestHolds(request'[s])
    BY <1>1 DEF ScimIInv
  <2> QED BY <2>1 DEF RequestHolds
<1>4. OneHolder'
  BY <1>1 DEF ScimIInv, OneHolder
<1>5. MembersExist'
  BY DEF ScimIInv, MembersExist
<1> QED BY <1>2, <1>3, <1>4, <1>5 DEF ScimIInv

\* A request that is over, or has not begun.
LEMMA NoRequestHolds == NoRequest \in RequestRow /\ RequestHolds(NoRequest)
BY DEF NoRequest, RequestRow, Desired, RequestHolds, HoldsGroup, HoldsMembers

LEMMA ReadRowKeeps ==
  ASSUME ScimIInv, NEW t \in Requests, NEW g \in Groups, ReadRow(t, g) PROVE ScimIInv'
<1> DEFINE r == [NoRequest EXCEPT !.pc = "row", !.group = g, !.version = version[g]]
<1>1. r \in RequestRow
  BY NoRequestHolds DEF NoRequest, RequestRow, ScimIInv, ScimTypes
<1>2. /\ r.pc = "row" /\ r.group = g /\ r.version = version[g]
      /\ request' = [request EXCEPT ![t] = r] /\ UNCHANGED <<users, state, version, members>>
  BY DEF ReadRow, NoRequest
<1> HIDE DEF r
<1>3. RequestHolds(r)
  BY <1>2 DEF RequestHolds, ReadRow, HoldsGroup, HoldsMembers, ScimIInv, ScimTypes
<1>4. r.pc \notin HoldsGroup
  BY <1>2 DEF HoldsGroup
<1> QED BY <1>1, <1>2, <1>3, <1>4, RequestStep

LEMMA ReadMembersKeeps ==
  ASSUME ScimIInv, NEW t \in Requests, NEW op \in {"replace", "delete"}, NEW next \in SUBSET Accounts,
         ReadMembers(t, op, next)
  PROVE  ScimIInv'
<1> DEFINE q == request[t]
           r == [q EXCEPT !.pc = "read", !.op = op, !.base = members[q.group], !.next = next]
<1>1. q \in RequestRow /\ q.pc = "row" /\ q.group \in Groups /\ RequestHolds(q)
  BY DEF ScimIInv, ScimTypes, RequestHolds, ReadMembers
<1>2. r \in RequestRow
  BY <1>1 DEF RequestRow, ScimIInv, ScimTypes
<1>3. /\ r.pc = "read" /\ r.group = q.group /\ r.version = q.version /\ r.op = op
      /\ r.base = members[q.group]
  BY <1>1 DEF RequestRow
<1>4. request' = [request EXCEPT ![t] = r] /\ UNCHANGED <<users, state, version, members>>
  BY DEF ReadMembers, ScimIInv, ScimTypes
<1>5. members[q.group] \subseteq users
  BY <1>1 DEF ScimIInv, MembersExist
<1> HIDE DEF q, r
<1>6. RequestHolds(r)
  BY <1>1, <1>3, <1>5 DEF RequestHolds, HoldsGroup, HoldsMembers
<1>7. r.pc \notin HoldsGroup
  BY <1>3 DEF HoldsGroup
<1> QED BY <1>2, <1>4, <1>6, <1>7, RequestStep

LEMMA CreateGroupKeeps ==
  ASSUME ScimIInv, NEW t \in Requests, NEW g \in Groups, NEW next \in SUBSET Accounts,
         CreateGroup(t, g, next)
  PROVE  ScimIInv'
<1> DEFINE r == [NoRequest EXCEPT !.pc = "locked", !.op = "create", !.group = g, !.next = next]
<1>1. r \in RequestRow
  BY NoRequestHolds DEF NoRequest, RequestRow, HoldsGroup
<1>2. /\ r.pc = "locked" /\ r.group = g /\ r.op = "create"
      /\ request' = [request EXCEPT ![t] = r] /\ UNCHANGED <<users, state, version, members>>
  BY DEF CreateGroup, NoRequest
<1> HIDE DEF r
<1>3. RequestHolds(r)
  BY <1>2 DEF RequestHolds, CreateGroup, HoldsGroup, HoldsMembers
<1>4. \A s \in Requests : request[s].pc \in HoldsGroup => request[s].group # r.group
  BY <1>2 DEF CreateGroup, GroupFree
<1> QED BY <1>1, <1>2, <1>3, <1>4, RequestStep

LEMMA LockGroupKeeps == ASSUME ScimIInv, NEW t \in Requests, LockGroup(t) PROVE ScimIInv'
<1> DEFINE q == request[t]
           r == [q EXCEPT !.pc = "locked"]
<1>1. q \in RequestRow /\ q.pc = "read" /\ q.group \in Groups /\ RequestHolds(q)
  BY DEF ScimIInv, ScimTypes, RequestHolds, LockGroup
<1>2. UNCHANGED <<users, state, version, members>>
  BY DEF LockGroup
<1>3. CASE MayChange(t)
  <2>1. r \in RequestRow
    BY <1>1 DEF RequestRow, HoldsGroup
  <2>2. /\ r.pc = "locked" /\ r.group = q.group /\ r.op = q.op /\ r.base = q.base
        /\ request' = [request EXCEPT ![t] = r]
    BY <1>1, <1>3 DEF RequestRow, LockGroup
  <2>3. state[q.group] = "live" /\ version[q.group] = q.version
    BY <1>3 DEF MayChange
  <2>4. \A s \in Requests : request[s].pc \in HoldsGroup => request[s].group # q.group
    BY DEF LockGroup, GroupFree
  <2> HIDE DEF q, r
  <2>5. RequestHolds(r)
    BY <1>1, <2>2, <2>3 DEF RequestHolds, HoldsGroup, HoldsMembers
  <2> QED BY <1>2, <2>1, <2>2, <2>4, <2>5, RequestStep
<1>4. CASE ~MayChange(t)
  <2>1. request' = [request EXCEPT ![t] = NoRequest]
    BY <1>4 DEF LockGroup
  <2> QED BY <1>2, <2>1, NoRequestHolds, RequestStep DEF NoRequest, HoldsGroup
<1> QED BY <1>3, <1>4

\* A transaction that holds the group row goes on holding it.
LEMMA HolderStep ==
  ASSUME ScimIInv, UNCHANGED <<users, state, version, members>>,
         NEW t \in Requests, request[t].pc \in HoldsGroup, NEW r \in RequestRow,
         request' = [request EXCEPT ![t] = r],
         r.pc \in HoldsGroup, r.group = request[t].group, r.op = request[t].op,
         r.base = request[t].base,
         r.pc \in HoldsMembers => r.next \subseteq users \cap r.affected
  PROVE  ScimIInv'
<1>1. RequestHolds(request[t])
  BY DEF ScimIInv
<1>2. RequestHolds(r)
  BY <1>1 DEF RequestHolds, HoldsGroup, HoldsMembers
<1>3. \A s \in Requests \ {t} : request[s].pc \in HoldsGroup => request[s].group # r.group
  BY DEF ScimIInv, OneHolder
<1> QED BY <1>2, <1>3, RequestStep

LEMMA ReplaceMembersKeeps ==
  ASSUME ScimIInv, NEW t \in Requests, ReplaceMembers(t) PROVE ScimIInv'
<1> DEFINE q == request[t]
           r == [q EXCEPT !.pc = "replaced", !.affected = Affected(t)]
<1>1. q \in RequestRow /\ q.pc = "locked" /\ q.group \in Groups
  BY DEF ScimIInv, ScimTypes, RequestHolds, ReplaceMembers
<1>2. UNCHANGED <<users, state, version, members>>
  BY DEF ReplaceMembers
<1>3. CASE q.next \subseteq users
  <2>1. Affected(t) \in SUBSET Accounts /\ q.next \subseteq Affected(t)
    BY <1>1 DEF Affected, ScimIInv, ScimTypes, RequestRow
  <2>2. r \in RequestRow
    BY <1>1, <2>1 DEF RequestRow, HoldsGroup
  <2>3. /\ r.pc = "replaced" /\ r.group = q.group /\ r.op = q.op /\ r.base = q.base
        /\ r.next = q.next /\ r.affected = Affected(t)
        /\ request' = [request EXCEPT ![t] = r]
    BY <1>1, <1>3 DEF RequestRow, ReplaceMembers
  <2> HIDE DEF r
  <2> QED BY <1>1, <1>2, <1>3, <2>1, <2>2, <2>3, HolderStep DEF HoldsGroup
<1>4. CASE ~(q.next \subseteq users)
  <2>1. request' = [request EXCEPT ![t] = NoRequest]
    BY <1>4 DEF ReplaceMembers
  <2> QED BY <1>2, <2>1, NoRequestHolds, RequestStep DEF NoRequest, HoldsGroup
<1> QED BY <1>3, <1>4

LEMMA SyncReadKeeps == ASSUME ScimIInv, NEW t \in Requests, SyncRead(t) PROVE ScimIInv'
<1> DEFINE q == request[t]
           desired == [u \in q.affected |-> GroupsOf(Seen(t), u)]
           todo == {u \in q.affected : copy[u] # desired[u]}
           r == [q EXCEPT !.pc = "syncing", !.desired = desired, !.todo = todo]
<1>1. q \in RequestRow /\ q.pc = "replaced" /\ RequestHolds(q)
  BY DEF ScimIInv, ScimTypes, SyncRead
<1>2. desired \in Desired /\ todo \in SUBSET Accounts
  <2>1. q.affected \in SUBSET Accounts /\ desired \in [q.affected -> SUBSET Groups]
    BY <1>1 DEF RequestRow, GroupsOf
  <2> QED BY <2>1 DEF Desired
<1>3. request' = [request EXCEPT ![t] = r] /\ UNCHANGED <<users, state, version, members>>
  BY DEF SyncRead, ScimIInv, ScimTypes
<1> HIDE DEF desired, todo
<1>4. /\ r \in RequestRow /\ r.pc = "syncing" /\ r.group = q.group /\ r.op = q.op
      /\ r.base = q.base /\ r.next = q.next /\ r.affected = q.affected
  BY <1>1, <1>2 DEF RequestRow, HoldsGroup
<1> HIDE DEF r
<1>5. q.next \subseteq users \cap q.affected
  BY <1>1 DEF RequestHolds, HoldsMembers
<1> QED BY <1>1, <1>3, <1>4, <1>5, HolderStep DEF HoldsGroup

LEMMA SyncRowKeeps ==
  ASSUME ScimIInv, NEW t \in Requests, NEW u \in Accounts, SyncRow(t, u) PROVE ScimIInv'
<1> DEFINE q == request[t]
           done == IF copy[u] # q.desired[u] THEN q.done \cup {u} ELSE q.done
           r == [q EXCEPT !.todo = q.todo \ {u}, !.done = done]
<1>1. q \in RequestRow /\ q.pc = "syncing" /\ RequestHolds(q)
  BY DEF ScimIInv, ScimTypes, SyncRow
<1>2. done \in SUBSET Accounts
  BY <1>1 DEF RequestRow
<1>3. request' = [request EXCEPT ![t] = r] /\ UNCHANGED <<users, state, version, members>>
  BY DEF SyncRow, ScimIInv, ScimTypes
<1> HIDE DEF done
<1>4. /\ r \in RequestRow /\ r.pc = "syncing" /\ r.group = q.group /\ r.op = q.op
      /\ r.base = q.base /\ r.next = q.next /\ r.affected = q.affected
  BY <1>1, <1>2 DEF RequestRow, HoldsGroup
<1> HIDE DEF r
<1>5. q.next \subseteq users \cap q.affected
  BY <1>1 DEF RequestHolds, HoldsMembers
<1> QED BY <1>1, <1>3, <1>4, <1>5, HolderStep DEF HoldsGroup

LEMMA AbortKeeps == ASSUME ScimIInv, NEW t \in Requests, Abort(t) PROVE ScimIInv'
BY NoRequestHolds, RequestStep DEF Abort, NoRequest, HoldsGroup

\* A commit is seen by requests that read the group before, and by none that holds it.
LEMMA CommitKeeps == ASSUME ScimIInv, NEW t \in Requests, Commit(t) PROVE ScimIInv'
<1> DEFINE q == request[t]
           g == q.group
<1>1. q \in RequestRow /\ q.pc = "syncing" /\ g \in Groups /\ RequestHolds(q)
  BY DEF ScimIInv, ScimTypes, RequestHolds, Commit
<1>2. users' = users /\ \A s \in Requests : request'[s] = IF s = t THEN NoRequest ELSE request[s]
  BY DEF ScimIInv, ScimTypes, Commit
<1>3. /\ state' = [state EXCEPT ![g] = IF q.op = "delete" THEN "gone" ELSE "live"]
      /\ version' = IF q.op = "delete" THEN version ELSE [version EXCEPT ![g] = version[g] + 1]
      /\ members' = [members EXCEPT ![g] = q.next]
  BY DEF Commit, Advanced, Seen
<1>4. q.next \subseteq users /\ q.next \in SUBSET Accounts
  BY <1>1 DEF RequestHolds, HoldsMembers, RequestRow
<1>5. ScimTypes'
  <2>1. request' \in [Requests -> RequestRow]
    BY NoRequestHolds DEF ScimIInv, ScimTypes, Commit
  <2> HIDE DEF q
  <2> QED BY <1>1, <1>2, <1>3, <1>4, <2>1 DEF ScimIInv, ScimTypes
<1>6. MembersExist'
  <2> HIDE DEF q
  <2> QED BY <1>1, <1>2, <1>3, <1>4 DEF ScimIInv, ScimTypes, MembersExist
<1>7. OneHolder'
  BY <1>2 DEF ScimIInv, OneHolder, NoRequest, HoldsGroup
<1>8. ASSUME NEW s \in Requests PROVE RequestHolds(request[s])'
  <2> DEFINE r == request[s]
  <2>1. CASE s = t
    BY <1>2, <2>1 DEF RequestHolds, NoRequest, HoldsGroup, HoldsMembers
  <2>2. CASE s # t
    <3>1. RequestHolds(r) /\ r \in RequestRow /\ request'[s] = r
      BY <1>2, <2>2 DEF ScimIInv, ScimTypes
    <3>2. r.pc \in HoldsGroup => r.group # g
      BY <1>1, <2>2 DEF ScimIInv, OneHolder, HoldsGroup
    <3>3. q.op # "create" => state[g] = "live"
      BY <1>1 DEF RequestHolds, HoldsGroup
    <3>4. state[g] = "fresh" => q.op # "delete"
      BY <1>1, <3>3 DEF RequestHolds, HoldsGroup
    <3>5. /\ state \in [Groups -> {"fresh", "live", "gone"}] /\ version \in [Groups -> Nat]
          /\ members \in [Groups -> SUBSET Accounts]
      BY DEF ScimIInv, ScimTypes
    <3> HIDE DEF q, g, r
    <3>6. CASE r.group # g
      <4>1. r.group \in Groups =>
              /\ state'[r.group] = state[r.group] /\ version'[r.group] = version[r.group]
              /\ members'[r.group] = members[r.group]
        BY <1>1, <1>3, <3>5, <3>6
      <4>2. RequestHolds(r)'
        BY <1>2, <3>1, <4>1 DEF RequestHolds, HoldsGroup, HoldsMembers, r
      <4> QED BY <3>1, <4>2 DEF r
    <3>7. CASE r.group = g
      <4>1. /\ state'[g] = IF q.op = "delete" THEN "gone" ELSE "live"
            /\ version'[g] = IF q.op = "delete" THEN version[g] ELSE version[g] + 1
            /\ version[g] \in Nat
        BY <1>1, <1>3, <3>5
      <4>2. r.version \in Nat
        BY <3>1 DEF RequestRow
      <4> QED BY <1>1, <1>2, <3>1, <3>2, <3>7, <4>1, <4>2
              DEF RequestHolds, HoldsGroup, HoldsMembers, r
    <3> QED BY <3>6, <3>7
  <2> QED BY <2>1, <2>2
<1> QED BY <1>5, <1>6, <1>7, <1>8 DEF ScimIInv

\* An account goes, with its memberships: not while a transaction is about to commit it
\* as a member.
LEMMA AccountGone ==
  ASSUME ScimIInv, NEW u \in Accounts, UserFree(u), users' = users \ {u},
         members' = Without(u), state' = state, request' = request,
         version' \in [Groups -> Nat], \A g \in Groups : version[g] <= version'[g]
  PROVE  ScimIInv'
<1>1. members' = [g \in Groups |-> members[g] \ {u}]
  BY DEF Without
<1>2. ScimTypes'
  BY <1>1 DEF ScimIInv, ScimTypes
<1>3. OneHolder'
  BY DEF ScimIInv, OneHolder
<1>4. MembersExist'
  BY <1>1 DEF ScimIInv, MembersExist
<1>5. ASSUME NEW t \in Requests PROVE RequestHolds(request[t])'
  <2> DEFINE r == request[t]
  <2>1. RequestHolds(r) /\ r \in RequestRow /\ request'[t] = r
    BY DEF ScimIInv, ScimTypes
  <2>2. r.version \in Nat /\ version \in [Groups -> Nat]
    BY <2>1 DEF RequestRow, ScimIInv, ScimTypes
  <2>3. r.pc \in HoldsMembers => u \notin r.affected
    BY DEF UserFree
  <2>4. r.group \in Groups =>
          /\ members'[r.group] = members[r.group] \ {u}
          /\ version[r.group] <= version'[r.group]
          /\ version[r.group] \in Nat /\ version'[r.group] \in Nat
    BY <1>1, <2>2
  <2> HIDE DEF r
  <2>5. RequestHolds(r)'
    BY <2>1, <2>2, <2>3, <2>4 DEF RequestHolds, HoldsGroup, HoldsMembers, r
  <2> QED BY <2>1, <2>5 DEF r
<1> QED BY <1>2, <1>3, <1>4, <1>5 DEF ScimIInv

LEMMA DeletionKeeps ==
  ASSUME ScimIInv, NEW u \in Accounts, DeleteUser(u) \/ DeleteAccount(u)
  PROVE  ScimIInv'
<1>1. version \in [Groups -> Nat]
  BY DEF ScimIInv, ScimTypes
<1>2. version' \in [Groups -> Nat] /\ \A g \in Groups : version[g] <= version'[g]
  BY <1>1 DEF DeleteUser, DeleteAccount
<1> QED BY <1>2, AccountGone DEF DeleteUser, DeleteAccount

LEMMA ScimInitially == ScimInit => ScimIInv
<1> SUFFICES ASSUME ScimInit PROVE ScimIInv
  OBVIOUS
<1>1. ScimTypes
  BY NoRequestHolds DEF ScimInit, ScimTypes
<1>2. \A t \in Requests : RequestHolds(request[t])
  BY NoRequestHolds DEF ScimInit
<1>3. OneHolder
  BY DEF ScimInit, OneHolder, NoRequest, HoldsGroup
<1>4. MembersExist
  BY DEF ScimInit, MembersExist
<1> QED BY <1>1, <1>2, <1>3, <1>4 DEF ScimIInv

LEMMA ScimStep == ScimIInv /\ [ScimNext]_scimVars => ScimIInv'
<1> SUFFICES ASSUME ScimIInv, [ScimNext]_scimVars PROVE ScimIInv'
  OBVIOUS
<1>1. CASE ScimNext
  BY <1>1, ReadRowKeeps, ReadMembersKeeps, CreateGroupKeeps, LockGroupKeeps, ReplaceMembersKeeps,
     SyncReadKeeps, SyncRowKeeps, CommitKeeps, AbortKeeps, DeletionKeeps
     DEF ScimNext
<1>2. CASE UNCHANGED scimVars
  BY <1>2 DEF scimVars, ScimIInv, ScimTypes, RequestHolds, OneHolder, MembersExist
<1> QED BY <1>1, <1>2

\* A change of a group builds on the members it replaces, whatever was committed between
\* the two reads of its request and its transaction: PUT, PATCH and DELETE of
\* scim/router.js lose no update (replaceGroup, deleteGroup, deleteUser).
THEOREM NoUpdateIsLost == ScimSpec => []NoLostUpdate
<1>1. ScimIInv => NoLostUpdate
  BY DEF ScimIInv, RequestHolds, NoLostUpdate
<1> QED BY <1>1, ScimInitially, ScimStep, PTL DEF ScimSpec

----------------------------------------------------------------------------
(***************************************************************************)
(* The copy in users.groups.  #syncUserGroups computes it from a snapshot, *)
(* which another transaction may make stale before the users row is        *)
(* written (the run scim_sync).  That needs two transactions that affect a *)
(* common account at a time: without such a pair the copy is right.        *)
(***************************************************************************)

\* No two transactions that have replaced members affect a common account.
Apart ==
  \A s, t \in Requests : s # t /\ {request[s].pc, request[t].pc} \subseteq HoldsMembers =>
    request[s].affected \cap request[t].affected = {}

\* The groups u will have when r commits.
Becoming(r, u) == {g \in Groups : IF g = r.group THEN u \in r.next ELSE u \in members[g]}

\* Whom r does not affect it does not touch; what it computed is what its commit makes
\* true; and a row it does not write is right already.
CopyHolds(r) ==
  /\ r.pc # "syncing" => r.done = {}
  /\ r.pc \in HoldsMembers => members[r.group] \subseteq r.affected
  /\ r.pc = "syncing" =>
       /\ r.todo \subseteq r.affected /\ r.done \subseteq r.affected
       /\ \A u \in r.affected :
            /\ r.desired[u] = Becoming(r, u)
            /\ u \in r.todo \/ u \in r.done \/ copy[u] = r.desired[u]

CopyIInv ==
  /\ ScimIInv /\ copy \in [Accounts -> SUBSET Groups]
  /\ GroupsInSync /\ \A t \in Requests : CopyHolds(request[t])

LEMMA CopyStays ==
  ASSUME CopyIInv, ScimIInv', UNCHANGED <<users, members, copy>>,
         NEW t \in Requests, NEW r, request' = [request EXCEPT ![t] = r], CopyHolds(r)
  PROVE  CopyIInv'
<1>1. \A s \in Requests : request'[s] = IF s = t THEN r ELSE request[s]
  BY DEF CopyIInv, ScimIInv, ScimTypes
<1>2. ASSUME NEW s \in Requests PROVE CopyHolds(request[s])'
  <2>1. CopyHolds(request'[s])
    BY <1>1 DEF CopyIInv
  <2> QED BY <2>1 DEF CopyHolds, Becoming
<1>3. GroupsInSync'
  BY DEF CopyIInv, GroupsInSync, GroupsOf
<1> QED BY <1>2, <1>3 DEF CopyIInv

LEMMA NoCopy == CopyHolds(NoRequest)
BY DEF CopyHolds, NoRequest, HoldsMembers

LEMMA RequestTyped ==
  ASSUME CopyIInv, NEW t \in Requests
  PROVE  request[t] \in RequestRow /\ CopyHolds(request[t]) /\ RequestHolds(request[t])
BY DEF CopyIInv, ScimIInv, ScimTypes

\* A request before its members are replaced.
LEMMA EarlyCopy ==
  ASSUME CopyIInv, ScimIInv', NEW t \in Requests,
         \/ \E g \in Groups : ReadRow(t, g)
         \/ \E op \in {"replace", "delete"}, next \in SUBSET Accounts : ReadMembers(t, op, next)
         \/ \E g \in Groups, next \in SUBSET Accounts : CreateGroup(t, g, next)
         \/ LockGroup(t) \/ Abort(t)
  PROVE  CopyIInv'
<1> DEFINE q == request[t]
<1>1. q \in RequestRow /\ CopyHolds(q) /\ request \in [Requests -> RequestRow]
  BY RequestTyped DEF CopyIInv, ScimIInv, ScimTypes
<1>2. \A r : r.pc \in {"row", "read", "locked"} /\ r.done = {} => CopyHolds(r)
  BY DEF CopyHolds, HoldsMembers
<1>3. ASSUME NEW g \in Groups, ReadRow(t, g) PROVE CopyIInv'
  <2> DEFINE r == [NoRequest EXCEPT !.pc = "row", !.group = g, !.version = version[g]]
  <2>1. r.pc = "row" /\ r.done = {}
    BY DEF NoRequest
  <2>2. request' = [request EXCEPT ![t] = r] /\ UNCHANGED <<users, members, copy>>
    BY <1>3 DEF ReadRow
  <2> HIDE DEF r
  <2> QED BY <1>2, <2>1, <2>2, CopyStays
<1>4. ASSUME NEW op \in {"replace", "delete"}, NEW next \in SUBSET Accounts, ReadMembers(t, op, next)
      PROVE  CopyIInv'
  <2> DEFINE r == [q EXCEPT !.pc = "read", !.op = op, !.base = members[q.group], !.next = next]
  <2>1. r.pc = "read" /\ r.done = {}
    BY <1>1, <1>4 DEF RequestRow, ReadMembers, CopyHolds
  <2>2. request' = [request EXCEPT ![t] = r] /\ UNCHANGED <<users, members, copy>>
    BY <1>1, <1>4 DEF ReadMembers
  <2> HIDE DEF r
  <2> QED BY <1>2, <2>1, <2>2, CopyStays
<1>5. ASSUME NEW g \in Groups, NEW next \in SUBSET Accounts, CreateGroup(t, g, next) PROVE CopyIInv'
  <2> DEFINE r == [NoRequest EXCEPT !.pc = "locked", !.op = "create", !.group = g, !.next = next]
  <2>1. r.pc = "locked" /\ r.done = {}
    BY DEF NoRequest
  <2>2. request' = [request EXCEPT ![t] = r] /\ UNCHANGED <<users, members, copy>>
    BY <1>5 DEF CreateGroup
  <2> HIDE DEF r
  <2> QED BY <1>2, <2>1, <2>2, CopyStays
<1>6. CASE LockGroup(t)
  <2> DEFINE r == [q EXCEPT !.pc = "locked"]
  <2>1. r.pc = "locked" /\ r.done = {}
    BY <1>1, <1>6 DEF RequestRow, LockGroup, CopyHolds
  <2>2. CopyHolds(r)
    BY <1>2, <2>1
  <2>3. request' = [request EXCEPT ![t] = IF MayChange(t) THEN r ELSE NoRequest]
        /\ UNCHANGED <<users, members, copy>>
    BY <1>6 DEF LockGroup
  <2> HIDE DEF r
  <2> QED BY <2>2, <2>3, NoCopy, CopyStays
<1>7. CASE Abort(t)
  BY <1>7, NoCopy, CopyStays DEF Abort
<1> QED BY <1>3, <1>4, <1>5, <1>6, <1>7

LEMMA ReplaceCopy ==
  ASSUME CopyIInv, ScimIInv', NEW t \in Requests, ReplaceMembers(t) PROVE CopyIInv'
<1> DEFINE q == request[t]
           r == [q EXCEPT !.pc = "replaced", !.affected = Affected(t)]
<1>1. q \in RequestRow /\ CopyHolds(q) /\ q.pc = "locked"
  BY RequestTyped DEF ReplaceMembers
<1>2. r.pc = "replaced" /\ r.done = {} /\ r.group = q.group /\ r.affected = members[q.group] \cup q.next
  BY <1>1 DEF RequestRow, CopyHolds, Affected
<1>3. /\ request' = [request EXCEPT ![t] = IF q.next \subseteq users THEN r ELSE NoRequest]
      /\ UNCHANGED <<users, members, copy>>
  BY DEF ReplaceMembers
<1> HIDE DEF r, q
<1>4. CopyHolds(r)
  BY <1>2 DEF CopyHolds
<1> QED BY <1>3, <1>4, NoCopy, CopyStays

\* The memberships a transaction sees are those its commit makes.
LEMMA SeenIs ==
  ASSUME ScimIInv, NEW t \in Requests, request[t].group \in Groups, NEW u
  PROVE  GroupsOf(Seen(t), u) = Becoming(request[t], u)
BY DEF ScimIInv, ScimTypes, GroupsOf, Seen, Becoming

LEMMA SyncReadCopy ==
  ASSUME CopyIInv, ScimIInv', NEW t \in Requests, SyncRead(t) PROVE CopyIInv'
<1> DEFINE q == request[t]
           desired == [u \in q.affected |-> GroupsOf(Seen(t), u)]
           todo == {u \in q.affected : copy[u] # desired[u]}
           r == [q EXCEPT !.pc = "syncing", !.desired = desired, !.todo = todo]
<1>1. q \in RequestRow /\ CopyHolds(q) /\ q.pc = "replaced" /\ q.group \in Groups
  BY RequestTyped DEF SyncRead, RequestHolds
<1>2. request' = [request EXCEPT ![t] = r] /\ UNCHANGED <<users, members, copy>>
  BY DEF SyncRead, CopyIInv, ScimIInv, ScimTypes
<1>3. \A u \in q.affected : desired[u] = Becoming(q, u)
  BY <1>1, SeenIs DEF CopyIInv
<1>4. \A u \in q.affected : u \in todo \/ copy[u] = desired[u]
  OBVIOUS
<1>5. todo \subseteq q.affected
  OBVIOUS
<1> HIDE DEF desired, todo
<1>6. /\ r.pc = "syncing" /\ r.group = q.group /\ r.affected = q.affected /\ r.next = q.next
      /\ r.done = q.done /\ r.desired = desired /\ r.todo = todo
  BY <1>1 DEF RequestRow
<1>7. q.done = {} /\ members[q.group] \subseteq q.affected
  BY <1>1 DEF CopyHolds, HoldsMembers
<1> HIDE DEF q, r
<1>8. \A u : Becoming(r, u) = Becoming(q, u)
  BY <1>6 DEF Becoming
<1>9. CopyHolds(r)
  BY <1>3, <1>4, <1>5, <1>6, <1>7, <1>8 DEF CopyHolds
<1> QED BY <1>2, <1>9, CopyStays

LEMMA SyncRowCopy ==
  ASSUME CopyIInv, ScimIInv', NEW t \in Requests, NEW u \in Accounts, SyncRow(t, u) PROVE CopyIInv'
<1> DEFINE q == request[t]
           done == IF copy[u] # q.desired[u] THEN q.done \cup {u} ELSE q.done
           r == [q EXCEPT !.todo = q.todo \ {u}, !.done = done]
<1>1. q \in RequestRow /\ CopyHolds(q) /\ q.pc = "syncing" /\ u \in q.todo
  BY RequestTyped DEF SyncRow
<1>2. request' = [request EXCEPT ![t] = r] /\ UNCHANGED <<users, members, copy>>
  BY DEF SyncRow, CopyIInv, ScimIInv, ScimTypes
<1>3. /\ r.pc = "syncing" /\ r.group = q.group /\ r.affected = q.affected /\ r.next = q.next
      /\ r.done = done /\ r.desired = q.desired /\ r.todo = q.todo \ {u}
  BY <1>1 DEF RequestRow
<1> HIDE DEF q, r
<1>4. \A v : Becoming(r, v) = Becoming(q, v)
  BY <1>3 DEF Becoming
<1>5. CopyHolds(r)
  BY <1>1, <1>3, <1>4 DEF CopyHolds, HoldsMembers
<1> QED BY <1>2, <1>5, CopyStays

\* A commit makes what it computed true, and moves nothing under another transaction.
LEMMA CommitCopy ==
  ASSUME CopyIInv, Apart, ScimIInv', NEW t \in Requests, Commit(t) PROVE CopyIInv'
<1> DEFINE q == request[t]
           g == q.group
<1>1. q \in RequestRow /\ CopyHolds(q) /\ RequestHolds(q) /\ q.pc = "syncing" /\ g \in Groups
  BY RequestTyped DEF Commit, RequestHolds
<1>2. /\ q.next \subseteq q.affected /\ members[g] \subseteq q.affected /\ q.done \subseteq q.affected
      /\ q.affected \in SUBSET Accounts
      /\ \A u \in q.affected : q.desired[u] = Becoming(q, u)
                               /\ (u \in q.todo \/ u \in q.done \/ copy[u] = q.desired[u])
  BY <1>1 DEF CopyHolds, RequestHolds, HoldsMembers, RequestRow
<1>3. /\ users' = users /\ q.todo = {}
      /\ \A h \in Groups : members'[h] = IF h = g THEN q.next ELSE members[h]
      /\ copy' = [u \in Accounts |-> IF u \in q.done THEN q.desired[u] ELSE copy[u]]
      /\ \A s \in Requests : request'[s] = IF s = t THEN NoRequest ELSE request[s]
  BY <1>1 DEF Commit, Seen, CopyIInv, ScimIInv, ScimTypes
<1> HIDE DEF q, g
<1>4. \A u \in q.affected : copy'[u] = Becoming(q, u)
  BY <1>2, <1>3
<1>5. \A u \in Accounts \ q.affected : copy'[u] = copy[u]
  BY <1>2, <1>3
<1>6. \A u : GroupsOf(members, u)' = {h \in Groups : u \in members'[h]}
  BY DEF GroupsOf
<1>7. \A u : GroupsOf(members, u)' = Becoming(q, u)
  BY <1>3, <1>6 DEF Becoming, g
<1>8. ASSUME NEW u, u \notin q.affected, NEW h \in Groups PROVE u \in members'[h] <=> u \in members[h]
  BY <1>2, <1>3, <1>8
<1>9. GroupsInSync'
  <2> SUFFICES ASSUME NEW u \in users PROVE copy'[u] = {h \in Groups : u \in members'[h]}
    BY <1>3, <1>6 DEF GroupsInSync, GroupsOf
  <2>1. u \in Accounts /\ copy[u] = {h \in Groups : u \in members[h]}
    BY DEF CopyIInv, ScimIInv, ScimTypes, GroupsInSync, GroupsOf
  <2>2. CASE u \in q.affected
    BY <1>4, <1>6, <1>7, <2>2
  <2>3. CASE u \notin q.affected
    BY <1>5, <1>8, <2>1, <2>3
  <2> QED BY <2>2, <2>3
<1>10. copy' \in [Accounts -> SUBSET Groups]
  <2>1. \A u \in q.done : q.desired[u] \in SUBSET Groups
    BY <1>2 DEF Becoming
  <2> QED BY <1>3, <2>1 DEF CopyIInv
<1>11. ASSUME NEW s \in Requests PROVE CopyHolds(request[s])'
  <2> DEFINE r == request[s]
  <2>1. CASE s = t
    BY <1>3, <2>1 DEF CopyHolds, NoRequest, HoldsMembers
  <2>2. CASE s # t
    <3>1. r \in RequestRow /\ CopyHolds(r) /\ RequestHolds(r) /\ request'[s] = r
      BY <1>3, <2>2, RequestTyped
    <3>2. r.pc \in HoldsMembers =>
            r.group # g /\ r.group \in Groups /\ r.affected \cap q.affected = {}
      BY <1>1, <2>2, RequestTyped
         DEF Apart, CopyIInv, ScimIInv, OneHolder, RequestHolds, HoldsMembers, HoldsGroup, q, g
    <3>3. r.affected \in SUBSET Accounts
      BY <3>1 DEF RequestRow
    <3> HIDE DEF r
    <3>4. r.pc \in HoldsMembers => members'[r.group] \subseteq r.affected
      BY <1>3, <3>1, <3>2 DEF CopyHolds
    <3>5. ASSUME r.pc = "syncing", NEW u \in r.affected
          PROVE  /\ r.desired[u] = {h \in Groups : IF h = r.group THEN u \in r.next ELSE u \in members'[h]}
                 /\ u \in r.todo \/ u \in r.done \/ copy'[u] = r.desired[u]
      <4>1. u \notin q.affected /\ u \in Accounts
        BY <3>2, <3>3, <3>5 DEF HoldsMembers
      <4>2. r.desired[u] = Becoming(r, u) /\ (u \in r.todo \/ u \in r.done \/ copy[u] = r.desired[u])
        BY <3>1, <3>5 DEF CopyHolds
      <4>3. {h \in Groups : IF h = r.group THEN u \in r.next ELSE u \in members'[h]} = Becoming(r, u)
        BY <1>8, <4>1 DEF Becoming
      <4> QED BY <1>5, <4>1, <4>2, <4>3
    <3>6. CopyHolds(r)'
      BY <3>1, <3>4, <3>5 DEF CopyHolds, Becoming, r
    <3> QED BY <3>1, <3>6 DEF r
  <2> QED BY <2>1, <2>2
<1> QED BY <1>9, <1>10, <1>11 DEF CopyIInv

\* An account goes only when no transaction affects it.
LEMMA DeletionCopy ==
  ASSUME CopyIInv, ScimIInv', NEW u \in Accounts, DeleteUser(u) \/ DeleteAccount(u)
  PROVE  CopyIInv'
<1>1. /\ users' = users \ {u} /\ request' = request /\ copy' = [copy EXCEPT ![u] = {}]
      /\ \A g \in Groups : members'[g] = members[g] \ {u}
      /\ UserFree(u)
  BY DEF DeleteUser, DeleteAccount, Without
<1>2. copy \in [Accounts -> SUBSET Groups] /\ users \subseteq Accounts
  BY DEF CopyIInv, ScimIInv, ScimTypes
<1>3. \A v \in Accounts : v # u => copy'[v] = copy[v]
  BY <1>1, <1>2
<1>4. GroupsInSync'
  <2> SUFFICES ASSUME NEW v \in users, v # u PROVE copy'[v] = {g \in Groups : v \in members'[g]}
    BY <1>1 DEF GroupsInSync, GroupsOf
  <2>1. copy[v] = {g \in Groups : v \in members[g]}
    BY DEF CopyIInv, GroupsInSync, GroupsOf
  <2> QED BY <1>1, <1>2, <1>3, <2>1
<1>5. copy' \in [Accounts -> SUBSET Groups]
  BY <1>1, <1>2
<1>6. ASSUME NEW s \in Requests PROVE CopyHolds(request[s])'
  <2> DEFINE r == request[s]
  <2>1. r \in RequestRow /\ CopyHolds(r) /\ RequestHolds(r) /\ request'[s] = r
    BY <1>1, RequestTyped
  <2>2. r.pc \in HoldsMembers => u \notin r.affected /\ r.group \in Groups
    BY <1>1, <2>1 DEF UserFree, RequestHolds, HoldsMembers
  <2>3. r.affected \in SUBSET Accounts
    BY <2>1 DEF RequestRow
  <2> HIDE DEF r
  <2>4. r.pc \in HoldsMembers => members'[r.group] \subseteq r.affected
    BY <1>1, <2>1, <2>2 DEF CopyHolds
  <2>5. ASSUME r.pc = "syncing", NEW v \in r.affected
        PROVE  /\ r.desired[v] = {h \in Groups : IF h = r.group THEN v \in r.next ELSE v \in members'[h]}
               /\ v \in r.todo \/ v \in r.done \/ copy'[v] = r.desired[v]
    <3>1. v # u /\ v \in Accounts
      BY <2>2, <2>3, <2>5 DEF HoldsMembers
    <3>2. r.desired[v] = Becoming(r, v) /\ (v \in r.todo \/ v \in r.done \/ copy[v] = r.desired[v])
      BY <2>1, <2>5 DEF CopyHolds
    <3>3. {h \in Groups : IF h = r.group THEN v \in r.next ELSE v \in members'[h]} = Becoming(r, v)
      BY <1>1, <3>1 DEF Becoming
    <3> QED BY <1>3, <3>1, <3>2, <3>3
  <2>6. CopyHolds(r)'
    BY <2>1, <2>4, <2>5 DEF CopyHolds, Becoming, r
  <2> QED BY <2>1, <2>6 DEF r
<1> QED BY <1>4, <1>5, <1>6 DEF CopyIInv

LEMMA CopyStep == CopyIInv /\ Apart /\ [ScimNext]_scimVars => CopyIInv'
<1> SUFFICES ASSUME CopyIInv, Apart, [ScimNext]_scimVars PROVE CopyIInv'
  OBVIOUS
<1>1. ScimIInv'
  BY ScimStep DEF CopyIInv
<1>2. CASE ScimNext
  BY <1>1, <1>2, EarlyCopy, ReplaceCopy, SyncReadCopy, SyncRowCopy, CommitCopy, DeletionCopy
     DEF ScimNext
<1>3. CASE UNCHANGED scimVars
  BY <1>1, <1>3
     DEF scimVars, CopyIInv, CopyHolds, Becoming, GroupsInSync, GroupsOf
<1> QED BY <1>2, <1>3

LEMMA CopyInit == ScimInit => CopyIInv
<1> SUFFICES ASSUME ScimInit PROVE CopyIInv
  OBVIOUS
<1>1. \A t \in Requests : CopyHolds(request[t])
  BY NoCopy DEF ScimInit
<1>2. copy \in [Accounts -> SUBSET Groups] /\ GroupsInSync
  BY DEF ScimInit, GroupsInSync, GroupsOf
<1> QED BY <1>1, <1>2, ScimInitially DEF CopyIInv

\* users.groups agrees with the memberships at every commit of #syncUserGroups, as long as
\* no two transactions that affect a common account overlap.  Nothing in the repository
\* keeps such transactions apart: scim_sync has two that are not.
THEOREM ApartInSync == ScimSpec /\ []Apart => []GroupsInSync
<1>1. CopyIInv => GroupsInSync
  BY DEF CopyIInv
<1> QED BY <1>1, CopyInit, CopyStep, PTL DEF ScimSpec

\* With one SCIM connection at a time users.groups is right, whatever is created,
\* replaced or deleted, and whatever accounts go.
THEOREM SerialInSync ==
  ASSUME \A s, t \in Requests : s = t
  PROVE  ScimSpec => []GroupsInSync
<1>1. Apart
  BY DEF Apart
<1> QED BY <1>1, ApartInSync, PTL

\* The transactions of one group exclude each other by its row lock, so users.groups is
\* right for a realm with one group, however many requests overlap.
THEOREM OneGroupInSync ==
  ASSUME \A g, h \in Groups : g = h
  PROVE  ScimSpec => []GroupsInSync
<1>1. ScimIInv => Apart
  <2> SUFFICES ASSUME ScimIInv, NEW s \in Requests, NEW t \in Requests, s # t,
                      {request[s].pc, request[t].pc} \subseteq HoldsMembers
               PROVE  FALSE
    BY DEF Apart
  <2>1. /\ {request[s].pc, request[t].pc} \subseteq HoldsGroup
        /\ request[s].group \in Groups /\ request[t].group \in Groups
    BY DEF ScimIInv, RequestHolds, HoldsMembers, HoldsGroup
  <2> QED BY <2>1 DEF ScimIInv, OneHolder
<1> QED BY <1>1, ScimInitially, ScimStep, ApartInSync, PTL DEF ScimSpec
============================================================================
