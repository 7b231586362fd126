------------------------ MODULE FederatedIdentities ------------------------
(***************************************************************************)
(* PostgresFederatedIdentityRepository                                     *)
(* (src/src/repositories/federated-identity-repository.js) against the     *)
(* other writers of users: account creation, deletion and security         *)
(* changes.                                                                *)
(*                                                                         *)
(* A resolve is a transaction under an advisory lock of the identity; a    *)
(* link is one under an advisory lock of account and provider; neither     *)
(* takes the other's lock, so they meet at the primary key of              *)
(* federated_identities.  A new users row takes the advisory lock of the   *)
(* realm's login namespace (the trigger of the users table) until its      *)
(* transaction ends.  Every statement is a step; what a transaction wrote  *)
(* is visible to others at its commit.                                     *)
(***************************************************************************)
EXTENDS IdentityLinks

CONSTANT Txs   \* connections

VARIABLES tx   \* tx[t]: the transaction connection t is running

vars == <<linkVars, tx>>

NoTx == [op |-> None, pc |-> "idle", sub |-> None, user |-> None]
Run(op, pc, s, u) == [op |-> op, pc |-> pc, sub |-> s, user |-> u]

Init == LinksInit /\ tx = [t \in Txs |-> NoTx]

End(t) == tx' = [tx EXCEPT ![t] = NoTx]
Goto(t, pc) == tx' = [tx EXCEPT ![t].pc = pc]
In(op, pcs) == {t \in Txs : tx[t].op = op /\ tx[t].pc \in pcs}

----------------------------------------------------------------------------
(* Locks, derived from where each transaction is.                          *)

\* pg_advisory_xact_lock of key(identity): held by a resolve to its end.
IdentityLocked(s) ==
  \E t \in In("resolve", {"update", "collide", "account", "link", "stored", "found"}) :
    tx[t].sub = s
\* pg_advisory_xact_lock of userProviderKey: held by a link to its end.
UserProviderLocked(u) == \E t \in In("link", {"user", "insert", "stored"}) : tx[t].user = u
\* The login namespace: held from the INSERT of users to the commit.
NamespaceLocked == In("resolve", {"link", "stored"}) # {}
\* The users row: FOR KEY SHARE by links, FOR UPDATE by a deletion.
KeyShared(u) == \E t \in In("link", {"insert", "stored"}) : tx[t].user = u
ForUpdate(u) == \E t \in In("delete", {"cascade"}) : tx[t].user = u
\* An uncommitted row of federated_identities under the key of s.
Inserting(s, t) ==
  \E o \in (In("resolve", {"stored"}) \cup In("link", {"stored"})) \ {t} : tx[o].sub = s
\* The row of s, locked by the UPDATE of a resolve.
LinkLocked(s) == \E t \in In("resolve", {"found"}) : tx[t].sub = s

----------------------------------------------------------------------------
(* resolve                                                                 *)

ResolveBegin(t, s) ==
  /\ tx[t].pc = "idle" /\ ~IdentityLocked(s)
  /\ tx' = [tx EXCEPT ![t] = Run("resolve", "update", s, None)]
  /\ UNCHANGED linkVars

\* UPDATE ... FROM users ... RETURNING: the linked account, whose row stays locked.
ResolveFound(t) ==
  /\ tx[t].op = "resolve" /\ tx[t].pc = "update"
  /\ link[tx[t].sub] # None
  /\ tx' = [tx EXCEPT ![t].pc = "found", ![t].user = link[tx[t].sub]]
  /\ UNCHANGED linkVars

\* No link: not_found, unless allowCreate, an argument of the call that is
\* first read here, lets an account be created.
ResolveMissed(t) ==
  /\ tx[t].op = "resolve" /\ tx[t].pc = "update"
  /\ link[tx[t].sub] = None
  /\ Goto(t, "collide") \/ End(t)
  /\ UNCHANGED linkVars

\* Somebody has the login name: link_required.
ResolveCollide(t) ==
  /\ tx[t].op = "resolve" /\ tx[t].pc = "collide"
  /\ IF LoginTaken(NameOf[tx[t].sub]) THEN End(t) ELSE Goto(t, "account")
  /\ UNCHANGED linkVars

\* Mutant: the namespace trigger does not look again after it has its lock.
ResolveAccountUnchecked(t, u) ==
  /\ tx[t].op = "resolve" /\ tx[t].pc = "account" /\ ~NamespaceLocked
  /\ Unused(u) /\ \A o \in Txs : tx[o].user # u
  /\ tx' = [tx EXCEPT ![t].pc = "link", ![t].user = u]
  /\ UNCHANGED linkVars

\* INSERT INTO users: the trigger waits for the namespace and looks again.
ResolveAccount(t, u) ==
  /\ tx[t].op = "resolve" /\ tx[t].pc = "account" /\ ~NamespaceLocked
  /\ ~LoginTaken(NameOf[tx[t].sub])
  /\ Unused(u) /\ \A o \in Txs : tx[o].user # u
  /\ tx' = [tx EXCEPT ![t].pc = "link", ![t].user = u]
  /\ UNCHANGED linkVars

\* Its unique_violation rolls back and answers link_required.
ResolveClash(t) ==
  /\ tx[t].op = "resolve" /\ tx[t].pc = "account" /\ ~NamespaceLocked
  /\ LoginTaken(NameOf[tx[t].sub])
  /\ End(t)
  /\ UNCHANGED linkVars

\* INSERT INTO federated_identities waits for an uncommitted link of the same
\* identity; a committed one is a violation: the new account is rolled back.
ResolveLink(t) ==
  /\ tx[t].op = "resolve" /\ tx[t].pc = "link" /\ ~Inserting(tx[t].sub, t)
  /\ IF link[tx[t].sub] # None THEN End(t) ELSE Goto(t, "stored")
  /\ UNCHANGED linkVars

\* COMMIT of a resolve that found a link, or created account and link.
ResolveCommit(t) ==
  /\ tx[t].op = "resolve"
  /\ \/ tx[t].pc = "found" /\ UNCHANGED linkVars
     \/ /\ tx[t].pc = "stored"
        /\ standing' = [standing EXCEPT ![tx[t].user] = "enabled"]
        /\ login' = [login EXCEPT ![tx[t].user] = NameOf[tx[t].sub]]
        /\ link' = [link EXCEPT ![tx[t].sub] = tx[t].user]
  /\ End(t)

----------------------------------------------------------------------------
(* link and unlink                                                         *)

LinkBegin(t, s, u) ==
  /\ tx[t].pc = "idle" /\ ~UserProviderLocked(u)
  /\ tx' = [tx EXCEPT ![t] = Run("link", "user", s, u)]
  /\ UNCHANGED linkVars

\* SELECT ... FOR KEY SHARE of the account, which waits for a deletion.
LinkUser(t) ==
  /\ tx[t].op = "link" /\ tx[t].pc = "user" /\ ~ForUpdate(tx[t].user)
  /\ IF Present(tx[t].user) THEN Goto(t, "insert") ELSE End(t)
  /\ UNCHANGED linkVars

\* Mutant: the transaction is left open when the link conflicts.
LinkInsertOpen(t) ==
  /\ tx[t].op = "link" /\ tx[t].pc = "insert"
  /\ ~Inserting(tx[t].sub, t) /\ ~LinkLocked(tx[t].sub)
  /\ IF link[tx[t].sub] # None \/ \E o \in Subjects : link[o] = tx[t].user
       THEN UNCHANGED tx
       ELSE Goto(t, "stored")
  /\ UNCHANGED linkVars

\* INSERT ... ON CONFLICT DO UPDATE: a link that is there already is locked, which
\* waits for a resolve that holds it, and left alone, of this account (linked) or
\* another's (conflict); a second link of the account to
\* the provider violates the unique index (conflict).
LinkInsert(t) ==
  /\ tx[t].op = "link" /\ tx[t].pc = "insert"
  /\ ~Inserting(tx[t].sub, t) /\ ~LinkLocked(tx[t].sub)
  /\ IF link[tx[t].sub] # None \/ \E o \in Subjects : link[o] = tx[t].user
       THEN End(t)
       ELSE Goto(t, "stored")
  /\ UNCHANGED linkVars

LinkCommit(t) ==
  /\ tx[t].op = "link" /\ tx[t].pc = "stored"
  /\ link' = [link EXCEPT ![tx[t].sub] = tx[t].user]
  /\ UNCHANGED <<standing, login>>
  /\ End(t)

\* DELETE ... RETURNING, one statement; it waits for a resolve that holds the row.
Unlink(s) ==
  /\ ~LinkLocked(s)
  /\ UnlinkAccount(s)
  /\ UNCHANGED tx

----------------------------------------------------------------------------
(* The other writers of users                                              *)

CreateUser(u, n) ==
  /\ ~NamespaceLocked /\ \A t \in Txs : tx[t].user # u
  /\ CreateAccount(u, n)
  /\ UNCHANGED tx

\* mutateAccountSecurity enabling or disabling the account.
SetEnabled(u, to) ==
  /\ ~KeyShared(u) /\ ~ForUpdate(u)
  /\ ChangeStanding(u, to)
  /\ UNCHANGED tx

DeleteBegin(t, u) ==
  /\ tx[t].pc = "idle" /\ Present(u) /\ ~KeyShared(u) /\ ~ForUpdate(u)
  /\ tx' = [tx EXCEPT ![t] = Run("delete", "cascade", None, u)]
  /\ UNCHANGED linkVars

\* Mutant: a deletion that does not wait for resolves which hold its links.
DeleteCommitAtOnce(t) ==
  /\ tx[t].op = "delete" /\ tx[t].pc = "cascade"
  /\ ChangeStanding(tx[t].user, "deleted")
  /\ End(t)

\* DELETE FROM users cascades to the links, which waits for resolves on them.
DeleteCommit(t) ==
  /\ tx[t].op = "delete" /\ tx[t].pc = "cascade"
  /\ \A s \in Subjects : link[s] = tx[t].user => ~LinkLocked(s)
  /\ ChangeStanding(tx[t].user, "deleted")
  /\ End(t)

\* A statement fails, or the connection does: ROLLBACK.
Rollback(t) ==
  /\ tx[t].pc # "idle"
  /\ End(t)
  /\ UNCHANGED linkVars

Step(t) ==
  \/ ResolveFound(t) \/ ResolveMissed(t) \/ ResolveCollide(t)
  \/ (\E u \in Users : ResolveAccount(t, u)) \/ ResolveClash(t)
  \/ ResolveLink(t) \/ ResolveCommit(t)
  \/ LinkUser(t) \/ LinkInsert(t) \/ LinkCommit(t)
  \/ DeleteCommit(t)

Next ==
  \/ \E t \in Txs : Step(t) \/ Rollback(t)
  \/ \E t \in Txs, s \in Subjects : ResolveBegin(t, s)
  \/ \E t \in Txs, s \in Subjects, u \in Users : LinkBegin(t, s, u)
  \/ \E t \in Txs, u \in Users : DeleteBegin(t, u)
  \/ \E s \in Subjects : Unlink(s)
  \/ \E u \in Users, n \in Names : CreateUser(u, n)
  \/ \E u \in Users, to \in {"enabled", "disabled"} : SetEnabled(u, to)

Spec == Init /\ [][Next]_vars

\* PostgreSQL runs every statement that does not wait, and serves the waiters
\* of a lock in turn.
FairSpec == Spec /\ \A t \in Txs : SF_vars(Step(t))

----------------------------------------------------------------------------
(* Properties                                                              *)

\* The account a resolve is about to return is still the one its subject is
\* linked to, and it exists: no unlink, relink or deletion fits in between.
ResolutionIsCurrent ==
  \A t \in In("resolve", {"found"}) :
    link[tx[t].sub] = tx[t].user /\ Present(tx[t].user)

\* No account is ever reached by two subjects of the provider, and no login
\* name by two accounts, whatever resolves, links and creations overlap; every
\* change of the links is one the abstract repository allows.
ImplementsLinks == LinksSpec

\* Every transaction ends: resolves, links and deletions never wait for each
\* other in a circle.
TransactionsEnd == \A t \in Txs : tx[t].pc # "idle" ~> tx[t].pc = "idle"
============================================================================
