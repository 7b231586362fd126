----------------------------- MODULE ScimGroups -----------------------------
(***************************************************************************)
(* SCIM groups of one realm: the Groups endpoints of                       *)
(* src/src/scim/router.js over the transactions of                         *)
(* src/src/repositories/scim-repository.js, and the two ways a user is     *)
(* deleted.                                                                *)
(*                                                                         *)
(* A group's members are rows of scim_group_members; users.groups is a     *)
(* copy of a user's groups, from which tokens are filled.  A request reads *)
(* the group (its row, then its members), and then runs a transaction at   *)
(* READ COMMITTED: lock the group row at the version read, replace the     *)
(* members, and recompute the copy for everybody affected.  That last      *)
(* statement evaluates the memberships once and then waits for each users  *)
(* row in turn.  Nothing a transaction writes is visible before its commit.*)
(***************************************************************************)
EXTENDS Naturals, FiniteSets

CONSTANTS Accounts,     \* accounts of the realm
          Groups,       \* group identifiers (UUIDs, never reused)
          Requests,     \* requests, each on a connection of its own
          MaxVersion,   \* bound on scim_groups.version
          Absent

ASSUME ScimAssumption ==
  /\ MaxVersion \in Nat
  /\ Absent \notin Groups

VARIABLES users,   \* accounts that exist
          state,   \* state[g]: fresh, live or gone row of scim_groups
          version, \* version[g]: its version, the ETag
          members, \* members[g]: committed rows of scim_group_members
          copy,    \* copy[u]: users.groups
          epoch,   \* epoch[u]: users.security_version
          request  \* request[t]: what request t is doing

scimVars == <<users, state, version, members, copy, epoch, request>>

NoRequest ==
  [pc |-> "idle", op |-> Absent, group |-> Absent, version |-> 0, base |-> {}, next |-> {},
   affected |-> {}, desired |-> << >>, todo |-> {}, done |-> {}]

ScimInit ==
  /\ users = Accounts
  /\ state = [g \in Groups |-> "fresh"]
  /\ version = [g \in Groups |-> 0]
  /\ members = [g \in Groups |-> {}]
  /\ copy = [u \in Accounts |-> {}]
  /\ epoch = [u \in Accounts |-> 0]
  /\ request = [t \in Requests |-> NoRequest]

\* Transactions past the statement that locks the group row, past the one that
\* replaces the members (and so holds the users it adds and removes).
HoldsGroup == {"locked", "replaced", "syncing"}
HoldsMembers == {"replaced", "syncing"}

GroupFree(g) == \A t \in Requests : request[t].pc \in HoldsGroup => request[t].group # g

UserFree(u) == \A t \in Requests : request[t].pc \in HoldsMembers => u \notin request[t].affected

GroupsOf(m, u) == {g \in Groups : u \in m[g]}

----------------------------------------------------------------------------
(* The request before its transaction                                      *)

\* getGroup: the row first ...
ReadRow(t, g) ==
  /\ request[t].pc = "idle" /\ state[g] = "live"
  /\ request' = [request EXCEPT ![t] = [NoRequest EXCEPT !.pc = "row", !.group = g,
                                                         !.version = version[g]]]
  /\ UNCHANGED <<users, state, version, members, copy, epoch>>

\* ... then the members, in a statement of its own; what the request will make
\* of them (PUT, PATCH, DELETE) is decided here.
ReadMembers(t, op, next) ==
  /\ request[t].pc = "row"
  /\ op = "delete" => next = {}
  /\ request' = [request EXCEPT ![t].pc = "read", ![t].op = op, ![t].base = members[request[t].group],
                      ![t].next = next]
  /\ UNCHANGED <<users, state, version, members, copy, epoch>>

----------------------------------------------------------------------------
(* createGroup, replaceGroup, deleteGroup                                  *)

CreateGroup(t, g, next) ==
  /\ request[t].pc = "idle" /\ state[g] = "fresh" /\ GroupFree(g)
  /\ request' = [request EXCEPT ![t] = [NoRequest EXCEPT !.pc = "locked", !.op = "create",
                                                         !.group = g, !.next = next]]
  /\ UNCHANGED <<users, state, version, members, copy, epoch>>

\* Mutant: the version is not compared.
MayChangeAnyway(t) == state[request[t].group] = "live"

\* UPDATE ... WHERE version=$5, or FOR UPDATE and the comparison.
MayChange(t) == state[request[t].group] = "live" /\ version[request[t].group] = request[t].version

\* The group row is locked at the version read, or the request is refused.
LockGroup(t) ==
  /\ request[t].pc = "read" /\ GroupFree(request[t].group)
  /\ MayChange(t) => version[request[t].group] < MaxVersion
  /\ request' = [request EXCEPT ![t] = IF MayChange(t) THEN [request[t] EXCEPT !.pc = "locked"]
                                                       ELSE NoRequest]
  /\ UNCHANGED <<users, state, version, members, copy, epoch>>

\* Mutant: only the new members are affected.
AffectedNew(t) == request[t].next

\* Previous and new members.
Affected(t) == members[request[t].group] \cup request[t].next

\* #replaceMembers, or the delete that cascades to the members.  The foreign key
\* refuses a member that does not exist.
ReplaceMembers(t) ==
  /\ request[t].pc = "locked"
  /\ request' = [request EXCEPT ![t] = IF request[t].next \subseteq users
                               THEN [request[t] EXCEPT !.pc = "replaced", !.affected = Affected(t)]
                               ELSE NoRequest]
  /\ UNCHANGED <<users, state, version, members, copy, epoch>>

\* The memberships as the transaction sees them: the committed ones and its own.
Seen(t) == [members EXCEPT ![request[t].group] = request[t].next]

\* #syncUserGroups evaluates "desired" on one snapshot, and skips the users whose
\* copy is right in that snapshot.
SyncRead(t) ==
  LET desired == [u \in request[t].affected |-> GroupsOf(Seen(t), u)] IN
  /\ request[t].pc = "replaced"
  /\ request' = [request EXCEPT ![t].pc = "syncing", ![t].desired = desired,
                      ![t].todo = {u \in request[t].affected : copy[u] # desired[u]}]
  /\ UNCHANGED <<users, state, version, members, copy, epoch>>

\* ... and updates a users row once it gets its lock, if the copy it then finds
\* still differs from what was computed.
SyncRow(t, u) ==
  /\ request[t].pc = "syncing" /\ u \in request[t].todo
  /\ \A s \in Requests : u \notin request[s].done
  /\ request' = [request EXCEPT ![t].todo = @ \ {u},
                      ![t].done = IF copy[u] # request[t].desired[u] THEN @ \cup {u} ELSE @]
  /\ UNCHANGED <<users, state, version, members, copy, epoch>>

\* version=version+1, or 1 for a new row.
Advanced(t) ==
  IF request[t].op = "delete" THEN version ELSE [version EXCEPT ![request[t].group] = @ + 1]

\* security_version=security_version+1 of the users rows that were updated.
Bumped(t) == [u \in Accounts |-> IF u \in request[t].done THEN epoch[u] + 1 ELSE epoch[u]]

\* revokeAccounts of those whose copy changed, and COMMIT.
Commit(t) ==
  /\ request[t].pc = "syncing" /\ request[t].todo = {}
  /\ state' = [state EXCEPT ![request[t].group] = IF request[t].op = "delete" THEN "gone" ELSE "live"]
  /\ version' = Advanced(t)
  /\ members' = Seen(t)
  /\ copy' = [u \in Accounts |-> IF u \in request[t].done THEN request[t].desired[u] ELSE copy[u]]
  /\ epoch' = Bumped(t)
  /\ request' = [request EXCEPT ![t] = NoRequest]
  /\ UNCHANGED users

\* A statement fails, is refused or is chosen to break a deadlock: ROLLBACK.
Abort(t) ==
  /\ request[t].pc # "idle"
  /\ request' = [request EXCEPT ![t] = NoRequest]
  /\ UNCHANGED <<users, state, version, members, copy, epoch>>

----------------------------------------------------------------------------
(* Deleting a user                                                         *)

Without(u) == [g \in Groups |-> members[g] \ {u}]

\* deleteUser of the SCIM repository: the user is locked first, the versions of
\* its groups advance, and the memberships go with the row.
DeleteUser(u) ==
  /\ u \in users /\ UserFree(u)
  /\ \A g \in GroupsOf(members, u) : GroupFree(g) /\ version[g] < MaxVersion
  /\ users' = users \ {u}
  /\ version' = [g \in Groups |-> IF u \in members[g] THEN version[g] + 1 ELSE version[g]]
  /\ members' = Without(u)
  /\ copy' = [copy EXCEPT ![u] = {}]
  /\ UNCHANGED <<state, epoch, request>>

\* deleteAccount of the data layer: only the row, with what cascades from it.
DeleteAccount(u) ==
  /\ u \in users /\ UserFree(u)
  /\ users' = users \ {u}
  /\ members' = Without(u)
  /\ copy' = [copy EXCEPT ![u] = {}]
  /\ UNCHANGED <<state, version, epoch, request>>

ScimNext ==
  \/ \E t \in Requests, g \in Groups : ReadRow(t, g)
  \/ \E t \in Requests, op \in {"replace", "delete"}, next \in SUBSET Accounts :
       ReadMembers(t, op, next)
  \/ \E t \in Requests, g \in Groups, next \in SUBSET Accounts : CreateGroup(t, g, next)
  \/ \E t \in Requests : LockGroup(t) \/ ReplaceMembers(t) \/ SyncRead(t) \/ Commit(t) \/ Abort(t)
  \/ \E t \in Requests, u \in Accounts : SyncRow(t, u)
  \/ \E u \in Accounts : DeleteUser(u) \/ DeleteAccount(u)

ScimSpec == ScimInit /\ [][ScimNext]_scimVars

----------------------------------------------------------------------------
(* Properties                                                              *)

\* The variables have their types.
TypeOK ==
  /\ users \subseteq Accounts
  /\ state \in [Groups -> {"fresh", "live", "gone"}]
  /\ version \in [Groups -> Nat] /\ epoch \in [Accounts -> Nat]
  /\ members \in [Groups -> SUBSET Accounts] /\ copy \in [Accounts -> SUBSET Groups]
  /\ \A t \in Requests :
       /\ request[t].pc \in {"idle", "row", "read"} \cup HoldsGroup
       /\ request[t].todo \cup request[t].done \subseteq request[t].affected

\* A change of a group builds on the members it replaces, but for accounts deleted
\* since: a request that read the row and the members in two statements, with commits
\* in between, is refused by the version (router.js PUT and PATCH, replaceGroup,
\* deleteUser).
NoLostUpdate ==
  \A t \in Requests : request[t].pc \in HoldsGroup /\ request[t].op # "create" =>
    request[t].base \cap users = members[request[t].group]

\* The copy of a user's groups agrees with the memberships at every commit
\* (#syncUserGroups).
GroupsInSync == \A u \in users : copy[u] = GroupsOf(members, u)
============================================================================
