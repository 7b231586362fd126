--------------------------- MODULE AdminSessions ---------------------------
(***************************************************************************)
(* Sessions of the administration console (src/src/routes/admin-console.js *)
(* over the admin_sessions and admin_grants tables of                      *)
(* src/src/repositories/identity-store.js) of one administrator.           *)
(*                                                                         *)
(* A session is a row that names the security version of the account and   *)
(* the version of the grant its sign-in saw.  A request reads the row, the *)
(* clock, the account and the grant one after the other, with awaits in    *)
(* between, and then perhaps writes the row: so each decision is about     *)
(* copies of four different moments.  Every step below is one statement on *)
(* the database, or one synchronous decision.                              *)
(***************************************************************************)
EXTENDS Naturals, FiniteSets

CONSTANTS Sessions,   \* digests of session values (random, never reused)
          Requests,   \* requests being served, callbacks of the sign-in included
          SessionTtl, \* absolute lifetime, in ticks
          IdleTtl,    \* idle lifetime
          TouchAfter, \* a row seen more recently is not written
          Batch,      \* rows one cleanup deletes
          MaxVersion, \* bound on the security version
          MaxGrant,   \* bound on the version of the grant
          MaxClock,   \* bound on the clock
          None

ASSUME AdminAssumption ==
  /\ {SessionTtl, IdleTtl, TouchAfter, Batch, MaxVersion, MaxGrant, MaxClock} \subseteq Nat
  /\ IdleTtl <= SessionTtl
  /\ None \notin Sessions

VARIABLES clock,
          user,   \* the users row: whether it exists, enabled, version
          grant,  \* the admin_grants row; version 0: there is none
          rows,   \* rows[s]: the admin_sessions row of s, or NoRow
          issued, \* digests that had a row
          held,   \* sessions whose cookie was sent to a browser
          req,    \* req[r]: what request r is doing
          used,   \* history: used[s], time of the last accepted request (or the sign-in)
          stray   \* history: sessions the compensation of a sign-in failed to delete

vars == <<clock, user, grant, rows, issued, held, req, used, stray>>
db == <<user, grant, rows, issued, held, used, stray>>

NoRow == [live |-> FALSE, user |-> 0, grant |-> 0, seen |-> 0, idle |-> 0, expires |-> 0]

NoGrant == [enabled |-> FALSE, version |-> 0]
NoUser == [exists |-> FALSE, enabled |-> FALSE, version |-> 0]

\* A request: its step, its session, the copies it made, and the time it took.
\* was (history): the session could be used at the moment its row was read.
NoReq == [pc |-> "none", session |-> None, row |-> NoRow, now |-> 0, was |-> FALSE,
          user |-> NoUser, grant |-> NoGrant]

Init ==
  /\ clock = 0
  /\ user = [exists |-> TRUE, enabled |-> TRUE, version |-> 0]
  /\ grant = NoGrant
  /\ rows = [s \in Sessions |-> NoRow]
  /\ issued = {} /\ held = {} /\ stray = {}
  /\ req = [r \in Requests |-> NoReq]
  /\ used = [s \in Sessions |-> 0]

Smaller(a, b) == IF a <= b THEN a ELSE b
Larger(a, b) == IF a <= b THEN b ELSE a

Expired(row, t) == row.expires <= t \/ row.idle <= t

\* The versions in the row are those of the account and the grant, both enabled.
Matches(row, u, g) ==
  /\ u.enabled /\ u.version = row.user
  /\ g.enabled /\ g.version = row.grant

Usable(s) == rows[s].live /\ ~Expired(rows[s], clock) /\ Matches(rows[s], user, grant)

Goto(r, pc) == req' = [req EXCEPT ![r].pc = pc]

----------------------------------------------------------------------------
(* The callback of the sign-in; the identity token has been verified       *)

CallbackUser(r) ==
  /\ req[r].pc = "none"
  /\ req' = [req EXCEPT ![r] = [NoReq EXCEPT !.pc = "callback", !.user = user]]
  /\ UNCHANGED <<clock, db>>

Admitted(u, g) == u.enabled /\ g.enabled

\* The grant is read, the account is admitted or refused, and the time is taken
\* for the expiries.
CallbackGrant(r) ==
  /\ req[r].pc = "callback"
  /\ req' = [req EXCEPT ![r] =
               IF Admitted(req[r].user, grant)
                 THEN [req[r] EXCEPT !.pc = "create", !.grant = grant, !.now = clock]
                 ELSE NoReq]
  /\ UNCHANGED <<clock, db>>

NewRow(q) ==
  [live |-> TRUE, user |-> q.user.version, grant |-> q.grant.version, seen |-> q.now,
   idle |-> q.now + IdleTtl, expires |-> q.now + SessionTtl]

\* Mutant: the digest is remembered only when the insert has answered.
AfterCreateForgetful(ok) == IF ok THEN "audit" ELSE "none"

\* Where an insert that answered, or failed, leaves the callback: createdSessionDigest
\* is assigned before the insert, so both know what to delete.
AfterCreate(ok) == IF ok THEN "audit" ELSE "undo"

\* The insert; the connection may be lost after the row was committed.
CallbackCreate(r, s, ok) ==
  /\ req[r].pc = "create" /\ s \notin issued
  /\ user.exists                               \* the foreign key
  /\ rows' = [rows EXCEPT ![s] = NewRow(req[r])]
  /\ issued' = issued \cup {s}
  /\ used' = [used EXCEPT ![s] = req[r].now]
  /\ req' = [req EXCEPT ![r].pc = AfterCreate(ok), ![r].session = s]
  /\ UNCHANGED <<clock, user, grant, held, stray>>

\* The insert fails, in the end because the account is gone.
CallbackRefused(r) ==
  /\ req[r].pc = "create"
  /\ req' = [req EXCEPT ![r] = NoReq]
  /\ UNCHANGED <<clock, db>>

\* writeAudit answers or throws.
CallbackAudit(r, ok) ==
  /\ req[r].pc = "audit"
  /\ Goto(r, IF ok THEN "previous" ELSE "undo")
  /\ UNCHANGED <<clock, db>>

\* The session the browser had is deleted, an error of which is ignored, and the
\* cookie is sent.
CallbackPrevious(r, gone) ==
  /\ req[r].pc = "previous" /\ gone \subseteq held \ {req[r].session}
  /\ Cardinality(gone) <= 1
  /\ rows' = [s \in Sessions |-> IF s \in gone THEN NoRow ELSE rows[s]]
  /\ held' = held \cup {req[r].session}
  /\ req' = [req EXCEPT ![r] = NoReq]
  /\ UNCHANGED <<clock, user, grant, issued, used, stray>>

\* The compensation deletes the created session; an error of it is ignored.
CallbackUndo(r, ok) ==
  /\ req[r].pc = "undo"
  /\ rows' = IF ok THEN [rows EXCEPT ![req[r].session] = NoRow] ELSE rows
  /\ stray' = IF ok THEN stray ELSE stray \cup {req[r].session}
  /\ req' = [req EXCEPT ![r] = NoReq]
  /\ UNCHANGED <<clock, user, grant, issued, held, used>>

----------------------------------------------------------------------------
(* authenticate                                                            *)

\* findAdminSession, with a cookie some browser was sent, even long ago.
FindSession(r, s) ==
  /\ req[r].pc = "none" /\ s \in held
  /\ req' = [req EXCEPT ![r] = [NoReq EXCEPT !.pc = "found", !.session = s, !.row = rows[s],
                                             !.was = Usable(s)]]
  /\ UNCHANGED <<clock, db>>

\* The row has arrived: there is none, it has expired, or the check goes on.
CheckExpiry(r) ==
  /\ req[r].pc = "found"
  /\ req' = [req EXCEPT ![r] =
               IF ~req[r].row.live THEN NoReq
               ELSE [req[r] EXCEPT !.now = clock,
                                   !.pc = IF Expired(req[r].row, clock) THEN "drop" ELSE "user"]]
  /\ UNCHANGED <<clock, db>>

ReadUser(r) ==
  /\ req[r].pc = "user"
  /\ req' = [req EXCEPT ![r].pc = "grant", ![r].user = user]
  /\ UNCHANGED <<clock, db>>

\* Mutant: enabled is compared and the versions are not.
PassesByFlags(q, g) == q.user.enabled /\ g.enabled

Passes(q, g) == Matches(q.row, q.user, g)

\* All that the handler needs.
Accept(q) == [NoReq EXCEPT !.pc = "accepted", !.session = q.session, !.was = q.was]

\* The grant is read and the decision made; a row not seen for a while is touched.
ReadGrant(r) ==
  LET ok == Passes(req[r], grant)
      due == req[r].now >= req[r].row.seen + TouchAfter IN
  /\ req[r].pc = "grant"
  /\ req' = [req EXCEPT ![r] = IF ~ok THEN [@ EXCEPT !.pc = "drop"]
                               ELSE IF due THEN [@ EXCEPT !.pc = "touch"] ELSE Accept(@)]
  /\ used' = IF ok THEN [used EXCEPT ![req[r].session] = Larger(@, req[r].now)] ELSE used
  /\ UNCHANGED <<clock, user, grant, rows, issued, held, stray>>

\* deleteAdminSession of a session found expired or out of date.
Drop(r) ==
  /\ req[r].pc = "drop"
  /\ rows' = [rows EXCEPT ![req[r].session] = NoRow]
  /\ req' = [req EXCEPT ![r] = NoReq]
  /\ UNCHANGED <<clock, user, grant, issued, held, used, stray>>

\* Mutant: the idle lifetime is the absolute one.
ExtendedFar(q) == q.now + SessionTtl

Extended(q) == Smaller(q.now + IdleTtl, q.row.expires)

\* Mutant: the row is written whether it has expired or not.
MayTouchAnyway(row) == row.live

\* WHERE expires_at > CURRENT_TIMESTAMP AND idle_expires_at > CURRENT_TIMESTAMP
MayTouch(row) == row.live /\ ~Expired(row, clock)

\* touchAdminSession; the request goes on with its copy if no row was updated.
Touch(r) ==
  LET s == req[r].session IN
  /\ req[r].pc = "touch"
  /\ rows' = IF MayTouch(rows[s])
               THEN [rows EXCEPT ![s].seen = clock, ![s].idle = Extended(req[r])]
               ELSE rows
  /\ req' = [req EXCEPT ![r] = Accept(@)]
  /\ UNCHANGED <<clock, user, grant, issued, held, used, stray>>

\* The handler of an accepted request runs, and logout deletes the session.
Serve(r, logout) ==
  /\ req[r].pc = "accepted"
  /\ rows' = IF logout THEN [rows EXCEPT ![req[r].session] = NoRow] ELSE rows
  /\ req' = [req EXCEPT ![r] = NoReq]
  /\ UNCHANGED <<clock, user, grant, issued, held, used, stray>>

\* A statement fails outside the callback's try block: an error page.
Fail(r) ==
  /\ req[r].pc \in {"callback", "found", "user", "grant", "drop", "touch", "accepted"}
  /\ req' = [req EXCEPT ![r] = NoReq]
  /\ UNCHANGED <<clock, db>>

----------------------------------------------------------------------------
(* The account, its grant, and the clock                                   *)

\* mutateAccountSecurity, whatever it changes.
ChangeAccount(enabled) ==
  /\ user.exists /\ user.version < MaxVersion
  /\ user' = [exists |-> TRUE, enabled |-> enabled, version |-> user.version + 1]
  /\ UNCHANGED <<clock, grant, rows, issued, held, req, used, stray>>

\* The account is deleted, and with it the grant and the sessions.
DeleteAccount ==
  /\ user.exists
  /\ user' = NoUser
  /\ grant' = NoGrant
  /\ rows' = [s \in Sessions |-> NoRow]
  /\ UNCHANGED <<clock, issued, held, req, used, stray>>

\* upsertAdminGrant, which inserts version 1, and revokeAdminGrant, which finds a
\* row or changes nothing.
ChangeGrant(enabled) ==
  /\ user.exists /\ grant.version < MaxGrant
  /\ grant' = [enabled |-> enabled, version |-> grant.version + 1]
  /\ UNCHANGED <<clock, user, rows, issued, held, req, used, stray>>

\* cleanupExpiredAdminSessions; rows locked by others are skipped.
Cleanup(gone) ==
  /\ gone # {} /\ Cardinality(gone) <= Batch
  /\ \A s \in gone : rows[s].live /\ Expired(rows[s], clock)
  /\ rows' = [s \in Sessions |-> IF s \in gone THEN NoRow ELSE rows[s]]
  /\ UNCHANGED <<clock, user, grant, issued, held, req, used, stray>>

Tick ==
  /\ clock < MaxClock
  /\ clock' = clock + 1
  /\ UNCHANGED <<db, req>>

Callback(r) ==
  \/ CallbackUser(r) \/ CallbackGrant(r) \/ CallbackRefused(r)
  \/ \E s \in Sessions, ok \in BOOLEAN : CallbackCreate(r, s, ok)
  \/ \E ok \in BOOLEAN : CallbackAudit(r, ok) \/ CallbackUndo(r, ok)
  \/ \E gone \in SUBSET Sessions : CallbackPrevious(r, gone)

Authenticate(r) ==
  \/ \E s \in Sessions : FindSession(r, s)
  \/ CheckExpiry(r) \/ ReadUser(r) \/ ReadGrant(r) \/ Drop(r) \/ Touch(r) \/ Fail(r)
  \/ \E logout \in BOOLEAN : Serve(r, logout)

Next ==
  \/ \E r \in Requests : Callback(r) \/ Authenticate(r)
  \/ \E enabled \in BOOLEAN : ChangeAccount(enabled) \/ ChangeGrant(enabled)
  \/ \E gone \in SUBSET Sessions : Cleanup(gone)
  \/ DeleteAccount \/ Tick

Spec == Init /\ [][Next]_vars

----------------------------------------------------------------------------
(* Properties                                                              *)

User == [exists : BOOLEAN, enabled : BOOLEAN, version : Nat]
Grant == [enabled : BOOLEAN, version : Nat]
Row == [live : BOOLEAN, user : Nat, grant : Nat, seen : Nat, idle : Nat, expires : Nat]
Steps == {"none", "callback", "create", "audit", "previous", "undo",
          "found", "user", "grant", "drop", "touch", "accepted"}
Request == [pc : Steps, session : Sessions \cup {None}, row : Row, now : Nat, was : BOOLEAN,
            user : User, grant : Grant]

\* The variables have their types, and a session names a grant that existed
\* (grant_version > 0 of migration 005).
TypeOK ==
  /\ clock \in Nat
  /\ user \in User /\ grant \in Grant
  /\ rows \in [Sessions -> Row]
  /\ \A s \in Sessions : rows[s].live => s \in issued /\ rows[s].grant > 0
  /\ issued \subseteq Sessions /\ held \subseteq issued /\ stray \subseteq issued
  /\ req \in [Requests -> Request]
  /\ \A r \in Requests :
       req[r].pc \notin {"none", "callback", "create"} => req[r].session \in issued
  /\ used \in [Sessions -> Nat]

\* A request is accepted only if at one moment - that of its first read - the
\* session existed, had not expired, and the account and the grant were enabled
\* at the session's versions, though authenticate reads them at four different
\* moments and any of them may change in between.
AcceptedWasUsable ==
  \A r \in Requests : req[r].pc \in {"touch", "accepted"} => req[r].was

\* A session that cannot be used can never be used again: not by a late touch
\* after logout, cleanup or expiry, nor by restoring the account or the grant.
DeadStaysDead ==
  [][\A s \in issued : Usable(s)' => Usable(s)]_vars

\* The idle expiry is at most IdleTtl after the last accepted request (or the
\* sign-in) and never after the absolute one, whatever the order in which
\* concurrent requests touch the session.
IdleBound ==
  \A s \in Sessions : rows[s].live =>
    rows[s].idle <= used[s] + IdleTtl /\ rows[s].idle <= rows[s].expires

\* A sign-in that fails leaves no session behind, even if the insert committed and
\* its answer was lost - unless the compensating delete fails as well.
NoStraySession ==
  \A s \in Sessions : rows[s].live =>
    \/ s \in held \cup stray
    \/ \E r \in Requests : req[r].session = s /\ req[r].pc \in {"audit", "previous", "undo"}
============================================================================
