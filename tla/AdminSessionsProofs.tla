------------------------ MODULE AdminSessionsProofs ------------------------
(***************************************************************************)
(* Proofs about AdminSessions for every number of sessions and requests,   *)
(* and every lifetime.                                                     *)
(***************************************************************************)
EXTENDS AdminSessions, TLAPS

(***************************************************************************)
(* The inductive invariant.  The properties follow from the fact that      *)
(* versions only grow: whatever a row or a copy of it names is not ahead   *)
(* of the account and the grant (Behind), so what does not match now never *)
(* will, and a request whose session could not be used when it was read is *)
(* bound to find out (CheckHolds).                                         *)
(***************************************************************************)

Behind(v, w) == user.exists => v <= user.version /\ w <= grant.version

AccountHolds ==
  /\ grant.enabled => grant.version > 0
  /\ ~user.exists => ~user.enabled /\ ~grant.enabled /\ \A s \in Sessions : ~rows[s].live

RowsHold == \A s \in Sessions : rows[s].live => Behind(rows[s].user, rows[s].grant)

\* What the callback of a sign-in has read.
CallbackHolds(r) ==
  /\ req[r].pc = "callback" => Behind(req[r].user.version, 0)
  /\ req[r].pc = "create" =>
       req[r].grant.version > 0 /\ Behind(req[r].user.version, req[r].grant.version)

\* What a request has read, and what it is bound to find.
CheckHolds(r) ==
  /\ req[r].pc \in {"user", "grant", "touch"} => req[r].row.live
  /\ req[r].pc \in {"found", "user", "grant", "touch"} /\ req[r].row.live =>
       /\ Behind(req[r].row.user, req[r].row.grant)
       /\ rows[req[r].session].live => rows[req[r].session].expires = req[r].row.expires
  /\ req[r].pc = "found" /\ req[r].row.live /\ ~req[r].was =>
       Expired(req[r].row, clock) \/ ~Matches(req[r].row, user, grant)
  /\ req[r].pc = "user" /\ ~req[r].was => ~Matches(req[r].row, user, grant)
  /\ req[r].pc = "grant" /\ ~req[r].was => ~Matches(req[r].row, req[r].user, grant)
  /\ req[r].pc = "touch" => req[r].now <= used[req[r].session]

ReqsHold == \A r \in Requests : CallbackHolds(r) /\ CheckHolds(r)

IInv == TypeOK /\ AccountHolds /\ RowsHold /\ ReqsHold /\ AcceptedWasUsable /\ IdleBound
        /\ NoStraySession

\* What no step undoes: time, versions, expiries and deletions.
AccountOnward ==
  \/ user' = user /\ grant' = grant
  \/ user.exists /\ user'.exists /\ user'.version > user.version /\ grant' = grant
  \/ user.exists /\ user' = user /\ grant'.version > grant.version
  \/ ~user'.exists /\ ~user'.enabled /\ ~grant'.enabled

SessionOnward(s) ==
  /\ used[s] <= used'[s]
  /\ rows'[s].live =>
       /\ rows[s].live
       /\ rows'[s].user = rows[s].user /\ rows'[s].grant = rows[s].grant
       /\ rows'[s].expires = rows[s].expires
       /\ rows[s].idle <= clock => rows'[s].idle <= clock'

Onward ==
  /\ clock <= clock' /\ issued \subseteq issued'
  /\ AccountOnward
  /\ \A s \in issued : SessionOnward(s)

----------------------------------------------------------------------------
(* Facts every step uses.                                                  *)

\* The request that is none has its type.
LEMMA NoReqType == NoReq \in Request /\ NoRow \in Row /\ NoUser \in User /\ NoGrant \in Grant
BY DEF NoReq, NoRow, NoUser, NoGrant, Request, Row, User, Grant, Steps

\* Initially there is no session and no request.
LEMMA InitIInv == Init => IInv
<1> SUFFICES ASSUME Init PROVE IInv
  OBVIOUS
<1>1. TypeOK
  BY NoReqType DEF Init, TypeOK, User, NoRow, NoReq
<1>2. AccountHolds /\ RowsHold /\ IdleBound /\ NoStraySession
  BY DEF Init, AccountHolds, RowsHold, IdleBound, NoStraySession, NoRow, NoGrant
<1>3. ReqsHold /\ AcceptedWasUsable
  BY DEF Init, ReqsHold, CallbackHolds, CheckHolds, AcceptedWasUsable, NoReq
<1> QED BY <1>1, <1>2, <1>3 DEF IInv

\* A session that does not match the account and the grant never will.
LEMMA MismatchStays ==
  ASSUME TypeOK, TypeOK', AccountOnward, NEW row \in Row, Behind(row.user, row.grant),
         ~Matches(row, user, grant)
  PROVE  ~Matches(row, user', grant')
BY DEF TypeOK, AccountOnward, Row, Behind, Matches, User, Grant

\* Nor will it with the copy of the account a request made.
LEMMA MismatchWithCopyStays ==
  ASSUME TypeOK, TypeOK', AccountHolds, AccountOnward, NEW row \in Row, NEW u \in User,
         Behind(row.user, row.grant), ~Matches(row, u, grant)
  PROVE  ~Matches(row, u, grant')
BY DEF TypeOK, AccountHolds, AccountOnward, Row, Behind, Matches, User, Grant

\* Nothing that is behind overtakes.
LEMMA BehindStays ==
  ASSUME TypeOK, TypeOK', AccountOnward, NEW v \in Nat, NEW w \in Nat, Behind(v, w)
  PROVE  Behind(v, w)'
BY DEF TypeOK, AccountOnward, Behind, User, Grant

\* What a request relies on survives every step that is not its own.
LEMMA RequestStays ==
  ASSUME IInv, TypeOK', Onward, NEW r \in Requests, req'[r] = req[r]
  PROVE  CallbackHolds(r)' /\ CheckHolds(r)'
<1>1. /\ TypeOK /\ CallbackHolds(r) /\ CheckHolds(r) /\ AccountOnward /\ AccountHolds
      /\ req[r] \in Request /\ clock \in Nat /\ clock' \in Nat /\ clock <= clock'
  BY DEF IInv, ReqsHold, TypeOK, Onward
<1>2. req[r].row \in Row /\ req[r].user \in User /\ req[r].grant \in Grant /\ req[r].now \in Nat
  BY <1>1 DEF Request
<1>3. CallbackHolds(r)'
  BY <1>1, <1>2, BehindStays DEF CallbackHolds, User, Grant
<1>4. /\ Behind(req[r].row.user, req[r].row.grant) => Behind(req[r].row.user, req[r].row.grant)'
      /\ Behind(req[r].row.user, req[r].row.grant) /\ ~Matches(req[r].row, user, grant) =>
           ~Matches(req[r].row, user', grant')
      /\ Behind(req[r].row.user, req[r].row.grant) /\ ~Matches(req[r].row, req[r].user, grant) =>
           ~Matches(req[r].row, req[r].user, grant')
  BY <1>1, <1>2, BehindStays, MismatchStays, MismatchWithCopyStays DEF Row
<1>5. Expired(req[r].row, clock) => Expired(req[r].row, clock')
  BY <1>1, <1>2 DEF Expired, Row
<1>6. req[r].pc \in {"found", "user", "grant", "touch"} =>
        req[r].session \in issued /\ SessionOnward(req[r].session)
  BY <1>1 DEF TypeOK, Onward
<1>7. req[r].pc = "touch" => req[r].now <= used'[req[r].session]
  <2> SUFFICES ASSUME req[r].pc = "touch" PROVE req[r].now <= used'[req[r].session]
    OBVIOUS
  <2>1. /\ req[r].now <= used[req[r].session] /\ used[req[r].session] <= used'[req[r].session]
        /\ used[req[r].session] \in Nat /\ used'[req[r].session] \in Nat
    BY <1>1, <1>6 DEF CheckHolds, SessionOnward, TypeOK
  <2> QED BY <1>2, <2>1
<1>8. CheckHolds(r)'
  BY <1>1, <1>4, <1>5, <1>6, <1>7 DEF CheckHolds, SessionOnward
<1> QED BY <1>3, <1>8

\* A step of request r needs a proof about r alone.
LEMMA OthersStay ==
  ASSUME IInv, TypeOK', Onward, NEW r \in Requests,
         \A x \in Requests \ {r} : req'[x] = req[x], CallbackHolds(r)', CheckHolds(r)'
  PROVE  ReqsHold'
BY RequestStays DEF ReqsHold

\* Rows of sessions that existed stay behind.
LEMMA RowsStay ==
  ASSUME IInv, TypeOK', Onward, issued' = issued
  PROVE  RowsHold'
<1> SUFFICES ASSUME NEW s \in Sessions, rows'[s].live
             PROVE  Behind(rows[s].user, rows[s].grant)'
  BY DEF RowsHold
<1>1. s \in issued /\ SessionOnward(s) /\ rows[s].live /\ rows[s] \in Row
  BY DEF IInv, TypeOK, Onward, SessionOnward
<1>2. Behind(rows[s].user, rows[s].grant) /\ rows[s].user \in Nat /\ rows[s].grant \in Nat
  BY <1>1 DEF IInv, RowsHold, Row
<1>3. AccountOnward /\ TypeOK
  BY DEF Onward, IInv
<1> QED BY <1>1, <1>2, <1>3, BehindStays DEF SessionOnward, Behind

----------------------------------------------------------------------------
(* Steps that change one request and nothing else                          *)

QuietStep(r) ==
  /\ UNCHANGED <<clock, db>>
  /\ \A x \in Requests \ {r} : req'[x] = req[x]
  /\ req[r].pc \in {"audit", "previous", "undo"} =>
       req'[r].pc \in {"audit", "previous", "undo"} /\ req'[r].session = req[r].session

\* Such a step needs a proof about its request alone.
LEMMA QuietIInv ==
  ASSUME IInv, TypeOK', NEW r \in Requests, QuietStep(r),
         CallbackHolds(r)', CheckHolds(r)', req'[r].pc \in {"touch", "accepted"} => req'[r].was
  PROVE  IInv' /\ Onward
<1>1. /\ clock' = clock /\ user' = user /\ grant' = grant /\ rows' = rows /\ issued' = issued
      /\ held' = held /\ used' = used /\ stray' = stray
  BY DEF QuietStep, db
<1>2. Onward
  BY <1>1 DEF IInv, TypeOK, Onward, AccountOnward, SessionOnward
<1>3. ReqsHold'
  BY <1>2, OthersStay DEF QuietStep
<1>4. RowsHold'
  BY <1>1, <1>2, RowsStay
<1>5. AccountHolds' /\ IdleBound'
  BY <1>1 DEF IInv, AccountHolds, IdleBound
<1>6. AcceptedWasUsable'
  BY DEF IInv, AcceptedWasUsable, QuietStep
<1>7. NoStraySession'
  BY <1>1 DEF IInv, NoStraySession, QuietStep
<1> QED BY <1>2, <1>3, <1>4, <1>5, <1>6, <1>7 DEF IInv

\* A request that only ends.
LEMMA EndIInv ==
  ASSUME IInv, NEW r \in Requests, req' = [req EXCEPT ![r] = NoReq], UNCHANGED <<clock, db>>,
         req[r].pc \notin {"audit", "previous", "undo"}
  PROVE  IInv' /\ Onward
<1>1. TypeOK'
  BY NoReqType DEF IInv, TypeOK, db, NoReq
<1>2. req'[r] = NoReq /\ QuietStep(r)
  BY DEF IInv, TypeOK, QuietStep
<1>3. CallbackHolds(r)' /\ CheckHolds(r)' /\ req'[r].pc = "none"
  BY <1>2 DEF CallbackHolds, CheckHolds, NoReq
<1> QED BY <1>1, <1>2, <1>3, QuietIInv

\* The callback reads the account.
LEMMA CallbackUserIInv == ASSUME IInv, NEW r \in Requests, CallbackUser(r) PROVE IInv' /\ Onward
<1>1. req'[r] = [NoReq EXCEPT !.pc = "callback", !.user = user] /\ QuietStep(r)
  BY DEF IInv, TypeOK, QuietStep, CallbackUser
<1>2. /\ req'[r].pc = "callback" /\ req'[r].user = user /\ req'[r] \in Request
      /\ user' = user /\ grant' = grant /\ user \in User /\ grant \in Grant
  BY <1>1, NoReqType DEF IInv, TypeOK, NoReq, Request, Steps, CallbackUser, db
<1>3. TypeOK'
  BY <1>2 DEF IInv, TypeOK, CallbackUser, db
<1>4. CallbackHolds(r)' /\ CheckHolds(r)'
  BY <1>2 DEF CallbackHolds, CheckHolds, Behind, User, Grant
<1> QED BY <1>1, <1>2, <1>3, <1>4, QuietIInv

\* The callback reads the grant and decides.
LEMMA CallbackGrantIInv == ASSUME IInv, NEW r \in Requests, CallbackGrant(r) PROVE IInv' /\ Onward
<1>1. CASE ~Admitted(req[r].user, grant)
  BY <1>1, EndIInv DEF CallbackGrant
<1>2. CASE Admitted(req[r].user, grant)
  <2>1. req'[r] = [req[r] EXCEPT !.pc = "create", !.grant = grant, !.now = clock] /\ QuietStep(r)
    BY <1>2 DEF IInv, TypeOK, QuietStep, CallbackGrant
  <2>2. /\ req'[r].pc = "create" /\ req'[r].user = req[r].user /\ req'[r].grant = grant
        /\ req'[r] \in Request /\ user' = user /\ grant' = grant
        /\ user \in User /\ grant \in Grant
    BY <2>1 DEF IInv, TypeOK, Request, Steps, CallbackGrant, db
  <2>3. TypeOK'
    BY <2>2 DEF IInv, TypeOK, CallbackGrant, db
  <2>4. CallbackHolds(r)' /\ CheckHolds(r)'
    BY <1>2, <2>2 DEF IInv, ReqsHold, CallbackHolds, CheckHolds, Behind, User, Grant, Admitted,
                      AccountHolds, CallbackGrant
  <2> QED BY <2>1, <2>2, <2>3, <2>4, QuietIInv
<1> QED BY <1>1, <1>2

\* The audit of a sign-in.
LEMMA CallbackAuditIInv ==
  ASSUME IInv, NEW r \in Requests, NEW ok \in BOOLEAN, CallbackAudit(r, ok) PROVE IInv' /\ Onward
<1>1. /\ req'[r].pc \in {"previous", "undo"} /\ req'[r].session = req[r].session
      /\ req'[r] \in Request /\ QuietStep(r)
  BY DEF IInv, TypeOK, QuietStep, CallbackAudit, Goto, Request, Steps
<1>2. TypeOK'
  BY <1>1 DEF IInv, TypeOK, CallbackAudit, Goto, db
<1>3. CallbackHolds(r)' /\ CheckHolds(r)'
  BY <1>1 DEF CallbackHolds, CheckHolds
<1> QED BY <1>1, <1>2, <1>3, QuietIInv

\* A request reads its session.
LEMMA FindSessionIInv ==
  ASSUME IInv, NEW r \in Requests, NEW s \in Sessions, FindSession(r, s) PROVE IInv' /\ Onward
<1> DEFINE was == Usable(s)
<1>1. /\ req'[r] = [NoReq EXCEPT !.pc = "found", !.session = s, !.row = rows[s], !.was = was]
      /\ QuietStep(r) /\ s \in issued /\ rows[s] \in Row
  BY DEF IInv, TypeOK, QuietStep, FindSession
<1>2. was \in BOOLEAN
  BY DEF Usable
<1>3. ~was => ~rows[s].live \/ Expired(rows[s], clock) \/ ~Matches(rows[s], user, grant)
  BY DEF Usable
<1> HIDE DEF was
<1>4. /\ req'[r].pc = "found" /\ req'[r].session = s /\ req'[r].row = rows[s]
      /\ req'[r].was = was /\ req'[r] \in Request
  BY <1>1, <1>2, NoReqType DEF NoReq, Request, Steps
<1>5. TypeOK'
  BY <1>1, <1>4 DEF IInv, TypeOK, FindSession, db
<1>6. user' = user /\ grant' = grant /\ rows' = rows /\ clock' = clock
  BY DEF FindSession, db
<1>7. rows[s].live => Behind(rows[s].user, rows[s].grant)
  BY DEF IInv, RowsHold
<1>8. CallbackHolds(r)' /\ CheckHolds(r)'
  BY <1>3, <1>4, <1>6, <1>7 DEF CallbackHolds, CheckHolds, Behind, Expired
<1> QED BY <1>1, <1>4, <1>5, <1>8, QuietIInv

\* A request looks at the clock.
LEMMA CheckExpiryIInv == ASSUME IInv, NEW r \in Requests, CheckExpiry(r) PROVE IInv' /\ Onward
<1>1. CASE ~req[r].row.live
  BY <1>1, EndIInv DEF CheckExpiry
<1>2. CASE req[r].row.live
  <2>1. /\ req'[r].pc = (IF Expired(req[r].row, clock) THEN "drop" ELSE "user")
        /\ req'[r].session = req[r].session /\ req'[r].row = req[r].row
        /\ req'[r].was = req[r].was /\ req'[r] \in Request /\ QuietStep(r)
    BY <1>2 DEF IInv, TypeOK, QuietStep, CheckExpiry, Request, Steps
  <2>2. TypeOK'
    BY <2>1 DEF IInv, TypeOK, CheckExpiry, db
  <2>3. user' = user /\ grant' = grant /\ rows' = rows
    BY DEF CheckExpiry, db
  <2>4. CallbackHolds(r)' /\ CheckHolds(r)'
    BY <1>2, <2>1, <2>3 DEF IInv, ReqsHold, CallbackHolds, CheckHolds, Behind, Matches, CheckExpiry
  <2> QED BY <2>1, <2>2, <2>4, QuietIInv
<1> QED BY <1>1, <1>2

\* A request reads the account.
LEMMA ReadUserIInv == ASSUME IInv, NEW r \in Requests, ReadUser(r) PROVE IInv' /\ Onward
<1>1. /\ req'[r].pc = "grant" /\ req'[r].user = user
      /\ req'[r].session = req[r].session /\ req'[r].row = req[r].row
      /\ req'[r].was = req[r].was /\ req'[r] \in Request /\ QuietStep(r)
  BY DEF IInv, TypeOK, QuietStep, ReadUser, Request, Steps
<1>2. TypeOK'
  BY <1>1 DEF IInv, TypeOK, ReadUser, db
<1>3. user' = user /\ grant' = grant /\ rows' = rows
  BY DEF ReadUser, db
<1>4. CallbackHolds(r)' /\ CheckHolds(r)'
  BY <1>1, <1>3 DEF IInv, ReqsHold, CallbackHolds, CheckHolds, Behind, Matches, ReadUser
<1> QED BY <1>1, <1>2, <1>4, QuietIInv

----------------------------------------------------------------------------
(* Steps that delete sessions                                              *)

DeleteStep(S) ==
  /\ rows' = [s \in Sessions |-> IF s \in S THEN NoRow ELSE rows[s]]
  /\ UNCHANGED <<clock, user, grant, issued, used>>
  /\ held \subseteq held' /\ stray \subseteq stray'

\* Request r ends, and its sign-in does not leave a session nobody knows of.
EndStep(r, S) ==
  /\ req' = [req EXCEPT ![r] = NoReq]
  /\ req[r].pc \in {"audit", "previous", "undo"} => req[r].session \in S \cup held' \cup stray'

\* Deleting sessions, at the end of a request or in the cleanup.
LEMMA DeleteIInv ==
  ASSUME IInv, NEW S \in SUBSET Sessions, DeleteStep(S), held' \subseteq issued,
         stray' \subseteq issued, req' = req \/ \E r \in Requests : EndStep(r, S)
  PROVE  IInv' /\ Onward
<1>1. /\ clock' = clock /\ user' = user /\ grant' = grant /\ issued' = issued /\ used' = used
      /\ \A s \in Sessions : rows'[s] = IF s \in S THEN NoRow ELSE rows[s]
      /\ \A s \in Sessions : rows'[s].live => rows[s].live /\ rows'[s] = rows[s] /\ s \notin S
  BY DEF DeleteStep, NoRow
<1>2. /\ req' \in [Requests -> Request]
      /\ \A x \in Requests : req'[x] = req[x] \/ req'[x] = NoReq
  BY NoReqType DEF EndStep, IInv, TypeOK
<1>3. TypeOK'
  <2>1. rows' \in [Sessions -> Row]
    BY NoReqType DEF DeleteStep, IInv, TypeOK
  <2> QED BY <1>1, <1>2, <2>1 DEF IInv, TypeOK, NoReq
<1>4. Onward
  BY <1>1 DEF IInv, TypeOK, Onward, AccountOnward, SessionOnward
<1>5. ReqsHold'
  <2> SUFFICES ASSUME NEW x \in Requests PROVE CallbackHolds(x)' /\ CheckHolds(x)'
    BY DEF ReqsHold
  <2>1. CASE req'[x] = req[x]
    BY <1>3, <1>4, <2>1, RequestStays
  <2>2. CASE req'[x] = NoReq
    BY <2>2 DEF CallbackHolds, CheckHolds, NoReq
  <2> QED BY <1>2, <2>1, <2>2
<1>6. RowsHold'
  BY <1>1, <1>3, <1>4, RowsStay
<1>7. AccountHolds' /\ IdleBound'
  BY <1>1 DEF IInv, AccountHolds, IdleBound
<1>8. AcceptedWasUsable'
  BY <1>2 DEF IInv, AcceptedWasUsable, NoReq
<1>9. NoStraySession'
  <2> SUFFICES ASSUME NEW s \in Sessions, rows'[s].live, s \notin held' \cup stray'
               PROVE  \E r \in Requests :
                        req'[r].session = s /\ req'[r].pc \in {"audit", "previous", "undo"}
    BY DEF NoStraySession
  <2>1. s \notin S /\ s \notin held \cup stray /\ rows[s].live
    BY <1>1 DEF DeleteStep
  <2>2. PICK r \in Requests : req[r].session = s /\ req[r].pc \in {"audit", "previous", "undo"}
    BY <2>1 DEF IInv, NoStraySession
  <2>3. req'[r] = req[r]
    BY <2>1, <2>2 DEF EndStep, IInv, TypeOK
  <2> QED BY <2>2, <2>3
<1> QED BY <1>4, <1>3, <1>5, <1>6, <1>7, <1>8, <1>9 DEF IInv

\* The end of a successful sign-in.
LEMMA CallbackPreviousIInv ==
  ASSUME IInv, NEW r \in Requests, NEW gone \in SUBSET Sessions, CallbackPrevious(r, gone)
  PROVE  IInv' /\ Onward
<1>1. DeleteStep(gone) /\ EndStep(r, gone)
  BY DEF CallbackPrevious, DeleteStep, EndStep
<1>2. held' \subseteq issued /\ stray' \subseteq issued
  BY DEF IInv, TypeOK, CallbackPrevious
<1> QED BY <1>1, <1>2, DeleteIInv

\* The compensation of a failed one.
LEMMA CallbackUndoIInv ==
  ASSUME IInv, NEW r \in Requests, NEW ok \in BOOLEAN, CallbackUndo(r, ok)
  PROVE  IInv' /\ Onward
<1> DEFINE S == IF ok THEN {req[r].session} ELSE {}
<1>1. req[r].session \in issued /\ issued \subseteq Sessions
  BY DEF IInv, TypeOK, CallbackUndo
<1>2. rows' = [s \in Sessions |-> IF s \in S THEN NoRow ELSE rows[s]]
  BY <1>1 DEF IInv, TypeOK, CallbackUndo
<1>3. DeleteStep(S) /\ EndStep(r, S) /\ S \in SUBSET Sessions
  BY <1>1, <1>2 DEF CallbackUndo, DeleteStep, EndStep
<1>4. held' \subseteq issued /\ stray' \subseteq issued
  BY <1>1 DEF IInv, TypeOK, CallbackUndo
<1> HIDE DEF S
<1> QED BY <1>3, <1>4, DeleteIInv

\* A request deletes a session it found dead.
LEMMA DropIInv == ASSUME IInv, NEW r \in Requests, Drop(r) PROVE IInv' /\ Onward
<1> DEFINE S == {req[r].session}
<1>1. req[r].session \in issued /\ issued \subseteq Sessions
  BY DEF IInv, TypeOK, Drop
<1>2. rows' = [s \in Sessions |-> IF s \in S THEN NoRow ELSE rows[s]]
  BY <1>1 DEF IInv, TypeOK, Drop
<1>3. DeleteStep(S) /\ EndStep(r, S) /\ S \in SUBSET Sessions
  BY <1>1, <1>2 DEF Drop, DeleteStep, EndStep
<1>4. held' \subseteq issued /\ stray' \subseteq issued
  BY DEF IInv, TypeOK, Drop
<1> HIDE DEF S
<1> QED BY <1>3, <1>4, DeleteIInv

\* An accepted request ends, perhaps with logout.
LEMMA ServeIInv ==
  ASSUME IInv, NEW r \in Requests, NEW logout \in BOOLEAN, Serve(r, logout) PROVE IInv' /\ Onward
<1> DEFINE S == IF logout THEN {req[r].session} ELSE {}
<1>1. req[r].session \in issued /\ issued \subseteq Sessions
  BY DEF IInv, TypeOK, Serve
<1>2. rows' = [s \in Sessions |-> IF s \in S THEN NoRow ELSE rows[s]]
  BY <1>1 DEF IInv, TypeOK, Serve
<1>3. DeleteStep(S) /\ EndStep(r, S) /\ S \in SUBSET Sessions
  BY <1>1, <1>2 DEF Serve, DeleteStep, EndStep
<1>4. held' \subseteq issued /\ stray' \subseteq issued
  BY DEF IInv, TypeOK, Serve
<1> HIDE DEF S
<1> QED BY <1>3, <1>4, DeleteIInv

\* The cleanup.
LEMMA CleanupIInv == ASSUME IInv, NEW gone \in SUBSET Sessions, Cleanup(gone) PROVE IInv' /\ Onward
<1>1. DeleteStep(gone) /\ req' = req
  BY DEF Cleanup, DeleteStep
<1>2. held' \subseteq issued /\ stray' \subseteq issued
  BY DEF IInv, TypeOK, Cleanup
<1> QED BY <1>1, <1>2, DeleteIInv

----------------------------------------------------------------------------
(* Steps that write sessions, the account or the grant                     *)

\* A request reads the grant and decides: was it usable when it was read, or the
\* mismatch of then is still there.
LEMMA ReadGrantIInv == ASSUME IInv, NEW r \in Requests, ReadGrant(r) PROVE IInv' /\ Onward
<1> DEFINE ok == Passes(req[r], grant)
           s == req[r].session
<1>1. /\ s \in issued /\ s \in Sessions /\ req[r] \in Request /\ req[r].now \in Nat
      /\ used[s] \in Nat /\ CheckHolds(r) /\ req[r].pc = "grant" /\ TypeOK
  BY DEF IInv, TypeOK, ReqsHold, ReadGrant, Request
<1>2. ok => req[r].was
  BY <1>1 DEF CheckHolds, Passes
<1>3. /\ req'[r] \in Request /\ req'[r].session = s /\ req'[r].was = req[r].was
      /\ req'[r].pc \in {"drop", "touch", "accepted"}
      /\ req'[r].pc \in {"touch", "accepted"} => ok
      /\ req'[r].pc = "touch" => req'[r].row = req[r].row /\ req'[r].now = req[r].now
      /\ \A x \in Requests \ {r} : req'[x] = req[x]
      /\ req' \in [Requests -> Request]
  BY <1>1, NoReqType DEF ReadGrant, TypeOK, Accept, NoReq, Request, Steps
<1>4. /\ clock' = clock /\ user' = user /\ grant' = grant /\ rows' = rows /\ issued' = issued
      /\ held' = held /\ stray' = stray
  BY DEF ReadGrant
<1>5. /\ used' \in [Sessions -> Nat] /\ \A x \in Sessions : used[x] <= used'[x]
      /\ ok => req[r].now <= used'[s]
  BY <1>1 DEF ReadGrant, TypeOK, Larger
<1> HIDE DEF ok
<1>6. TypeOK'
  BY <1>1, <1>3, <1>4, <1>5 DEF TypeOK
<1>7. Onward
  BY <1>1, <1>4, <1>5 DEF TypeOK, Onward, AccountOnward, SessionOnward
<1>8. CallbackHolds(r)' /\ CheckHolds(r)'
  BY <1>1, <1>3, <1>4, <1>5 DEF CallbackHolds, CheckHolds, Behind
<1>9. ReqsHold' /\ RowsHold'
  BY <1>3, <1>4, <1>6, <1>7, <1>8, OthersStay, RowsStay
<1>10. AccountHolds' /\ AcceptedWasUsable'
  BY <1>2, <1>3, <1>4 DEF IInv, AccountHolds, AcceptedWasUsable
<1>11. IdleBound'
  <2> SUFFICES ASSUME NEW x \in Sessions, rows[x].live
               PROVE  rows[x].idle <= used'[x] + IdleTtl /\ rows[x].idle <= rows[x].expires
    BY <1>4 DEF IdleBound
  <2>1. /\ rows[x].idle <= used[x] + IdleTtl /\ rows[x].idle <= rows[x].expires
        /\ rows[x].idle \in Nat /\ used[x] \in Nat /\ used'[x] \in Nat /\ IdleTtl \in Nat
    BY <1>1, <1>5, AdminAssumption DEF IInv, IdleBound, TypeOK, Row
  <2> QED BY <1>5, <2>1
<1>12. NoStraySession'
  BY <1>1, <1>3, <1>4 DEF IInv, NoStraySession
<1> QED BY <1>7, <1>6, <1>9, <1>10, <1>11, <1>12 DEF IInv

\* A touch writes a row that has not expired, within both lifetimes.
LEMMA TouchIInv == ASSUME IInv, NEW r \in Requests, Touch(r) PROVE IInv' /\ Onward
<1> DEFINE s == req[r].session
<1>1. /\ s \in issued /\ s \in Sessions /\ req[r] \in Request /\ req[r].now \in Nat
      /\ CheckHolds(r) /\ req[r].pc = "touch" /\ TypeOK /\ req[r].was
      /\ rows[s] \in Row /\ req[r].row \in Row /\ clock \in Nat /\ used[s] \in Nat
  BY DEF IInv, TypeOK, ReqsHold, Touch, Request, AcceptedWasUsable
<1>2. /\ req'[r] \in Request /\ req'[r].session = s /\ req'[r].was = req[r].was
      /\ req'[r].pc = "accepted" /\ \A x \in Requests \ {r} : req'[x] = req[x]
      /\ req' \in [Requests -> Request]
  BY <1>1, NoReqType DEF Touch, TypeOK, Accept, NoReq, Request, Steps
<1>3. /\ clock' = clock /\ user' = user /\ grant' = grant /\ issued' = issued
      /\ held' = held /\ stray' = stray /\ used' = used
  BY DEF Touch
<1>4. /\ Extended(req[r]) \in Nat /\ Extended(req[r]) <= used[s] + IdleTtl
      /\ rows[s].live => Extended(req[r]) <= rows[s].expires
  BY <1>1, AdminAssumption DEF Extended, Smaller, CheckHolds, Row
<1>5. /\ rows' \in [Sessions -> Row]
      /\ \A x \in Sessions \ {s} : rows'[x] = rows[x]
      /\ rows'[s].live = rows[s].live /\ rows'[s].user = rows[s].user
      /\ rows'[s].grant = rows[s].grant /\ rows'[s].expires = rows[s].expires
      /\ \/ rows'[s].idle = rows[s].idle
         \/ rows'[s].idle = Extended(req[r]) /\ MayTouch(rows[s])
  <2>1. CASE MayTouch(rows[s])
    <3>1. rows' = [rows EXCEPT ![s].seen = clock, ![s].idle = Extended(req[r])]
      BY <2>1 DEF Touch
    <3> QED BY <1>1, <1>4, <2>1, <3>1 DEF TypeOK, Row
  <2>2. CASE ~MayTouch(rows[s])
    BY <1>1, <2>2 DEF Touch, TypeOK
  <2> QED BY <2>1, <2>2
<1>6. TypeOK'
  BY <1>1, <1>2, <1>3, <1>5 DEF TypeOK
<1>7. Onward
  <2>1. SessionOnward(s)
    BY <1>1, <1>3, <1>5 DEF SessionOnward, MayTouch, Expired, Row
  <2>2. \A x \in issued \ {s} : SessionOnward(x)
    BY <1>1, <1>3, <1>5 DEF SessionOnward, TypeOK
  <2> QED BY <1>1, <1>3, <2>1, <2>2 DEF Onward, AccountOnward, TypeOK
<1>8. CallbackHolds(r)' /\ CheckHolds(r)'
  BY <1>2 DEF CallbackHolds, CheckHolds
<1>9. ReqsHold' /\ RowsHold'
  BY <1>2, <1>3, <1>6, <1>7, <1>8, OthersStay, RowsStay
<1>10. AccountHolds' /\ AcceptedWasUsable'
  BY <1>1, <1>2, <1>3, <1>5 DEF IInv, AccountHolds, AcceptedWasUsable
<1>11. IdleBound'
  BY <1>1, <1>3, <1>4, <1>5 DEF IInv, IdleBound
<1>12. NoStraySession'
  BY <1>1, <1>2, <1>3, <1>5 DEF IInv, NoStraySession
<1> QED BY <1>7, <1>6, <1>9, <1>10, <1>11, <1>12 DEF IInv

\* A new session names versions its sign-in has read.
LEMMA CallbackCreateIInv ==
  ASSUME IInv, NEW r \in Requests, NEW s \in Sessions, NEW ok \in BOOLEAN, CallbackCreate(r, s, ok)
  PROVE  IInv' /\ Onward
<1>1. /\ s \notin issued /\ req[r] \in Request /\ req[r].now \in Nat /\ req[r].pc = "create"
      /\ CallbackHolds(r) /\ TypeOK /\ user.exists /\ ~rows[s].live
  BY DEF IInv, TypeOK, ReqsHold, CallbackCreate, Request
<1>2. /\ req'[r] \in Request /\ req'[r].session = s /\ req'[r].pc \in {"audit", "undo"}
      /\ \A x \in Requests \ {r} : req'[x] = req[x]
      /\ req' \in [Requests -> Request]
  BY <1>1 DEF CallbackCreate, AfterCreate, TypeOK, Request, Steps
<1>3. /\ clock' = clock /\ user' = user /\ grant' = grant /\ issued' = issued \cup {s}
      /\ held' = held /\ stray' = stray
  BY DEF CallbackCreate
<1>4. /\ rows' \in [Sessions -> Row] /\ \A x \in Sessions \ {s} : rows'[x] = rows[x]
      /\ rows'[s].user = req[r].user.version /\ rows'[s].grant = req[r].grant.version
      /\ rows'[s].idle = req[r].now + IdleTtl /\ rows'[s].expires = req[r].now + SessionTtl
  <2>1. NewRow(req[r]) \in Row
    BY <1>1, AdminAssumption DEF NewRow, Row, Request, User, Grant
  <2> QED BY <1>1, <2>1 DEF CallbackCreate, TypeOK, NewRow
<1>5. /\ used' \in [Sessions -> Nat] /\ used'[s] = req[r].now
      /\ \A x \in Sessions \ {s} : used'[x] = used[x]
  BY <1>1 DEF CallbackCreate, TypeOK
<1>6. TypeOK'
  BY <1>1, <1>2, <1>3, <1>4, <1>5 DEF TypeOK, CallbackHolds
<1>7. Onward
  BY <1>1, <1>3, <1>4, <1>5 DEF Onward, AccountOnward, SessionOnward, TypeOK
<1>8. CallbackHolds(r)' /\ CheckHolds(r)'
  BY <1>2 DEF CallbackHolds, CheckHolds
<1>9. ReqsHold'
  BY <1>2, <1>6, <1>7, <1>8, OthersStay
<1>10. RowsHold'
  BY <1>1, <1>3, <1>4 DEF IInv, RowsHold, CallbackHolds, Behind
<1>11. AccountHolds' /\ AcceptedWasUsable'
  BY <1>1, <1>2, <1>3 DEF IInv, AccountHolds, AcceptedWasUsable
<1>12. IdleBound'
  BY <1>1, <1>4, <1>5, AdminAssumption DEF IInv, IdleBound
<1>13. NoStraySession'
  BY <1>1, <1>2, <1>3, <1>4 DEF IInv, NoStraySession
<1> QED BY <1>7, <1>6, <1>9, <1>10, <1>11, <1>12, <1>13 DEF IInv

\* A step that changes the account, the grant or the clock only.
LEMMA WorldIInv ==
  ASSUME IInv, TypeOK', Onward, AccountHolds', UNCHANGED <<req, issued, held, used, stray>>,
         rows' = rows \/ rows' = [s \in Sessions |-> NoRow]
  PROVE  IInv' /\ Onward
<1>1. ReqsHold' /\ RowsHold'
  BY RequestStays, RowsStay DEF ReqsHold
<1>2. AcceptedWasUsable'
  BY DEF IInv, AcceptedWasUsable
<1>3. \A s \in Sessions : rows'[s].live => rows'[s] = rows[s]
  BY DEF NoRow
<1>4. IdleBound' /\ NoStraySession'
  BY <1>3 DEF IInv, IdleBound, NoStraySession
<1> QED BY <1>1, <1>2, <1>4 DEF IInv

\* The account changes.
LEMMA ChangeAccountIInv ==
  ASSUME IInv, NEW enabled \in BOOLEAN, ChangeAccount(enabled) PROVE IInv' /\ Onward
<1>1. user \in User /\ user.exists /\ user' \in User /\ user'.exists
      /\ user'.version = user.version + 1
  BY DEF IInv, TypeOK, ChangeAccount, User
<1>2. TypeOK'
  BY <1>1 DEF IInv, TypeOK, ChangeAccount
<1>3. Onward
  BY <1>1 DEF IInv, TypeOK, ChangeAccount, Onward, AccountOnward, SessionOnward, User
<1>4. AccountHolds'
  BY <1>1 DEF IInv, AccountHolds, ChangeAccount
<1> QED BY <1>2, <1>3, <1>4, WorldIInv DEF ChangeAccount

\* The grant changes.
LEMMA ChangeGrantIInv ==
  ASSUME IInv, NEW enabled \in BOOLEAN, ChangeGrant(enabled) PROVE IInv' /\ Onward
<1>1. grant \in Grant /\ user.exists /\ grant' \in Grant /\ grant'.version = grant.version + 1
  BY DEF IInv, TypeOK, ChangeGrant, Grant
<1>2. TypeOK'
  BY <1>1 DEF IInv, TypeOK, ChangeGrant
<1>3. Onward
  BY <1>1 DEF IInv, TypeOK, ChangeGrant, Onward, AccountOnward, SessionOnward, Grant
<1>4. AccountHolds'
  BY <1>1 DEF IInv, AccountHolds, ChangeGrant, Grant
<1> QED BY <1>2, <1>3, <1>4, WorldIInv DEF ChangeGrant

\* The account is deleted with all it has.
LEMMA DeleteAccountIInv == ASSUME IInv, DeleteAccount PROVE IInv' /\ Onward
<1>1. \A s \in Sessions : ~rows'[s].live
  BY DEF DeleteAccount, NoRow
<1>2. TypeOK'
  BY <1>1, NoReqType DEF IInv, TypeOK, DeleteAccount
<1>3. Onward
  BY <1>1 DEF IInv, TypeOK, DeleteAccount, Onward, AccountOnward, SessionOnward, NoUser, NoGrant
<1>4. AccountHolds'
  BY <1>1 DEF AccountHolds, DeleteAccount, NoUser, NoGrant
<1> QED BY <1>2, <1>3, <1>4, WorldIInv DEF DeleteAccount

\* Time passes.
LEMMA TickIInv == ASSUME IInv, Tick PROVE IInv' /\ Onward
<1>1. TypeOK'
  BY DEF IInv, TypeOK, Tick, db
<1>2. Onward
  BY DEF IInv, TypeOK, Tick, db, Onward, AccountOnward, SessionOnward, Row
<1>3. AccountHolds'
  BY DEF IInv, AccountHolds, Tick, db
<1> QED BY <1>1, <1>2, <1>3, WorldIInv DEF Tick, db

----------------------------------------------------------------------------
(* The theorems                                                            *)

\* Every step keeps the inductive invariant, and none goes back.
LEMMA NextIInv == IInv /\ [Next]_vars => IInv' /\ Onward
<1> SUFFICES ASSUME IInv, [Next]_vars PROVE IInv' /\ Onward
  OBVIOUS
<1>1. ASSUME NEW r \in Requests, Callback(r) PROVE IInv' /\ Onward
  <2>1. CASE CallbackUser(r)
    BY <2>1, CallbackUserIInv
  <2>2. CASE CallbackGrant(r)
    BY <2>2, CallbackGrantIInv
  <2>3. CASE CallbackRefused(r)
    BY <2>3, EndIInv DEF CallbackRefused
  <2>4. ASSUME NEW s \in Sessions, NEW ok \in BOOLEAN, CallbackCreate(r, s, ok) PROVE IInv' /\ Onward
    BY <2>4, CallbackCreateIInv
  <2>5. ASSUME NEW ok \in BOOLEAN, CallbackAudit(r, ok) PROVE IInv' /\ Onward
    BY <2>5, CallbackAuditIInv
  <2>6. ASSUME NEW ok \in BOOLEAN, CallbackUndo(r, ok) PROVE IInv' /\ Onward
    BY <2>6, CallbackUndoIInv
  <2>7. ASSUME NEW gone \in SUBSET Sessions, CallbackPrevious(r, gone) PROVE IInv' /\ Onward
    BY <2>7, CallbackPreviousIInv
  <2> QED BY <1>1, <2>1, <2>2, <2>3, <2>4, <2>5, <2>6, <2>7 DEF Callback
<1>2. ASSUME NEW r \in Requests, Authenticate(r) PROVE IInv' /\ Onward
  <2>1. ASSUME NEW s \in Sessions, FindSession(r, s) PROVE IInv' /\ Onward
    BY <2>1, FindSessionIInv
  <2>2. CASE CheckExpiry(r)
    BY <2>2, CheckExpiryIInv
  <2>3. CASE ReadUser(r)
    BY <2>3, ReadUserIInv
  <2>4. CASE ReadGrant(r)
    BY <2>4, ReadGrantIInv
  <2>5. CASE Drop(r)
    BY <2>5, DropIInv
  <2>6. CASE Touch(r)
    BY <2>6, TouchIInv
  <2>7. CASE Fail(r)
    BY <2>7, EndIInv DEF Fail
  <2>8. ASSUME NEW logout \in BOOLEAN, Serve(r, logout) PROVE IInv' /\ Onward
    BY <2>8, ServeIInv
  <2> QED BY <1>2, <2>1, <2>2, <2>3, <2>4, <2>5, <2>6, <2>7, <2>8 DEF Authenticate
<1>3. ASSUME NEW enabled \in BOOLEAN, ChangeAccount(enabled) \/ ChangeGrant(enabled) PROVE IInv' /\ Onward
  BY <1>3, ChangeAccountIInv, ChangeGrantIInv
<1>4. ASSUME NEW gone \in SUBSET Sessions, Cleanup(gone) PROVE IInv' /\ Onward
  BY <1>4, CleanupIInv
<1>5. CASE DeleteAccount \/ Tick
  BY <1>5, DeleteAccountIInv, TickIInv
<1>6. CASE UNCHANGED vars
  <2>1. Onward
    BY <1>6 DEF vars, IInv, TypeOK, Onward, AccountOnward, SessionOnward
  <2> QED
    BY <1>6, <2>1 DEF vars, IInv, TypeOK, AccountHolds, RowsHold, ReqsHold, CallbackHolds, CheckHolds,
              Behind, AcceptedWasUsable, IdleBound, NoStraySession
<1> QED BY <1>1, <1>2, <1>3, <1>4, <1>5, <1>6 DEF Next

\* The inductive invariant holds in every reachable state.
THEOREM Invariance == Spec => []IInv
BY InitIInv, NextIInv, PTL DEF Spec

\* Type correctness of AdminSessions.
THEOREM TypeCorrect == Spec => []TypeOK
<1>1. IInv => TypeOK
  BY DEF IInv
<1> QED BY <1>1, Invariance, PTL

\* authenticate accepts only sessions that could be used at one moment of the
\* request, however many requests and changes interleave.
THEOREM AcceptedRequestsWereAuthorised == Spec => []AcceptedWasUsable
<1>1. IInv => AcceptedWasUsable
  BY DEF IInv
<1> QED BY <1>1, Invariance, PTL

\* touchAdminSession keeps the idle expiry within the idle lifetime of the last use
\* and the absolute expiry, in whatever order requests touch.
THEOREM IdleIsBounded == Spec => []IdleBound
<1>1. IInv => IdleBound
  BY DEF IInv
<1> QED BY <1>1, Invariance, PTL

\* A failed callback leaves no session behind unless its compensation fails too.
THEOREM FailedSignInsLeaveNothing == Spec => []NoStraySession
<1>1. IInv => NoStraySession
  BY DEF IInv
<1> QED BY <1>1, Invariance, PTL

\* A session that logout, cleanup, expiry, a change of the account or of the grant
\* has made unusable stays so: neither a late touch nor a later change revives it.
THEOREM DeadSessionsStayDead == Spec => DeadStaysDead
<1>1. IInv /\ [Next]_vars => [\A s \in issued : Usable(s)' => Usable(s)]_vars
  <2> SUFFICES ASSUME IInv, [Next]_vars, NEW s \in issued, Usable(s)' PROVE Usable(s)
    OBVIOUS
  <2>1. /\ TypeOK /\ TypeOK' /\ AccountOnward /\ SessionOnward(s) /\ clock <= clock'
        /\ s \in Sessions /\ rows[s] \in Row /\ rows'[s] \in Row /\ clock \in Nat /\ clock' \in Nat
    BY NextIInv DEF IInv, Onward, TypeOK
  <2>2. /\ rows'[s].live /\ ~(rows'[s].expires <= clock') /\ ~(rows'[s].idle <= clock')
        /\ Matches(rows'[s], user', grant')
    BY DEF Usable, Expired, Matches
  <2>3. rows[s].live /\ ~Expired(rows[s], clock)
    BY <2>1, <2>2 DEF SessionOnward, Expired, Row
  <2>4. Behind(rows[s].user, rows[s].grant)
    BY <2>1, <2>3 DEF IInv, RowsHold
  <2>5. Matches(rows[s], user', grant')
    BY <2>1, <2>2 DEF SessionOnward, Matches
  <2>6. Matches(rows[s], user, grant)
    BY <2>1, <2>4, <2>5, MismatchStays
  <2> QED BY <2>3, <2>6 DEF Usable
<1> QED BY <1>1, Invariance, PTL DEF Spec, DeadStaysDead
============================================================================
