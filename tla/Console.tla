------------------------------ MODULE Console ------------------------------
(***************************************************************************)
(* The administration console between the tabs of one browser and the      *)
(* server: the sign-in of src/src/routes/admin-console.js, the checks of   *)
(* src/src/routes/admin.js before a request is served, and what            *)
(* src/src/ui/admin-console.js keeps in a tab.                             *)
(*                                                                         *)
(* The tabs share the browser's cookies and nothing else.  A request takes *)
(* the cookies along when it is sent, and its answer changes them when it  *)
(* arrives.  When a session ends is the subject of AdminSessions: here it  *)
(* simply may.                                                             *)
(***************************************************************************)
EXTENDS Naturals, FiniteSets

CONSTANTS Tabs, Realms, Admins,
          Values,         \* session values (random, never reused)
          Transactions,   \* sign-in transactions (state, nonce and verifier)
          Granted,        \* Granted[a][r]: what the grant of a in realm r permits
          TransactionTtl, \* life of the cookie of a transaction
          MaxAge,         \* an authentication older than this is not recent
          MaxClock,       \* bound on the clock
          None

Kinds == {"read", "change"}

ASSUME ConsoleAssumption ==
  /\ Granted \in [Admins -> [Realms -> SUBSET Kinds]]
  /\ {TransactionTtl, MaxAge, MaxClock} \subseteq Nat
  /\ None \notin Values \cup Transactions \cup Kinds

VARIABLES clock,
          jar,   \* the two cookies of the console
          sso,   \* sso[r]: the browser's session with the provider of realm r
          trans, \* trans[x]: realm and time of a transaction, signed into its cookie
          rows,  \* rows[v]: the admin_sessions row of v
          tab,   \* tab[t]: what tab t is doing
          last   \* history: the request accepted last, and what its tab showed

vars == <<clock, jar, sso, trans, rows, tab, last>>

Unused == [live |-> FALSE, used |-> FALSE]
Ended == [live |-> FALSE, used |-> TRUE]
LoginPage == [pc |-> "login"]

Init ==
  /\ clock = 0
  /\ jar = [session |-> None, login |-> None]
  /\ sso = [r \in Realms |-> [live |-> FALSE]]
  /\ trans = [x \in Transactions |-> [used |-> FALSE]]
  /\ rows = [v \in Values |-> Unused]
  /\ tab = [t \in Tabs |-> LoginPage]
  /\ last = [kind |-> None]

\* authenticate
Live(v) == v # None /\ rows[v].live

End(v) == rows' = IF Live(v) THEN [rows EXCEPT ![v] = Ended] ELSE rows

Show(t, what) == tab' = [tab EXCEPT ![t] = what]

\* GET /admin/, with the cookie the browser has by then.
Visiting(v) == [pc |-> "visit", sent |-> v]

----------------------------------------------------------------------------
(* Opening the console                                                     *)

Visit(t) ==
  /\ tab[t].pc \in {"login", "console", "auth"}
  /\ Show(t, Visiting(jar.session))
  /\ UNCHANGED <<clock, jar, sso, trans, rows, last>>

\* The page, or the sign-in page, which drops the cookie.
VisitAnswer(t) ==
  LET v == tab[t].sent IN
  /\ tab[t].pc = "visit"
  /\ IF Live(v)
       THEN Show(t, [pc |-> "boot", sent |-> jar.session]) /\ UNCHANGED jar
       ELSE /\ Show(t, LoginPage)
            /\ jar' = IF v = None THEN jar ELSE [jar EXCEPT !.session = None]
  /\ UNCHANGED <<clock, sso, trans, rows, last>>

\* GET /ui/session: realm, operator and the CSRF value, a digest of the session value.
SessionInfo(v) == [realm |-> rows[v].realm, admin |-> rows[v].admin, csrf |-> v]

\* The script of the page asks for it and starts over when there is none.
Bootstrap(t) ==
  LET v == tab[t].sent IN
  /\ tab[t].pc = "boot"
  /\ Show(t, IF Live(v)
               THEN [pc |-> "console", page |-> SessionInfo(v)]
               ELSE Visiting(jar.session))
  /\ UNCHANGED <<clock, jar, sso, trans, rows, last>>

----------------------------------------------------------------------------
(* Sign-in                                                                 *)

\* authorizationUrl: the tab is with the provider.
Authorizing(x) == [pc |-> "auth", x |-> x]

\* beginLogin: a new transaction takes the place of the one in the cookie.
BeginLogin(t, r) ==
  \E x \in Transactions :
    /\ ~trans[x].used
    /\ trans' = [trans EXCEPT ![x] = [used |-> TRUE, realm |-> r, at |-> clock]]
    /\ jar' = [jar EXCEPT !.login = x]
    /\ Show(t, Authorizing(x))

PostLogin(t, r) ==
  /\ tab[t].pc = "login"
  /\ BeginLogin(t, r)
  /\ UNCHANGED <<clock, sso, rows, last>>

\* The provider sends the tab to the callback; its code stands for who signed in
\* when and how.  The session cookie is SameSite=Strict: after a detour over
\* another site it stays behind.
ToCallback(t, code) ==
  \E previous \in {jar.session, None} :
    Show(t, [pc |-> "callback", x |-> tab[t].x, code |-> code,
             login |-> jar.login, previous |-> previous])

\* The provider has a session that is recent enough for max_age.
Reuse(t) ==
  /\ tab[t].pc = "auth"
  /\ LET s == sso[trans[tab[t].x].realm] IN
       s.live /\ clock <= s.at + MaxAge /\ ToCallback(t, s)
  /\ UNCHANGED <<clock, jar, sso, trans, rows, last>>

\* Somebody signs in, with one factor or with a strong one.
SignIn(t, a, strong) ==
  LET s == [live |-> TRUE, admin |-> a, at |-> clock, strong |-> strong] IN
  /\ tab[t].pc = "auth"
  /\ sso' = [sso EXCEPT ![trans[tab[t].x].realm] = s]
  /\ ToCallback(t, s)
  /\ UNCHANGED <<clock, jar, trans, rows, last>>

\* The provider answers with an error.
Deny(t) ==
  /\ tab[t].pc = "auth"
  /\ ToCallback(t, [live |-> FALSE])
  /\ UNCHANGED <<clock, jar, sso, trans, rows, last>>

\* The cookie is that of the transaction (its state) and has not expired.
Unsealed(q) == q.login = q.x /\ clock < trans[q.x].at + TransactionTtl

\* The code is good, its account has an administrator grant in the realm and
\* signed in recently with a strong factor.
Admitted(q) ==
  /\ Unsealed(q) /\ q.code.live
  /\ Granted[q.code.admin][trans[q.x].realm] # {}
  /\ clock <= q.code.at + MaxAge /\ q.code.strong

\* Mutant: the session counts from its creation.
NewRowFromNow(realm, code) ==
  [live |-> TRUE, used |-> TRUE, realm |-> realm, admin |-> code.admin,
   created |-> clock, proof |-> code]

\* The row is dated by the authentication; proof (history) is what happened.
NewRow(realm, code) ==
  [live |-> TRUE, used |-> TRUE, realm |-> realm, admin |-> code.admin,
   created |-> code.at, proof |-> code]

\* The row replaces the one of the cookie that came along.
Callback(t) ==
  LET q == tab[t] IN
  /\ q.pc = "callback" /\ Admitted(q)
  /\ \E v \in Values :
       /\ ~rows[v].used
       /\ LET new == [rows EXCEPT ![v] = NewRow(trans[q.x].realm, q.code)] IN
            rows' = IF Live(q.previous) THEN [new EXCEPT ![q.previous] = Ended] ELSE new
       /\ Show(t, [pc |-> "answer", session |-> v])
  /\ UNCHANGED <<clock, jar, sso, trans, last>>

\* Not admitted, or the exchange of the code or the database failed.
CallbackFails(t) ==
  /\ tab[t].pc = "callback"
  /\ Show(t, [pc |-> "answer", session |-> None])
  /\ UNCHANGED <<clock, jar, sso, trans, rows, last>>

\* The answer drops the cookie of the transaction, whichever that is by now.
CallbackAnswer(t) ==
  LET v == tab[t].session IN
  /\ tab[t].pc = "answer"
  /\ jar' = [login |-> None, session |-> IF v = None THEN jar.session ELSE v]
  /\ Show(t, IF v = None THEN LoginPage ELSE Visiting(v))
  /\ UNCHANGED <<clock, sso, trans, rows, last>>

----------------------------------------------------------------------------
(* Requests of the console                                                 *)

\* requestJson: the tab's realm and CSRF value, the browser's cookie.
Call(t, kind, to) ==
  [pc |-> "call", kind |-> kind, to |-> to, page |-> tab[t].page, sent |-> jar.session]

\* The tab offers what its operator may do.
Send(t, kind) ==
  /\ tab[t].pc = "console"
  /\ kind \in Granted[tab[t].page.admin][tab[t].page.realm]
  /\ Show(t, Call(t, kind, None))
  /\ UNCHANGED <<clock, jar, sso, trans, rows, last>>

SendSwitch(t, r) ==
  /\ tab[t].pc = "console" /\ r # tab[t].page.realm
  /\ Show(t, Call(t, "switch", r))
  /\ UNCHANGED <<clock, jar, sso, trans, rows, last>>

SendLogout(t) ==
  /\ tab[t].pc = "console"
  /\ Show(t, Call(t, "logout", None))
  /\ UNCHANGED <<clock, jar, sso, trans, rows, last>>

\* Mutant: any CSRF value of the browser will do.
VerifyCsrfOfAnySession(q) == rows[q.page.csrf].used

VerifyCsrf(q) == q.page.csrf = q.sent

\* Mutant: the realm of the path is not compared with the session.
InRealmOfPath(q) == TRUE

InRealm(q) == rows[q.sent].realm = q.page.realm

\* requiredAdminPermission
HasPermission(q) == q.kind \in Granted[rows[q.sent].admin][rows[q.sent].realm]

Recent(q) == clock <= rows[q.sent].created + MaxAge

Permitted(q) ==
  /\ InRealm(q)
  /\ HasPermission(q)
  /\ q.kind = "change" => VerifyCsrf(q) /\ Recent(q)

\* The session has ended: the tab goes back to /admin/.
Unauthorized(t) ==
  /\ tab[t].pc = "call" /\ tab[t].kind # "logout" /\ ~Live(tab[t].sent)
  /\ Show(t, Visiting(jar.session))
  /\ UNCHANGED <<clock, jar, sso, trans, rows, last>>

\* What is read or changed is that of the realm in the path.
Accept(t) ==
  LET q == tab[t] IN
  /\ q.pc = "call" /\ q.kind \in Kinds /\ Live(q.sent) /\ Permitted(q)
  /\ last' = [kind |-> q.kind, shown |-> q.page.admin, realm |-> q.page.realm,
              actor |-> rows[q.sent].admin, age |-> clock - rows[q.sent].proof.at,
              strong |-> rows[q.sent].proof.strong]
  /\ Show(t, [pc |-> "console", page |-> q.page])
  /\ UNCHANGED <<clock, jar, sso, trans, rows>>

\* Not permitted, or over the rate limit: the tab shows an error.
Refuse(t) ==
  /\ tab[t].pc = "call" /\ tab[t].kind # "logout"
  /\ Show(t, [pc |-> "console", page |-> tab[t].page])
  /\ UNCHANGED <<clock, jar, sso, trans, rows, last>>

SwitchRealm(t) ==
  LET q == tab[t] IN
  /\ q.pc = "call" /\ q.kind = "switch" /\ Live(q.sent) /\ VerifyCsrf(q)
  /\ BeginLogin(t, q.to)
  /\ UNCHANGED <<clock, sso, rows, last>>

\* The row is deleted; a request without a live session only drops the cookie.
Logout(t) ==
  LET q == tab[t] IN
  /\ q.pc = "call" /\ q.kind = "logout" /\ (Live(q.sent) => VerifyCsrf(q))
  /\ End(q.sent)
  /\ Show(t, [pc |-> "leaving"])
  /\ UNCHANGED <<clock, jar, sso, trans, last>>

\* Whatever the answer, the tab goes to /admin/.
LogoutFails(t) ==
  /\ tab[t].pc = "call" /\ tab[t].kind = "logout"
  /\ Show(t, Visiting(jar.session))
  /\ UNCHANGED <<clock, jar, sso, trans, rows, last>>

LogoutAnswer(t) ==
  /\ tab[t].pc = "leaving"
  /\ jar' = [jar EXCEPT !.session = None]
  /\ Show(t, Visiting(None))
  /\ UNCHANGED <<clock, sso, trans, rows, last>>

----------------------------------------------------------------------------
\* A session expires, or its account or grant changes.
SessionEnds(v) ==
  /\ Live(v) /\ End(v)
  /\ UNCHANGED <<clock, jar, sso, trans, tab, last>>

Tick ==
  /\ clock < MaxClock
  /\ clock' = clock + 1
  /\ UNCHANGED <<jar, sso, trans, rows, tab, last>>

Next ==
  \/ \E t \in Tabs :
       \/ Visit(t) \/ VisitAnswer(t) \/ Bootstrap(t)
       \/ \E r \in Realms : PostLogin(t, r) \/ SendSwitch(t, r)
       \/ Reuse(t) \/ Deny(t)
       \/ \E a \in Admins, strong \in BOOLEAN : SignIn(t, a, strong)
       \/ Callback(t) \/ CallbackFails(t) \/ CallbackAnswer(t)
       \/ \E kind \in Kinds : Send(t, kind)
       \/ SendLogout(t) \/ Unauthorized(t) \/ Accept(t) \/ Refuse(t)
       \/ SwitchRealm(t) \/ Logout(t) \/ LogoutFails(t) \/ LogoutAnswer(t)
  \/ \E v \in Values : SessionEnds(v)
  \/ Tick

Spec == Init /\ [][Next]_vars

----------------------------------------------------------------------------
(* Properties                                                              *)

\* Every change is made by the operator its tab shows, although another tab may
\* have signed in as somebody else since.
OperatorIsShown == last.kind = "change" => last.actor = last.shown

\* Whatever is read or changed in a realm, its actor's grant in that very realm
\* permits it, although a tab may outlive a switch to another realm.
GrantCoversRealm == last.kind # None => last.kind \in Granted[last.actor][last.realm]

\* Whoever changes something proved a strong factor recently: neither a session
\* nor a switch of realm makes an old proof young.
ChangesAreFresh == last.kind = "change" => last.strong /\ last.age <= MaxAge
============================================================================
