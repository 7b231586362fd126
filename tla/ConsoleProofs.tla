--------------------------- MODULE ConsoleProofs ---------------------------
(***************************************************************************)
(* Proofs about Console, for every number of tabs, realms, administrators, *)
(* sessions and sign-in transactions, and for all grants and periods; and  *)
(* about ConsolePage, the page each tab shows.                             *)
(***************************************************************************)
EXTENDS Console, ConsolePage, FiniteSetTheorems, TLAPS

(***************************************************************************)
(* The inductive invariant.  The CSRF value of a tab names the session the *)
(* tab was loaded under: as long as that session lives, its row says who   *)
(* the tab shows (PagesHold).  A row is dated by the authentication it     *)
(* rests on, which was strong (RowsHold), and no value is used twice.      *)
(***************************************************************************)

SignedIn == [live : {TRUE}, admin : Admins, at : Nat, strong : BOOLEAN]
NotSignedIn == [live |-> FALSE]
Begun == [used : {TRUE}, realm : Realms, at : Nat]
Row ==
  [live : {TRUE}, used : {TRUE}, realm : Realms, admin : Admins, created : Nat, proof : SignedIn]
Page == [realm : Realms, admin : Admins, csrf : Values]

Asks == [pc : {"visit", "boot"}, sent : Values \cup {None}]
Showing == [pc : {"console"}, page : Page]
Away == [pc : {"auth"}, x : Transactions]
Returning ==
  [pc : {"callback"}, x : Transactions, code : SignedIn \cup {NotSignedIn},
   login : Transactions \cup {None}, previous : Values \cup {None}]
Answers == [pc : {"answer"}, session : Values \cup {None}]
Calling ==
  [pc : {"call"}, kind : Kinds \cup {"logout"}, to : {None}, page : Page, sent : Values \cup {None}]
  \cup
  [pc : {"call"}, kind : {"switch"}, to : Realms, page : Page, sent : Values \cup {None}]
Leaving == [pc |-> "leaving"]
Tab ==
  {LoginPage, Leaving} \cup Asks \cup Showing \cup Away \cup Returning \cup Answers \cup Calling

Types ==
  /\ clock \in Nat
  /\ jar \in [session : Values \cup {None}, login : Transactions \cup {None}]
  /\ sso \in [Realms -> SignedIn \cup {NotSignedIn}]
  /\ trans \in [Transactions -> Begun \cup {[used |-> FALSE]}]
  /\ rows \in [Values -> Row \cup {Unused, Ended}]
  /\ tab \in [Tabs -> Tab]

\* A tab is with the provider for a transaction that began.
TransactionsHold == \A t \in Tabs : tab[t].pc \in {"auth", "callback"} => trans[tab[t].x].used

RowsHold ==
  \A v \in Values : rows[v].live => rows[v].created = rows[v].proof.at /\ rows[v].proof.strong

\* What a tab shows is that of its session, as long as there is one.
PageHolds(p) ==
  /\ rows[p.csrf].used
  /\ rows[p.csrf].live => rows[p.csrf].admin = p.admin /\ rows[p.csrf].realm = p.realm
PagesHold == \A t \in Tabs : tab[t].pc \in {"console", "call"} => PageHolds(tab[t].page)

IInv ==
  /\ Types /\ TransactionsHold /\ RowsHold /\ PagesHold
  /\ OperatorIsShown /\ GrantCoversRealm /\ ChangesAreFresh

----------------------------------------------------------------------------
(* Facts every step uses.                                                  *)

\* The fields of a tab follow from what it is doing.
LEMMA FieldsOf ==
  ASSUME Types, NEW t \in Tabs
  PROVE  /\ tab[t].pc \in {"visit", "boot"} => tab[t] \in Asks
         /\ tab[t].pc = "console" => tab[t] \in Showing
         /\ tab[t].pc = "auth" => tab[t] \in Away
         /\ tab[t].pc = "callback" => tab[t] \in Returning
         /\ tab[t].pc = "answer" => tab[t] \in Answers
         /\ tab[t].pc = "call" => tab[t] \in Calling
         /\ tab[t].pc \in {"console", "call"} => tab[t].page \in Page
BY DEF Types, Tab, LoginPage, Leaving, Asks, Showing, Away, Returning, Answers, Calling

\* Initially every tab shows the sign-in page and there is no session.
LEMMA InitIInv == Init => IInv
<1> SUFFICES ASSUME Init PROVE IInv
  OBVIOUS
<1> USE ConsoleAssumption
<1>1. Types
  BY DEF Init, Types, Tab, NotSignedIn
<1>2. TransactionsHold /\ RowsHold /\ PagesHold
  BY DEF Init, TransactionsHold, RowsHold, PagesHold, LoginPage, Unused
<1>3. OperatorIsShown /\ GrantCoversRealm /\ ChangesAreFresh
  BY DEF Init, OperatorIsShown, GrantCoversRealm, ChangesAreFresh, Kinds
<1> QED BY <1>1, <1>2, <1>3 DEF IInv

\* A transaction never changes once it began; a row only ends.
TransactionsKept == \A x \in Transactions : trans[x].used => trans'[x].used
RowsKept ==
  \A v \in Values : rows[v].used => rows'[v].used /\ (rows'[v].live => rows'[v] = rows[v])

\* A step of one tab.
LEMMA ShowKeeps ==
  ASSUME IInv, Types', NEW t \in Tabs, \A o \in Tabs : o # t => tab'[o] = tab[o],
         TransactionsKept, RowsKept, RowsHold', last' = last,
         tab'[t].pc \in {"auth", "callback"} => (trans[tab[t].x].used)',
         tab'[t].pc \in {"console", "call"} => PageHolds(tab[t].page)'
  PROVE  IInv'
<1>1. Types
  BY DEF IInv
<1>2. TransactionsHold'
  <2>1. ASSUME NEW o \in Tabs, o # t, tab'[o].pc \in {"auth", "callback"} PROVE (trans[tab[o].x].used)'
    <3>1. tab'[o] = tab[o] /\ tab[o].x \in Transactions
      BY <1>1, <2>1, FieldsOf DEF Away, Returning
    <3> QED BY <2>1, <3>1 DEF IInv, TransactionsHold, TransactionsKept
  <2> QED BY <2>1 DEF TransactionsHold
<1>3. PagesHold'
  <2>1. ASSUME NEW o \in Tabs, o # t, tab'[o].pc \in {"console", "call"} PROVE PageHolds(tab[o].page)'
    <3>1. tab'[o] = tab[o] /\ tab[o].page.csrf \in Values /\ PageHolds(tab[o].page)
      BY <1>1, <2>1, FieldsOf DEF Page, IInv, PagesHold
    <3> QED BY <3>1 DEF PageHolds, RowsKept
  <2> QED BY <2>1 DEF PagesHold
<1>4. OperatorIsShown' /\ GrantCoversRealm' /\ ChangesAreFresh'
  BY DEF IInv, OperatorIsShown, GrantCoversRealm, ChangesAreFresh
<1> QED BY <1>2, <1>3, <1>4 DEF IInv

\* What a tab does next is one of the things a tab can do.
LEMMA Shown ==
  ASSUME Types, NEW t \in Tabs, NEW r \in Tab, Show(t, r)
  PROVE  /\ tab' \in [Tabs -> Tab] /\ tab'[t] = r
         /\ \A o \in Tabs : o # t => tab'[o] = tab[o]
BY DEF Types, Show

\* A tab that moves on without the server's tables.
LEMMA QuietKeeps ==
  ASSUME IInv, NEW t \in Tabs, NEW r \in Tab, Show(t, r), UNCHANGED <<clock, sso, trans, rows, last>>,
         jar' \in [session : Values \cup {None}, login : Transactions \cup {None}],
         r.pc \in {"auth", "callback"} => trans[r.x].used,
         r.pc \in {"console", "call"} => PageHolds(r.page)
  PROVE  IInv'
<1>1. Types
  BY DEF IInv
<1>2. tab' \in [Tabs -> Tab] /\ tab'[t] = r /\ \A o \in Tabs : o # t => tab'[o] = tab[o]
  BY <1>1, Shown
<1>3. Types'
  BY <1>1, <1>2 DEF Types
<1>4. TransactionsKept /\ RowsKept /\ RowsHold'
  BY DEF TransactionsKept, RowsKept, RowsHold, IInv
<1>5. tab'[t].pc \in {"console", "call"} => PageHolds(tab[t].page)'
  BY <1>2 DEF PageHolds
<1> QED BY <1>2, <1>3, <1>4, <1>5, ShowKeeps

----------------------------------------------------------------------------
(* Each action keeps the invariant.                                        *)

LEMMA Visits ==
  ASSUME IInv, NEW t \in Tabs, NEW v \in Values \cup {None}
  PROVE  Visiting(v) \in Tab /\ Visiting(v).pc = "visit"
BY DEF Visiting, Tab, Asks

\* Opening the console: a page of the session that lives shows its operator.
LEMMA VisitStep ==
  ASSUME IInv, NEW t \in Tabs, Visit(t) \/ VisitAnswer(t) \/ Bootstrap(t)
  PROVE  IInv'
<1>1. Types /\ jar.session \in Values \cup {None}
      /\ jar \in [session : Values \cup {None}, login : Transactions \cup {None}]
  BY DEF IInv, Types
<1>2. CASE Visit(t)
  BY <1>1, <1>2, Visits, QuietKeeps DEF Visit
<1>3. CASE VisitAnswer(t)
  <2>1. CASE Live(tab[t].sent)
    <3> DEFINE r == [pc |-> "boot", sent |-> jar.session]
    <3>1. r \in Tab /\ r.pc = "boot"
      BY <1>1 DEF Tab, Asks
    <3> HIDE DEF r
    <3>2. Show(t, r) /\ UNCHANGED <<clock, jar, sso, trans, rows, last>>
      BY <1>3, <2>1 DEF VisitAnswer, r
    <3> QED BY <1>1, <3>1, <3>2, QuietKeeps
  <2>2. CASE ~Live(tab[t].sent)
    <3>1. LoginPage \in Tab /\ LoginPage.pc = "login"
      BY DEF Tab, LoginPage
    <3>2. jar' \in [session : Values \cup {None}, login : Transactions \cup {None}]
      BY <1>1, <1>3, <2>2 DEF VisitAnswer
    <3> QED BY <1>3, <2>2, <3>1, <3>2, QuietKeeps DEF VisitAnswer
  <2> QED BY <2>1, <2>2
<1>4. CASE Bootstrap(t)
  <2> DEFINE v == tab[t].sent
  <2>1. v \in Values \cup {None}
    BY <1>1, <1>4, FieldsOf DEF Bootstrap, Asks
  <2>2. CASE Live(v)
    <3> DEFINE p == SessionInfo(v)
               r == [pc |-> "console", page |-> p]
    <3>1. v \in Values /\ rows[v].live /\ rows[v] \in Row
      BY <1>1, <2>1, <2>2 DEF Live, Types, Unused, Ended
    <3>2. p \in Page /\ PageHolds(p)
      BY <3>1 DEF SessionInfo, Page, Row, PageHolds
    <3> HIDE DEF p
    <3>3. r \in Tab /\ r.pc = "console" /\ r.page = p
      BY <3>2 DEF Tab, Showing
    <3> HIDE DEF r
    <3>4. Show(t, r) /\ UNCHANGED <<clock, jar, sso, trans, rows, last>>
      BY <1>4, <2>2 DEF Bootstrap, r, p
    <3> QED BY <1>1, <3>2, <3>3, <3>4, QuietKeeps
  <2>3. CASE ~Live(v)
    BY <1>1, <1>4, <2>3, Visits, QuietKeeps DEF Bootstrap
  <2> QED BY <2>2, <2>3
<1> QED BY <1>2, <1>3, <1>4

\* A new transaction.
LEMMA BeginLoginKeeps ==
  ASSUME IInv, NEW t \in Tabs, NEW r \in Realms, BeginLogin(t, r), UNCHANGED <<clock, sso, rows, last>>
  PROVE  IInv'
<1>1. Types
  BY DEF IInv
<1>2. PICK x \in Transactions :
        /\ ~trans[x].used
        /\ trans' = [trans EXCEPT ![x] = [used |-> TRUE, realm |-> r, at |-> clock]]
        /\ jar' = [jar EXCEPT !.login = x]
        /\ Show(t, Authorizing(x))
  BY DEF BeginLogin
<1>3. Authorizing(x) \in Tab /\ Authorizing(x).pc = "auth" /\ Authorizing(x).x = x
  BY DEF Authorizing, Tab, Away
<1>4. tab' \in [Tabs -> Tab] /\ tab'[t] = Authorizing(x) /\ \A o \in Tabs : o # t => tab'[o] = tab[o]
  BY <1>1, <1>2, <1>3, Shown
<1>5. trans' \in [Transactions -> Begun \cup {[used |-> FALSE]}] /\ trans'[x].used /\ TransactionsKept
  BY <1>1, <1>2 DEF Types, Begun, TransactionsKept
<1>6. jar' \in [session : Values \cup {None}, login : Transactions \cup {None}]
  BY <1>1, <1>2 DEF Types
<1>7. Types'
  BY <1>1, <1>4, <1>5, <1>6 DEF Types
<1>8. RowsKept /\ RowsHold'
  BY DEF RowsKept, RowsHold, IInv
<1> QED BY <1>3, <1>4, <1>5, <1>7, <1>8, ShowKeeps

LEMMA LoginStep ==
  ASSUME IInv, NEW t \in Tabs, NEW r \in Realms, PostLogin(t, r)
  PROVE  IInv'
BY BeginLoginKeeps DEF PostLogin

\* The way back from the provider.
LEMMA ToCallbackKeeps ==
  ASSUME IInv, NEW t \in Tabs, tab[t].pc = "auth", NEW code \in SignedIn \cup {NotSignedIn},
         ToCallback(t, code), UNCHANGED <<clock, jar, trans, rows, last>>,
         sso' \in [Realms -> SignedIn \cup {NotSignedIn}]
  PROVE  IInv'
<1>1. Types /\ tab[t] \in Away /\ trans[tab[t].x].used
  BY FieldsOf DEF IInv, TransactionsHold
<1>2. PICK p \in {jar.session, None} :
        Show(t, [pc |-> "callback", x |-> tab[t].x, code |-> code, login |-> jar.login, previous |-> p])
  BY DEF ToCallback
<1> DEFINE r == [pc |-> "callback", x |-> tab[t].x, code |-> code, login |-> jar.login, previous |-> p]
<1>3. r \in Returning /\ r.pc = "callback" /\ r.x = tab[t].x
  <2>1. tab[t].x \in Transactions /\ jar.login \in Transactions \cup {None} /\ p \in Values \cup {None}
    BY <1>1 DEF Away, Types
  <2> QED BY <2>1 DEF Returning
<1> HIDE DEF r
<1>4. r \in Tab /\ Show(t, r)
  BY <1>2, <1>3 DEF Tab, r
<1>5. tab' \in [Tabs -> Tab] /\ tab'[t] = r /\ \A o \in Tabs : o # t => tab'[o] = tab[o]
  BY <1>1, <1>4, Shown
<1>6. Types'
  BY <1>1, <1>5 DEF Types
<1>7. TransactionsKept /\ RowsKept /\ RowsHold'
  BY DEF TransactionsKept, RowsKept, RowsHold, IInv
<1> QED BY <1>1, <1>3, <1>5, <1>6, <1>7, ShowKeeps

LEMMA ProviderStep ==
  ASSUME IInv, NEW t \in Tabs,
         Reuse(t) \/ Deny(t) \/ \E a \in Admins, strong \in BOOLEAN : SignIn(t, a, strong)
  PROVE  IInv'
<1>1. Types /\ tab[t].pc = "auth" /\ tab[t] \in Away /\ trans[tab[t].x].used
  BY FieldsOf DEF IInv, TransactionsHold, Reuse, Deny, SignIn
<1>2. trans[tab[t].x].realm \in Realms
  <2>1. tab[t].x \in Transactions
    BY <1>1 DEF Away
  <2>2. trans[tab[t].x] \in Begun
    BY <1>1, <2>1 DEF Types
  <2> QED BY <2>2 DEF Begun
<1>3. CASE Reuse(t)
  <2>1. sso[trans[tab[t].x].realm] \in SignedIn \cup {NotSignedIn}
    BY <1>1, <1>2 DEF Types
  <2> QED BY <1>1, <1>3, <2>1, ToCallbackKeeps DEF Reuse, Types
<1>4. CASE Deny(t)
  BY <1>1, <1>4, ToCallbackKeeps DEF Deny, NotSignedIn, Types
<1>5. ASSUME NEW a \in Admins, NEW strong \in BOOLEAN, SignIn(t, a, strong) PROVE IInv'
  <2> DEFINE s == [live |-> TRUE, admin |-> a, at |-> clock, strong |-> strong]
  <2>1. s \in SignedIn
    BY <1>1 DEF SignedIn, Types
  <2> HIDE DEF s
  <2>2. /\ sso' = [sso EXCEPT ![trans[tab[t].x].realm] = s] /\ ToCallback(t, s)
        /\ UNCHANGED <<clock, jar, trans, rows, last>>
    BY <1>5 DEF SignIn, s
  <2>3. sso' \in [Realms -> SignedIn \cup {NotSignedIn}]
    BY <1>1, <2>1, <2>2 DEF Types
  <2> QED BY <1>1, <2>1, <2>2, <2>3, ToCallbackKeeps
<1> QED BY <1>3, <1>4, <1>5

\* The callback: a row for what was proved, in place of the one that came along.
LEMMA CallbackStep ==
  ASSUME IInv, NEW t \in Tabs, Callback(t)
  PROVE  IInv'
<1> USE ConsoleAssumption
<1> DEFINE q == tab[t]
<1>1. Types /\ q.pc = "callback" /\ q \in Returning /\ trans[q.x].used /\ Admitted(q)
      /\ UNCHANGED <<clock, jar, sso, trans, last>>
  BY FieldsOf DEF IInv, TransactionsHold, Callback
<1>2. PICK v \in Values :
        /\ ~rows[v].used
        /\ rows' = IF Live(q.previous)
                     THEN [[rows EXCEPT ![v] = NewRow(trans[q.x].realm, q.code)] EXCEPT ![q.previous] = Ended]
                     ELSE [rows EXCEPT ![v] = NewRow(trans[q.x].realm, q.code)]
        /\ Show(t, [pc |-> "answer", session |-> v])
  BY DEF Callback
<1>3. trans[q.x] \in Begun
  <2>1. q.x \in Transactions
    BY <1>1 DEF Returning
  <2> QED BY <1>1, <2>1 DEF Types
<1>4. q.code \in SignedIn /\ q.code.strong
  BY <1>1 DEF Returning, Admitted, NotSignedIn
<1> DEFINE n == NewRow(trans[q.x].realm, q.code)
<1>5. /\ n \in Row /\ n.created = n.proof.at /\ n.proof.strong
  BY <1>3, <1>4 DEF NewRow, Row, Begun, SignedIn
<1>6. /\ \A w \in Values : w # v => rows'[w] = rows[w] \/ rows'[w] = Ended
      /\ rows'[v] = n \/ rows'[v] = Ended
      /\ rows' \in [Values -> Row \cup {Unused, Ended}]
  <2> HIDE DEF n, q
  <2>1. CASE Live(q.previous)
    BY <1>1, <1>2, <1>5, <2>1 DEF Types, n
  <2>2. CASE ~Live(q.previous)
    BY <1>1, <1>2, <1>5, <2>2 DEF Types, n
  <2> QED BY <2>1, <2>2
<1> HIDE DEF n, q
<1>7. RowsKept
  BY <1>2, <1>6 DEF RowsKept, Ended
<1>8. RowsHold'
  BY <1>5, <1>6 DEF IInv, RowsHold, Ended
<1> DEFINE r == [pc |-> "answer", session |-> v]
<1>9. r \in Tab /\ r.pc = "answer"
  BY DEF Tab, Answers
<1> HIDE DEF r
<1>10. tab' \in [Tabs -> Tab] /\ tab'[t] = r /\ \A o \in Tabs : o # t => tab'[o] = tab[o]
  BY <1>1, <1>2, <1>9, Shown DEF r
<1>11. Types'
  BY <1>1, <1>6, <1>10 DEF Types
<1>12. TransactionsKept
  BY <1>1 DEF TransactionsKept
<1> QED BY <1>1, <1>7, <1>8, <1>9, <1>10, <1>11, <1>12, ShowKeeps

LEMMA CallbackEndStep ==
  ASSUME IInv, NEW t \in Tabs, CallbackFails(t) \/ CallbackAnswer(t)
  PROVE  IInv'
<1>1. Types /\ jar \in [session : Values \cup {None}, login : Transactions \cup {None}]
  BY DEF IInv, Types
<1>2. CASE CallbackFails(t)
  <2> DEFINE r == [pc |-> "answer", session |-> None]
  <2>1. r \in Tab /\ r.pc = "answer"
    BY DEF Tab, Answers
  <2> HIDE DEF r
  <2>2. Show(t, r) /\ UNCHANGED <<clock, jar, sso, trans, rows, last>>
    BY <1>2 DEF CallbackFails, r
  <2> QED BY <1>1, <2>1, <2>2, QuietKeeps
<1>3. CASE CallbackAnswer(t)
  <2> DEFINE v == tab[t].session
             r == IF v = None THEN LoginPage ELSE Visiting(v)
  <2>1. v \in Values \cup {None}
    BY <1>1, <1>3, FieldsOf DEF CallbackAnswer, Answers
  <2>2. jar' \in [session : Values \cup {None}, login : Transactions \cup {None}]
    BY <1>1, <1>3, <2>1 DEF CallbackAnswer
  <2>3. r \in Tab /\ r.pc \in {"login", "visit"}
    BY <2>1, Visits DEF Tab, LoginPage
  <2> HIDE DEF r
  <2>4. Show(t, r) /\ UNCHANGED <<clock, sso, trans, rows, last>>
    BY <1>3 DEF CallbackAnswer, r
  <2> QED BY <2>2, <2>3, <2>4, QuietKeeps
<1> QED BY <1>2, <1>3

\* A request takes the page of its tab along.
LEMMA SendStep ==
  ASSUME IInv, NEW t \in Tabs,
         \/ \E kind \in Kinds : Send(t, kind)
         \/ \E r \in Realms : SendSwitch(t, r)
         \/ SendLogout(t)
  PROVE  IInv'
<1>1. Types /\ tab[t].pc = "console" /\ tab[t].page \in Page /\ PageHolds(tab[t].page)
      /\ jar \in [session : Values \cup {None}, login : Transactions \cup {None}]
      /\ UNCHANGED <<clock, jar, sso, trans, rows, last>>
  BY FieldsOf DEF IInv, Types, PagesHold, Send, SendSwitch, SendLogout
<1>2. ASSUME NEW kind, NEW to, Show(t, Call(t, kind, to)),
             \/ kind \in Kinds \cup {"logout"} /\ to = None
             \/ kind = "switch" /\ to \in Realms
      PROVE  IInv'
  <2> DEFINE r == Call(t, kind, to)
  <2>1. r.pc = "call" /\ r.page = tab[t].page
    BY DEF Call
  <2>2. r \in Calling
    BY <1>1, <1>2 DEF Call, Calling
  <2> HIDE DEF r
  <2>3. r \in Tab /\ Show(t, r)
    BY <1>2, <2>2 DEF Tab, r
  <2> QED BY <1>1, <2>1, <2>3, QuietKeeps
<1> QED BY <1>2 DEF Send, SendSwitch, SendLogout

\* An accepted request: the session it came with is that of its tab.
LEMMA AcceptStep ==
  ASSUME IInv, NEW t \in Tabs, Accept(t)
  PROVE  IInv'
<1> USE ConsoleAssumption
<1> DEFINE q == tab[t]
           row == rows[q.sent]
<1>1. /\ Types /\ q \in Calling /\ q.page \in Page /\ PageHolds(q.page)
      /\ q.kind \in Kinds /\ Live(q.sent) /\ Permitted(q)
      /\ UNCHANGED <<clock, jar, sso, trans, rows>>
      /\ Show(t, [pc |-> "console", page |-> q.page])
  BY FieldsOf DEF IInv, PagesHold, Accept
<1>2. q.sent \in Values /\ row \in Row
  BY <1>1 DEF Types, Live, Calling, Unused, Ended
<1>3. row.created = row.proof.at /\ row.proof.strong /\ row.proof.at \in Nat
  BY <1>1, <1>2 DEF IInv, RowsHold, Live, Row, SignedIn
<1>4. /\ row.realm = q.page.realm /\ q.kind \in Granted[row.admin][row.realm]
      /\ q.kind = "change" => q.page.csrf = q.sent /\ clock <= row.created + MaxAge
  BY <1>1 DEF Permitted, InRealm, HasPermission, VerifyCsrf, Recent
<1>5. q.kind = "change" => row.admin = q.page.admin /\ clock - row.proof.at <= MaxAge
  <2> SUFFICES ASSUME q.kind = "change" PROVE row.admin = q.page.admin /\ clock - row.proof.at <= MaxAge
    OBVIOUS
  <2>1. q.page.csrf = q.sent /\ clock <= row.created + MaxAge
    BY <1>4
  <2>2. row.admin = q.page.admin
    BY <1>1, <2>1 DEF PageHolds, Live
  <2>3. clock \in Nat /\ MaxAge \in Nat
    BY <1>1 DEF Types
  <2> HIDE DEF q, row
  <2> QED BY <1>3, <2>1, <2>2, <2>3
<1>6. last' = [kind |-> q.kind, shown |-> q.page.admin, realm |-> q.page.realm,
               actor |-> row.admin, age |-> clock - row.proof.at, strong |-> row.proof.strong]
  BY DEF Accept
<1> DEFINE r == [pc |-> "console", page |-> q.page]
<1>7. r \in Tab /\ r.pc = "console" /\ r.page = q.page
  BY <1>1 DEF Tab, Showing
<1> HIDE DEF r, q, row
<1>8. tab' \in [Tabs -> Tab] /\ tab'[t] = r /\ \A o \in Tabs : o # t => tab'[o] = tab[o]
  BY <1>1, <1>7, Shown DEF r
<1>9. Types'
  BY <1>1, <1>8 DEF Types
<1>10. TransactionsHold' /\ RowsHold' /\ PagesHold'
  BY <1>1, <1>7, <1>8 DEF IInv, TransactionsHold, RowsHold, PagesHold, PageHolds
<1>11. OperatorIsShown' /\ GrantCoversRealm' /\ ChangesAreFresh'
  BY <1>3, <1>4, <1>5, <1>6 DEF OperatorIsShown, GrantCoversRealm, ChangesAreFresh
<1> QED BY <1>9, <1>10, <1>11 DEF IInv

LEMMA RefuseStep ==
  ASSUME IInv, NEW t \in Tabs, Refuse(t) \/ Unauthorized(t) \/ LogoutFails(t) \/ LogoutAnswer(t)
  PROVE  IInv'
<1>1. Types /\ jar \in [session : Values \cup {None}, login : Transactions \cup {None}]
      /\ jar.session \in Values \cup {None}
  BY DEF IInv, Types
<1>2. CASE Refuse(t)
  <2> DEFINE r == [pc |-> "console", page |-> tab[t].page]
  <2>1. tab[t].page \in Page /\ PageHolds(tab[t].page)
    BY <1>1, <1>2, FieldsOf DEF Refuse, IInv, PagesHold
  <2>2. r \in Tab /\ r.pc = "console" /\ r.page = tab[t].page
    BY <2>1 DEF Tab, Showing
  <2> HIDE DEF r
  <2>3. Show(t, r) /\ UNCHANGED <<clock, jar, sso, trans, rows, last>>
    BY <1>2 DEF Refuse, r
  <2> QED BY <1>1, <2>1, <2>2, <2>3, QuietKeeps
<1>3. CASE Unauthorized(t) \/ LogoutFails(t)
  BY <1>1, <1>3, Visits, QuietKeeps DEF Unauthorized, LogoutFails
<1>4. CASE LogoutAnswer(t)
  <2>1. jar' \in [session : Values \cup {None}, login : Transactions \cup {None}]
    BY <1>1, <1>4 DEF LogoutAnswer
  <2> QED BY <1>4, <2>1, Visits, QuietKeeps DEF LogoutAnswer
<1> QED BY <1>2, <1>3, <1>4

LEMMA SwitchStep ==
  ASSUME IInv, NEW t \in Tabs, SwitchRealm(t)
  PROVE  IInv'
<1>1. tab[t] \in Calling /\ tab[t].kind = "switch"
  BY FieldsOf DEF SwitchRealm, IInv
<1>2. tab[t].to \in Realms
  BY <1>1 DEF Calling, Kinds
<1> QED BY <1>2, BeginLoginKeeps DEF SwitchRealm

\* A session that ends takes no page with it: the pages' CSRF values stay used.
LEMMA Ends ==
  ASSUME IInv, NEW v \in Values \cup {None}, End(v)
  PROVE  rows' \in [Values -> Row \cup {Unused, Ended}] /\ RowsKept /\ RowsHold'
<1>1. Types
  BY DEF IInv
<1>2. CASE Live(v)
  <2>1. v \in Values /\ rows' = [rows EXCEPT ![v] = Ended]
    BY <1>2 DEF Live, End
  <2> QED BY <1>1, <2>1 DEF Types, RowsKept, RowsHold, Ended, IInv
<1>3. CASE ~Live(v)
  BY <1>1, <1>3 DEF End, Types, RowsKept, RowsHold, IInv
<1> QED BY <1>2, <1>3

LEMMA LogoutStep ==
  ASSUME IInv, NEW t \in Tabs, Logout(t)
  PROVE  IInv'
<1>1. Types /\ tab[t] \in Calling /\ End(tab[t].sent) /\ Show(t, [pc |-> "leaving"])
      /\ UNCHANGED <<clock, jar, sso, trans, last>>
  BY FieldsOf DEF IInv, Logout
<1>2. rows' \in [Values -> Row \cup {Unused, Ended}] /\ RowsKept /\ RowsHold'
  BY <1>1, Ends DEF Calling
<1>3. Leaving \in Tab /\ Leaving.pc = "leaving"
  BY DEF Tab, Leaving
<1>4. tab' \in [Tabs -> Tab] /\ tab'[t] = Leaving /\ \A o \in Tabs : o # t => tab'[o] = tab[o]
  BY <1>1, <1>3, Shown DEF Leaving
<1>5. Types'
  BY <1>1, <1>2, <1>4 DEF Types
<1>6. TransactionsKept
  BY <1>1 DEF TransactionsKept
<1> QED BY <1>1, <1>2, <1>3, <1>4, <1>5, <1>6, ShowKeeps

\* Nothing of a tab changes.
LEMMA TabsKeep ==
  ASSUME IInv, Types', RowsKept, RowsHold', UNCHANGED <<tab, trans, last>>
  PROVE  IInv'
<1>1. TransactionsHold' /\ OperatorIsShown' /\ GrantCoversRealm' /\ ChangesAreFresh'
  BY DEF IInv, TransactionsHold, OperatorIsShown, GrantCoversRealm, ChangesAreFresh
<1>2. PagesHold'
  <2>1. ASSUME NEW o \in Tabs, tab[o].pc \in {"console", "call"} PROVE PageHolds(tab[o].page)'
    <3>1. tab[o].page.csrf \in Values /\ PageHolds(tab[o].page)
      BY <2>1, FieldsOf DEF Page, IInv, PagesHold
    <3> QED BY <3>1 DEF PageHolds, RowsKept
  <2> QED BY <2>1 DEF PagesHold
<1> QED BY <1>1, <1>2 DEF IInv

LEMMA StepIInv == IInv /\ [Next]_vars => IInv'
<1> SUFFICES ASSUME IInv, [Next]_vars PROVE IInv'
  OBVIOUS
<1>1. Types
  BY DEF IInv
<1>2. ASSUME UNCHANGED rows PROVE RowsKept /\ RowsHold'
  BY <1>2 DEF RowsKept, RowsHold, IInv
<1>3. CASE UNCHANGED vars
  <2>1. Types'
    BY <1>1, <1>3 DEF vars, Types
  <2> QED BY <1>2, <1>3, <2>1, TabsKeep DEF vars
<1>4. CASE Tick
  <2>1. Types'
    BY <1>1, <1>4 DEF Tick, Types
  <2> QED BY <1>2, <1>4, <2>1, TabsKeep DEF Tick
<1>5. ASSUME NEW v \in Values, SessionEnds(v) PROVE IInv'
  <2>1. rows' \in [Values -> Row \cup {Unused, Ended}] /\ RowsKept /\ RowsHold'
    BY <1>5, Ends DEF SessionEnds
  <2>2. Types'
    BY <1>1, <1>5, <2>1 DEF SessionEnds, Types
  <2> QED BY <1>5, <2>1, <2>2, TabsKeep DEF SessionEnds
<1> QED BY <1>3, <1>4, <1>5, VisitStep, LoginStep, ProviderStep, CallbackStep, CallbackEndStep, SendStep,
           AcceptStep, RefuseStep, SwitchStep, LogoutStep
        DEF Next

----------------------------------------------------------------------------
(* The theorems.                                                           *)

\* The inductive invariant holds of every behaviour.
LEMMA Invariance == Spec => []IInv
BY InitIInv, StepIInv, PTL DEF Spec

\* Every change is made by the operator its tab shows: the CSRF value a tab sends is a
\* digest of the session it was loaded under, and is compared with the cookie's.
THEOREM ShownOperatorActs == Spec => []OperatorIsShown
<1>1. IInv => OperatorIsShown
  BY DEF IInv
<1> QED BY <1>1, Invariance, PTL

\* What is read or changed in a realm, the actor's grant in that realm permits.
THEOREM GrantsCoverRealms == Spec => []GrantCoversRealm
<1>1. IInv => GrantCoversRealm
  BY DEF IInv
<1> QED BY <1>1, Invariance, PTL

\* A change rests on a strong authentication at most MaxAge old.
THEOREM FreshChanges == Spec => []ChangesAreFresh
<1>1. IInv => ChangesAreFresh
  BY DEF IInv
<1> QED BY <1>1, Invariance, PTL

----------------------------------------------------------------------------
(***************************************************************************)
(* ConsolePage, the page one tab shows, for any users, fields, texts and   *)
(* permissions, and any number of changes in flight.  Its inductive        *)
(* invariant: a load that was not aborted is for the route in the          *)
(* location, unless that has moved (LoadsHold); the value of a prompt is   *)
(* "cancel" until the operator confirms (PromptHolds); an input nobody     *)
(* typed in shows its copy (FormHolds), and so, since a regular value is   *)
(* read back as it was (RegularReadsBack), what a save sends was typed or  *)
(* was not regular on the page (CallsHold).                                *)
(***************************************************************************)

Editing == form.kind = "user" /\ form.user # Nothing

LoadsHold ==
  \A l \in loads : /\ l = [route |-> l.route, need |-> l.need, copy |-> l.copy]
                   /\ moved \/ l.route = hash

PromptHolds ==
  prompt.pc # "closed" =>
    /\ prompt.kind \in Asking
    /\ prompt = [pc |-> prompt.pc, value |-> prompt.value, kind |-> prompt.kind,
                 user |-> prompt.user, agreed |-> prompt.agreed]
    /\ prompt.value # "cancel" => prompt.pc = "closing" /\ prompt.agreed

FormHolds ==
  /\ form = NoForm \/ form.kind \in Forms
  /\ Editing =>
       /\ form = [kind |-> "user", user |-> form.user, copy |-> form.copy, values |-> form.values,
                  touched |-> form.touched]
       /\ form.values = [f \in Fields |-> form.values[f]]
       /\ \A f \in Fields \ form.touched : form.values[f] = AsInput(f, form.copy[f])

CallsHold ==
  \A c \in calls : c.kind = "user" /\ c.user # Nothing =>
    \A f \in DOMAIN c.patch : f \in Fields /\ (f \in c.touched \/ ~Regular(f, c.copy[f]))

PageIInv ==
  /\ LoadsHold /\ PageFollowsRoute
  /\ PromptHolds /\ NothingUnconfirmed /\ FormHolds /\ CallsHold

\* What a step leaves alone: the parts of the invariant that are about the page, the
\* prompt, the form and the calls.
PageKept == LoadsHold' /\ PageFollowsRoute'
PromptKept == PromptHolds'
FormKept == FormHolds'
CallsKept == NothingUnconfirmed' /\ CallsHold'

\* Texts that are clean, not empty and all different are kept as they are.
LEMMA DistinctKeeps ==
  ASSUME NEW s \in Seq(Texts),
         \A i \in DOMAIN s : Clean[s[i]] = s[i] /\ s[i] # Empty,
         \A i, j \in DOMAIN s : s[i] = s[j] => i = j
  PROVE  Distinct(s) = s
<1> DEFINE n == Len(s)
           w == [i \in DOMAIN s |-> Clean[s[i]]]
           first == {i \in DOMAIN s : w[i] # Empty /\ \A j \in 1 .. i - 1 : w[j] # w[i]}
           position(i) == Cardinality({j \in first : j <= i})
<1>1. n \in Nat /\ DOMAIN s = 1 .. n /\ s = [i \in 1 .. n |-> s[i]]
  OBVIOUS
<1>2. w = s
  BY <1>1
<1>3. first = 1 .. n
  <2>1. ASSUME NEW i \in 1 .. n PROVE i \in first
    <3>1. w[i] # Empty
      BY <1>1, <1>2
    <3>2. ASSUME NEW j \in 1 .. i - 1 PROVE w[j] # w[i]
      <4>1. j \in 1 .. n /\ j # i
        BY <1>1
      <4> QED BY <1>1, <1>2, <4>1
    <3> QED BY <1>1, <3>1, <3>2
  <2> QED BY <1>1, <2>1
<1> HIDE DEF n, w, first
<1>4. \A k \in Nat : Cardinality(1 .. k) = k
  <2> SUFFICES ASSUME NEW k \in Nat PROVE Cardinality(1 .. k) = k
    OBVIOUS
  <2>1. Cardinality(1 .. k) = IF 1 > k THEN 0 ELSE k - 1 + 1
    BY FS_Interval
  <2> QED BY <2>1
<1>5. Cardinality(first) = n
  BY <1>1, <1>3, <1>4
<1>6. ASSUME NEW i \in first PROVE position(i) = i
  <2>1. {j \in first : j <= i} = 1 .. i
    BY <1>1, <1>3
  <2>2. i \in Nat
    BY <1>1, <1>3
  <2> QED BY <2>1, <2>2, <1>4
<1> HIDE DEF position
<1>7. ASSUME NEW k \in 1 .. n PROVE (CHOOSE i \in first : position(i) = k) = k
  <2> DEFINE m == CHOOSE i \in first : position(i) = k
  <2>1. k \in first /\ position(k) = k
    BY <1>3, <1>6
  <2>2. m \in first /\ position(m) = k
    BY <2>1
  <2> QED BY <2>2, <1>6
<1>8. Distinct(s) = [k \in 1 .. Cardinality(first) |-> w[CHOOSE i \in first : position(i) = k]]
  BY DEF Distinct, w, first, position
<1> QED BY <1>1, <1>2, <1>5, <1>7, <1>8

\* What the form shows of a regular value, it reads back as that value.
LEMMA RegularReadsBack ==
  ASSUME NEW f \in Fields, NEW v, Regular(f, v)
  PROVE  AsValue(f, AsInput(f, v)) = v
<1> DEFINE texts == {w \in Texts : Clean[w] = w}
           names == texts \ {Empty}
<1>1. CASE f \in TextFields
  BY <1>1, ConsolePageAssumption DEF Regular, AsValue, AsInput
<1>2. CASE f \in ListFields
  <2> DEFINE input == [i \in DOMAIN v |-> v[i].text]
             Name == [text : names, inner : {FALSE}]
  <2>1. /\ v \in Seq(Name)
        /\ \A i, j \in DOMAIN v : v[i].text = v[j].text => i = j
    BY <1>2, ConsolePageAssumption DEF Regular
  <2> HIDE DEF Name
  <2>2. /\ input \in Seq(Texts) /\ DOMAIN input = DOMAIN v
        /\ \A i \in DOMAIN input : Clean[input[i]] = input[i] /\ input[i] # Empty
        /\ \A i, j \in DOMAIN input : input[i] = input[j] => i = j
    <3>1. /\ v = [i \in 1 .. Len(v) |-> v[i]] /\ Len(v) \in Nat /\ DOMAIN v = 1 .. Len(v)
          /\ \A i \in 1 .. Len(v) : v[i] \in Name
      BY <2>1
    <3>2. \A i \in DOMAIN v : /\ v[i].text \in Texts /\ v[i].text # Empty
                              /\ Clean[v[i].text] = v[i].text
      BY <3>1 DEF Name
    <3> QED BY <2>1, <3>1, <3>2
  <2>3. v = [i \in DOMAIN input |-> [text |-> input[i], inner |-> FALSE]]
    <3>1. \A i \in DOMAIN v : v[i] \in Name
      BY <2>1
    <3>2. \A i \in DOMAIN v : v[i] = [text |-> v[i].text, inner |-> FALSE]
      BY <3>1 DEF Name
    <3>3. v = [i \in DOMAIN v |-> v[i]]
      BY <2>1
    <3> QED BY <3>2, <3>3
  <2>4. AsValue(f, AsInput(f, v)) = CommaValues(input)
    BY <1>2, ConsolePageAssumption DEF AsValue, AsInput
  <2> HIDE DEF input
  <2>5. Distinct(input) = input
    BY <2>2, DistinctKeeps
  <2> QED BY <2>3, <2>4, <2>5 DEF CommaValues
<1>3. CASE f \in RoleFields
  <2>1. /\ v \in [DOMAIN v -> Seq(names)]
        /\ \A c \in DOMAIN v : \A i, j \in DOMAIN v[c] : v[c][i] = v[c][j] => i = j
    BY <1>3, ConsolePageAssumption DEF Regular
  <2>2. ASSUME NEW c \in DOMAIN v PROVE Distinct(v[c]) = v[c]
    <3>1. /\ v[c] \in Seq(Texts)
          /\ \A i \in DOMAIN v[c] : Clean[v[c][i]] = v[c][i] /\ v[c][i] # Empty
      <4>1. v[c] \in Seq(names)
        BY <2>1
      <4> HIDE DEF names
      <4>2. \A i \in DOMAIN v[c] : v[c][i] \in names
        BY <4>1
      <4>3. names \subseteq Texts /\ \A w \in names : Clean[w] = w /\ w # Empty
        BY DEF names
      <4> QED BY <4>1, <4>2, <4>3
    <3> QED BY <2>1, <3>1, DistinctKeeps
  <2>3. AsValue(f, AsInput(f, v)) = ClientRolesValue(v)
    BY <1>3, ConsolePageAssumption DEF AsValue, AsInput
  <2> QED BY <2>1, <2>2, <2>3 DEF ClientRolesValue
<1> QED BY <1>1, <1>2, <1>3 DEF Fields

LEMMA PageStays ==
  ASSUME LoadsHold, PageFollowsRoute, UNCHANGED pageVars
  PROVE  PageKept
BY DEF PageKept, LoadsHold, PageFollowsRoute, pageVars, Requests, Permission

LEMMA PromptStays == ASSUME PromptHolds, UNCHANGED prompt PROVE PromptKept
BY DEF PromptKept, PromptHolds, Asking

LEMMA FormStays == ASSUME FormHolds, UNCHANGED form PROVE FormKept
BY DEF FormKept, FormHolds, Editing, NoForm, Forms

\* No change is sent.
LEMMA CallsStay ==
  ASSUME NothingUnconfirmed, CallsHold, calls' \subseteq calls
  PROVE  CallsKept
BY DEF CallsKept, NothingUnconfirmed, CallsHold, Asking

\* A form that is no edit of an account.
LEMMA PlainForm ==
  ASSUME form' = NoForm
  PROVE  FormKept
BY ConsolePageAssumption DEF FormKept, FormHolds, Editing, NoForm, Forms

\* Navigating starts a load of the hash, unless there is nothing to ask for.
LEMMA NavigateKeeps ==
  ASSUME Navigate(hash, configuration), hash' = hash
  PROVE  PageKept
<1> DEFINE need == Requests(hash, configuration)
<1>1. Requests(hash, TRUE) \subseteq need
  BY DEF Requests
<1>2. CASE Permission(hash.page) \subseteq Can /\ need # {}
  <2>1. loads' = {[route |-> hash, need |-> [q \in need |-> "waiting"], copy |-> Nothing]}
    BY <1>2 DEF Navigate
  <2> DEFINE l == [route |-> hash, need |-> [q \in need |-> "waiting"], copy |-> Nothing]
  <2>2. /\ loads' = {l} /\ l.route = hash
        /\ l = [route |-> l.route, need |-> l.need, copy |-> l.copy]
    BY <2>1
  <2> HIDE DEF l
  <2>3. LoadsHold'
    BY <2>2 DEF LoadsHold
  <2>4. PageFollowsRoute'
    BY <2>2 DEF PageFollowsRoute
  <2> QED BY <2>3, <2>4 DEF PageKept
<1>3. CASE ~(Permission(hash.page) \subseteq Can /\ need # {})
  <2>1. loads' = {}
    BY <1>3 DEF Navigate
  <2>2. LoadsHold'
    BY <2>1 DEF LoadsHold
  <2>3. PageFollowsRoute'
    <3>1. CASE need = {}
      <4>1. Requests(hash, TRUE) = {}
        BY <1>1, <3>1
      <4> QED BY <4>1 DEF PageFollowsRoute
    <3>2. CASE ~(Permission(hash.page) \subseteq Can)
      BY <3>2 DEF PageFollowsRoute
    <3> QED BY <1>3, <3>1, <3>2
  <2> QED BY <2>2, <2>3 DEF PageKept
<1> QED BY <1>2, <1>3

\* The hash is set, and a change of it leaves an event.
LEMMA MoveKeeps ==
  ASSUME LoadsHold, PageFollowsRoute, NEW r, MoveTo(r), Stay
  PROVE  PageKept
<1>1. CASE r = hash
  BY <1>1, PageStays DEF MoveTo, Stay, pageVars, PageKept, LoadsHold, PageFollowsRoute
<1>2. CASE r # hash
  BY <1>2 DEF MoveTo, Stay, PageKept, LoadsHold, PageFollowsRoute
<1> QED BY <1>1, <1>2

----------------------------------------------------------------------------
(* One lemma per task of the tab.                                          *)

\* A click, a dialog, an answer that only changes what is behind the page: the four
\* parts of the invariant are kept one by one.
LEMMA Together == ASSUME PageKept, PromptKept, FormKept, CallsKept PROVE PageIInv'
BY DEF PageKept, PromptKept, FormKept, CallsKept, PageIInv

LEMMA GoKeeps == ASSUME PageIInv, NEW r, Go(r) PROVE PageIInv'
BY MoveKeeps, PromptStays, FormStays, CallsStay, Together DEF Go, PageIInv

LEMMA HashChangeKeeps == ASSUME PageIInv, HashChange PROVE PageIInv'
BY NavigateKeeps, PromptStays, FormStays, CallsStay, Together DEF HashChange, PageIInv

LEMMA RetryKeeps == ASSUME PageIInv, Retry PROVE PageIInv'
BY NavigateKeeps, PromptStays, FormStays, CallsStay, Together DEF Retry, PageIInv

LEMMA PrefetchKeeps == ASSUME PageIInv, Prefetch PROVE PageIInv'
<1>1. PageKept
  BY DEF Prefetch, PageIInv, PageKept, LoadsHold, PageFollowsRoute
<1> QED BY <1>1, PromptStays, FormStays, CallsStay, Together DEF Prefetch, PageIInv

\* A load goes on, or is over and shows its page or its error.
LEMMA LoadGoesOn ==
  ASSUME LoadsHold, NEW l \in loads, NEW k, k.route = l.route,
         k = [route |-> k.route, need |-> k.need, copy |-> k.copy],
         loads' = (loads \ {l}) \cup {k}, hash' = hash, moved' = moved
  PROVE  PageKept
<1>1. LoadsHold'
  BY DEF LoadsHold
<1>2. PageFollowsRoute'
  BY DEF PageFollowsRoute
<1> QED BY <1>1, <1>2 DEF PageKept

LEMMA LoadEnds ==
  ASSUME LoadsHold, NEW l \in loads, shown'.what \in {"page", "error"}, shown'.route = l.route,
         loads' = loads \ {l}, hash' = hash, moved' = moved
  PROVE  PageKept
<1>1. LoadsHold'
  BY DEF LoadsHold
<1>2. PageFollowsRoute'
  BY DEF PageFollowsRoute, LoadsHold
<1> QED BY <1>1, <1>2 DEF PageKept

LEMMA HeadKeeps ==
  ASSUME PageIInv, NEW l \in loads, NEW q \in DOMAIN l.need, Headers(l, q) PROVE PageIInv'
<1> DEFINE k == [l EXCEPT !.need[q] = "reading"]
<1>1. l = [route |-> l.route, need |-> l.need, copy |-> l.copy]
  BY DEF PageIInv, LoadsHold
<1>2. k.route = l.route /\ k = [route |-> k.route, need |-> k.need, copy |-> k.copy]
  BY <1>1
<1>3. loads' = (loads \ {l}) \cup {k}
  BY DEF Headers
<1> HIDE DEF k
<1>4. PageKept
  BY <1>2, <1>3, LoadGoesOn DEF Headers, PageIInv
<1> QED BY <1>4, PromptStays, FormStays, CallsStay, Together DEF Headers, PageIInv

LEMMA BodyKeeps ==
  ASSUME PageIInv, NEW l \in loads, NEW q \in DOMAIN l.need, Body(l, q) PROVE PageIInv'
<1> DEFINE k == [l EXCEPT !.need[q] = "done",
                          !.copy = IF q = "user" THEN account[l.route.user] ELSE @]
<1>1. l = [route |-> l.route, need |-> l.need, copy |-> l.copy]
  BY DEF PageIInv, LoadsHold
<1>2. k.route = l.route /\ k = [route |-> k.route, need |-> k.need, copy |-> k.copy]
  <2>1. PICK r, n, c : l = [route |-> r, need |-> n, copy |-> c]
    BY <1>1
  <2> DEFINE d == IF q = "user" THEN account[l.route.user] ELSE l.copy
  <2>2. k = [l EXCEPT !.need[q] = "done", !.copy = d]
    OBVIOUS
  <2> HIDE DEF d, k
  <2>3. k = [route |-> r, need |-> [n EXCEPT ![q] = "done"], copy |-> d]
    BY <2>1, <2>2
  <2> QED BY <2>1, <2>3
<1>3. \/ loads' = loads \ {l} /\ shown' = PageOf(l.route, k.copy)
      \/ loads' = (loads \ {l}) \cup {k}
  BY DEF Body, Answered
<1> HIDE DEF k
<1>4. CASE loads' = loads \ {l} /\ shown' = PageOf(l.route, k.copy)
  <2>1. shown'.what \in {"page", "error"} /\ shown'.route = l.route
    BY <1>4 DEF PageOf
  <2>2. PageKept
    BY <1>4, <2>1, LoadEnds DEF Body, PageIInv
  <2> QED BY <2>2, PromptStays, FormStays, CallsStay, Together DEF Body, PageIInv
<1>5. CASE loads' = (loads \ {l}) \cup {k}
  <2>1. PageKept
    BY <1>2, <1>5, LoadGoesOn DEF Body, PageIInv
  <2> QED BY <2>1, PromptStays, FormStays, CallsStay, Together DEF Body, PageIInv
<1> QED BY <1>3, <1>4, <1>5

LEMMA FailKeeps ==
  ASSUME PageIInv, NEW l \in loads, NEW q \in DOMAIN l.need, Fail(l, q) PROVE PageIInv'
<1>1. shown'.what \in {"page", "error"} /\ shown'.route = l.route
  BY DEF Fail, Failed
<1>2. PageKept
  BY <1>1, LoadEnds DEF Fail, PageIInv
<1> QED BY <1>2, PromptStays, FormStays, CallsStay, Together DEF Fail, PageIInv

\* A change is sent that is neither destructive nor the save of an account.
LEMMA PlainCall ==
  ASSUME NothingUnconfirmed, CallsHold, NEW c, calls' = calls \cup {c},
         c.kind \notin Asking, c.kind # "user" \/ c.user = Nothing
  PROVE  CallsKept
BY DEF CallsKept, NothingUnconfirmed, CallsHold, Asking

LEMMA ClickKeeps ==
  ASSUME PageIInv, NEW kind \in Direct, NEW u, Click(kind, u) PROVE PageIInv'
<1>1. Change(kind, u).kind \notin Asking /\ Change(kind, u).kind # "user"
  BY DEF Change, Direct, Asking
<1>2. CallsKept
  BY <1>1, PlainCall DEF Click, SendChange, PageIInv
<1> QED BY <1>2, PageStays, PromptStays, FormStays, Together DEF Click, PageIInv

LEMMA AskConfirmationKeeps ==
  ASSUME PageIInv, NEW kind \in Asking, NEW u, AskConfirmation(kind, u) PROVE PageIInv'
<1>1. PromptKept
  BY DEF AskConfirmation, PromptKept, PromptHolds, Asking
<1> QED BY <1>1, PageStays, FormStays, CallsStay, Together DEF AskConfirmation, PageIInv

LEMMA DecideKeeps ==
  ASSUME PageIInv, NEW value \in {"confirm", "cancel"}, Decide(value) PROVE PageIInv'
<1>1. /\ prompt = [pc |-> prompt.pc, value |-> prompt.value, kind |-> prompt.kind,
                   user |-> prompt.user, agreed |-> prompt.agreed]
      /\ prompt.kind \in Asking
  BY DEF Decide, PageIInv, PromptHolds
<1>2. prompt' = [pc |-> "closing", value |-> value, kind |-> prompt.kind,
                 user |-> prompt.user, agreed |-> (value = "confirm")]
  BY <1>1 DEF Decide
<1>3. PromptKept
  BY <1>1, <1>2 DEF PromptKept, PromptHolds, Asking
<1> QED BY <1>3, PageStays, FormStays, CallsStay, Together DEF Decide, PageIInv

LEMMA DismissKeeps == ASSUME PageIInv, Dismiss PROVE PageIInv'
<1>1. /\ prompt = [pc |-> prompt.pc, value |-> prompt.value, kind |-> prompt.kind,
                   user |-> prompt.user, agreed |-> prompt.agreed]
      /\ prompt.value = "cancel" /\ prompt.kind \in Asking
  BY DEF Dismiss, PageIInv, PromptHolds
<1>2. prompt' = [pc |-> "closing", value |-> "cancel", kind |-> prompt.kind,
                 user |-> prompt.user, agreed |-> prompt.agreed]
  BY <1>1 DEF Dismiss
<1>3. PromptKept
  BY <1>1, <1>2 DEF PromptKept, PromptHolds, Asking
<1> QED BY <1>3, PageStays, FormStays, CallsStay, Together DEF Dismiss, PageIInv

\* What a prompt sends was confirmed, for nothing else sets its value.
LEMMA FinishedKeeps == ASSUME PageIInv, Finished PROVE PageIInv'
<1> DEFINE c == [kind |-> prompt.kind, user |-> prompt.user, agreed |-> prompt.agreed]
<1>1. PromptKept
  BY DEF Finished, PromptKept, PromptHolds
<1>2. CASE prompt.value = "confirm"
  <2>1. calls' = calls \cup {c}
    BY <1>2 DEF Finished, SendChange
  <2>2. c.agreed
    BY <1>2 DEF Finished, PageIInv, PromptHolds
  <2>3. c.kind # "user"
    BY DEF PageIInv, PromptHolds, Finished, Asking
  <2> HIDE DEF c
  <2>4. CallsKept
    BY <2>1, <2>2, <2>3 DEF PageIInv, CallsKept, NothingUnconfirmed, CallsHold, Asking
  <2> QED BY <1>1, <2>4, PageStays, FormStays, Together DEF Finished, PageIInv
<1>3. CASE prompt.value # "confirm"
  <2>1. calls' = calls
    BY <1>3 DEF Finished
  <2> QED BY <1>1, <2>1, PageStays, FormStays, CallsStay, Together DEF Finished, PageIInv
<1> QED BY <1>2, <1>3

\* The dialog of an enrolment.
LEMMA TotpKeeps ==
  ASSUME PageIInv, TotpDismiss \/ TotpClosed \/ SubmitTotp PROVE PageIInv'
<1>1. CallsKept
  <2>1. CASE SubmitTotp
    <3> DEFINE c == [kind |-> "totp", user |-> totp.user, secret |-> totp.secret]
    <3>1. c.kind \notin Asking /\ c.kind # "user"
      BY DEF Asking
    <3>2. calls' = calls \cup {c}
      BY <2>1 DEF SubmitTotp, SendChange
    <3> HIDE DEF c
    <3> QED BY <3>1, <3>2, PlainCall DEF PageIInv
  <2>2. CASE TotpDismiss \/ TotpClosed
    BY <2>2, CallsStay DEF TotpDismiss, TotpClosed, PageIInv
  <2> QED BY <2>1, <2>2
<1>2. UNCHANGED <<pageVars, prompt, form>>
  BY DEF TotpDismiss, TotpClosed, SubmitTotp
<1> QED BY <1>1, <1>2, PageStays, PromptStays, FormStays, Together DEF PageIInv

\* The form of an account opens with what its page shows.
LEMMA OpenUserDialogKeeps == ASSUME PageIInv, NEW u, OpenUserDialog(u) PROVE PageIInv'
<1> DEFINE copy == shown.copy
           values == [f \in Fields |-> AsInput(f, copy[f])]
<1>1. form' = [kind |-> "user", user |-> u, copy |-> copy, touched |-> {}, values |-> values]
  BY DEF OpenUserDialog
<1>2. /\ values = [f \in Fields |-> values[f]]
      /\ \A f \in Fields : values[f] = AsInput(f, copy[f])
  OBVIOUS
<1> HIDE DEF copy, values
<1>3. FormKept
  BY <1>1, <1>2 DEF FormKept, FormHolds, Editing, NoForm, Forms
<1> QED BY <1>3, PageStays, PromptStays, CallsStay, Together DEF OpenUserDialog, PageIInv

LEMMA TypeKeeps ==
  ASSUME PageIInv, NEW f \in Fields, NEW v, Type(f, v) PROVE PageIInv'
<1> DEFINE values == [form.values EXCEPT ![f] = v]
           touched == form.touched \cup {f}
<1>1. Editing
  BY DEF Type, Editing
<1>2. form = [kind |-> "user", user |-> form.user, copy |-> form.copy, values |-> form.values,
              touched |-> form.touched]
  BY <1>1 DEF PageIInv, FormHolds
<1>3. form' = [kind |-> "user", user |-> form.user, copy |-> form.copy, values |-> values,
               touched |-> touched]
  BY <1>2 DEF Type
<1>4. /\ values = [g \in Fields |-> values[g]]
      /\ \A g \in Fields \ touched : values[g] = AsInput(g, form.copy[g])
  BY <1>1 DEF PageIInv, FormHolds
<1> HIDE DEF values, touched
<1>5. FormKept
  BY <1>3, <1>4 DEF FormKept, FormHolds, Editing, NoForm, Forms
<1> QED BY <1>5, PageStays, PromptStays, CallsStay, Together DEF Type, PageIInv

LEMMA OpenDialogKeeps ==
  ASSUME PageIInv, NEW kind \in Forms, NEW u \in Users \cup {Nothing},
         OpenDialog(kind, u)
  PROVE  PageIInv'
<1>1. form' = [kind |-> kind, user |-> u] /\ (kind = "user" => u = Nothing)
  BY DEF OpenDialog
<1>2. FormKept
  BY <1>1 DEF FormKept, FormHolds, Editing, NoForm, Forms
<1> QED BY <1>2, PageStays, PromptStays, CallsStay, Together DEF OpenDialog, PageIInv

LEMMA CloseDialogKeeps ==
  ASSUME PageIInv, CloseDialog PROVE PageIInv'
BY PlainForm, PageStays, PromptStays, CallsStay, Together DEF CloseDialog, PageIInv

\* A save sends what differs from the copy: what was typed, and what was not regular.
LEMMA SubmitKeeps ==
  ASSUME PageIInv, Submit
  PROVE  PageIInv'
<1>1. UNCHANGED <<pageVars, prompt>>
  BY DEF Submit
<1>2. CASE Editing /\ DOMAIN Patch(form) = {}
  <2>1. form' = NoForm /\ calls' = calls
    BY <1>2 DEF Submit, Editing
  <2> QED BY <1>1, <2>1, PlainForm, PageStays, PromptStays, CallsStay, Together DEF PageIInv
<1>3. CASE Editing /\ DOMAIN Patch(form) # {}
  <2> DEFINE patch == Patch(form)
             c == [kind |-> "user", user |-> form.user, patch |-> patch,
                   copy |-> form.copy, touched |-> form.touched]
  <2>1. form' = form /\ calls' = calls \cup {c}
    BY <1>3 DEF Submit, SendChange, Editing
  <2>2. ASSUME NEW f \in DOMAIN patch
        PROVE  f \in Fields /\ (f \in form.touched \/ ~Regular(f, form.copy[f]))
    <3>1. f \in Fields /\ AsValue(f, form.values[f]) # form.copy[f]
      BY DEF Patch
    <3>2. CASE f \notin form.touched
      BY <1>3, <3>1, <3>2, RegularReadsBack DEF PageIInv, FormHolds
    <3> QED BY <3>1, <3>2
  <2> HIDE DEF patch
  <2>3. /\ c.kind \notin Asking
        /\ \A f \in DOMAIN c.patch : f \in Fields /\ (f \in c.touched \/ ~Regular(f, c.copy[f]))
    BY <2>2 DEF Asking
  <2> HIDE DEF c
  <2>4. CallsKept
    BY <2>1, <2>3 DEF PageIInv, CallsKept, NothingUnconfirmed, CallsHold, Asking
  <2> QED BY <1>1, <2>1, <2>4, PageStays, PromptStays, FormStays, Together DEF PageIInv
<1>4. CASE ~Editing
  <2> DEFINE c == Change(form.kind, form.user)
  <2>1. form' = form /\ calls' = calls \cup {c} /\ form # NoForm
    BY <1>4 DEF Submit, SendChange, Editing
  <2>2. c.kind \notin Asking /\ (c.kind # "user" \/ c.user = Nothing)
    BY <1>4, <2>1 DEF Change, Asking, Forms, Editing, PageIInv, FormHolds
  <2> HIDE DEF c
  <2>3. CallsKept
    BY <2>1, <2>2, PlainCall DEF PageIInv
  <2> QED BY <1>1, <2>1, <2>3, PageStays, PromptStays, FormStays, Together DEF PageIInv
<1> QED BY <1>2, <1>3, <1>4

\* Another operator changes an account.
LEMMA EditKeeps == ASSUME PageIInv, NEW u, NEW f, NEW v, Edit(u, f, v) PROVE PageIInv'
BY PageStays, PromptStays, FormStays, CallsStay, Together DEF Edit, PageIInv

\* What follows an answer leaves the page as it is, loads it again or moves on, and
\* leaves the form as it is or closes it.
LEMMA AnswerKeeps ==
  ASSUME PageIInv, NEW c \in calls, CallDone(c)
  PROVE  PageIInv'
<1>1. PageKept /\ FormKept
  <2> USE DEF Reload
  <2>1. CASE DeleteDone(c)
    BY <2>1, MoveKeeps, FormStays DEF DeleteDone, PageIInv
  <2>2. CASE SaveDone(c)
    <3>1. PICK r : (Navigate(hash, configuration) /\ UNCHANGED <<hash, moved>>)
                     \/ (MoveTo(r) /\ Stay)
      BY <2>2 DEF SaveDone
    <3>2. PageKept
      BY <3>1, NavigateKeeps, MoveKeeps DEF PageIInv
    <3> QED BY <2>2, <3>2, PlainForm DEF SaveDone
  <2>3. CASE PasswordDone(c)
    BY <2>3, PageStays, FormStays DEF PasswordDone, PageIInv
  <2>4. CASE EnrolDone(c)
    BY <2>4, PageStays, FormStays DEF EnrolDone, PageIInv
  <2>5. CASE ClientDone(c)
    <3>1. PageKept
      BY <2>5, NavigateKeeps, PageStays DEF ClientDone, PageIInv
    <3> QED BY <2>5, <3>1, PlainForm DEF ClientDone
  <2>6. CASE TotpDone(c)
    BY <2>6, NavigateKeeps, FormStays DEF TotpDone, PageIInv
  <2>7. CASE ActionDone(c)
    BY <2>7, NavigateKeeps, FormStays DEF ActionDone, PageIInv
  <2>8. CASE ItemRemoved(c)
    BY <2>8, NavigateKeeps, FormStays DEF ItemRemoved, PageIInv
  <2>9. CASE KeyRegistered(c)
    BY <2>9, NavigateKeeps, FormStays DEF KeyRegistered, PageIInv
  <2>10. CASE IdentityDone(c)
    BY <2>10, NavigateKeeps, PlainForm DEF IdentityDone
  <2> QED BY <2>1, <2>2, <2>3, <2>4, <2>5, <2>6, <2>7, <2>8, <2>9, <2>10 DEF CallDone
<1>2. CallsKept /\ PromptKept
  BY CallsStay, PromptStays DEF CallDone, PageIInv
<1> QED BY <1>1, <1>2, Together

LEMMA CallFailsKeeps == ASSUME PageIInv, NEW c, CallFails(c) PROVE PageIInv'
BY PageStays, PromptStays, FormStays, CallsStay, Together DEF CallFails, PageIInv

----------------------------------------------------------------------------
(* The theorems about the page                                             *)

\* A tab starts without loads, dialogs and changes, and with a hashchange to come.
LEMMA PageInit == ASSUME BrowserInit PROVE PageIInv
<1>1. LoadsHold /\ PageFollowsRoute
  BY DEF BrowserInit, LoadsHold, PageFollowsRoute
<1>2. PromptHolds
  BY DEF BrowserInit, PromptHolds
<1>3. FormHolds
  BY ConsolePageAssumption DEF BrowserInit, FormHolds, Editing, NoForm, Forms
<1>4. NothingUnconfirmed /\ CallsHold
  BY DEF BrowserInit, NothingUnconfirmed, CallsHold
<1> QED BY <1>1, <1>2, <1>3, <1>4 DEF PageIInv

\* Every step keeps the invariant, whatever task comes next.
LEMMA PageStep ==
  ASSUME PageIInv, [BrowserNext]_browserVars PROVE PageIInv'
<1>1. CASE PageNext
  BY <1>1, GoKeeps, HashChangeKeeps, RetryKeeps, PrefetchKeeps, HeadKeeps, BodyKeeps, FailKeeps
     DEF PageNext
<1>2. CASE ActionNext
  BY <1>2, ClickKeeps, AskConfirmationKeeps, DecideKeeps, DismissKeeps, FinishedKeeps, TotpKeeps,
     CallFailsKeeps, AnswerKeeps
     DEF ActionNext
<1>3. CASE FormNext
  BY <1>3, OpenUserDialogKeeps, EditKeeps, TypeKeeps, OpenDialogKeeps, CloseDialogKeeps, SubmitKeeps
     DEF FormNext
<1>4. CASE UNCHANGED browserVars
  <2>1. UNCHANGED <<pageVars, prompt, form, calls>>
    BY <1>4 DEF browserVars
  <2> QED BY <2>1, PageStays, PromptStays, FormStays, CallsStay, Together DEF PageIInv
<1> QED BY <1>1, <1>2, <1>3, <1>4 DEF BrowserNext

LEMMA PageInvariance == BrowserSpec => []PageIInv
<1>1. BrowserInit => PageIInv
  BY PageInit
<1>2. PageIInv /\ [BrowserNext]_browserVars => PageIInv'
  BY PageStep
<1> QED BY <1>1, <1>2, PTL DEF BrowserSpec

\* However loads, answers and the history of the browser interleave, once nothing is
\* loading a page with requests of its own shows what the location says (navigate
\* and the render functions of admin-console.js).
THEOREM PagesFollowRoutes == BrowserSpec => []PageFollowsRoute
<1>1. PageIInv => PageFollowsRoute
  BY DEF PageIInv
<1> QED BY <1>1, PageInvariance, PTL

\* No destructive request is in flight but by a prompt the operator confirmed, although
\* all prompts share one dialog, which keeps its returnValue (askConfirmation).
THEOREM DestructionIsConfirmed == BrowserSpec => []NothingUnconfirmed
<1>1. PageIInv => NothingUnconfirmed
  BY DEF PageIInv
<1> QED BY <1>1, PageInvariance, PTL

\* A save overwrites what another operator changed only where this operator typed, or
\* where the value on the page was not regular: whatever the form shows and reads back
\* unchanged is not sent unless it was typed (openUserDialog, commaValues,
\* clientRolesValue and submitUserForm).
THEOREM OthersEditsSurvive == BrowserSpec => []EditsSurvive
<1>1. PageIInv => EditsSurvive
  BY DEF PageIInv, CallsHold, EditsSurvive
<1> QED BY <1>1, PageInvariance, PTL
============================================================================
