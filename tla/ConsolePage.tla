---------------------------- MODULE ConsolePage ----------------------------
(***************************************************************************)
(* One tab of the administration console (src/src/ui/admin-console.js):    *)
(* the page that follows the location hash, the prompt before destructive  *)
(* actions, the forms and the enrolment of an authenticator.               *)
(*                                                                         *)
(* A browser runs one task at a time.  An action is a task with the        *)
(* microtasks it leaves behind: a click, an event, a part of a response.   *)
(* While a dialog is open nothing else can be clicked, but the hash may    *)
(* change (back, forward).  A request that is answered with 401 takes the  *)
(* tab away (Console).  The list pages' offsets and layout are left out.   *)
(***************************************************************************)
EXTENDS Naturals, FiniteSets, Sequences

CONSTANTS Users,
          TextFields, ListFields, RoleFields, \* e-mail and names; roles and groups; clientRoles
          Texts,    \* what a text field, or a list between two commas, may hold
          Clean,    \* Clean[w]: what an input and trim() leave of w
          Lists,    \* the lists of names an account may have
          RoleMaps, \* its roles by client
          Can,      \* the permissions of the session, by what they let one read or do
          MaxCalls, \* bound on the changes in flight
          Empty,    \* the empty text
          Nothing

Fields == TextFields \cup ListFields \cup RoleFields

\* A list of names is the sequence of the texts its commas separate: those between
\* two names and those inside one ("/Sales, EMEA"), after which a text is inner.
Separated == [text : Texts, inner : BOOLEAN]

Pages == {"overview", "users", "clients", "federation", "audit", "system"}
Routes == [page : Pages, user : {Nothing}] \cup [page : {"users"}, user : Users]
Resources == {"configuration", "users", "audit", "credentials"}
Permissions == Resources \cup {"write", "delete", "revoke", "federation", "register"}

Asking == {"revoke", "delete", "disable", "removeKey", "unlink"} \* after a prompt
Direct == {"unlock", "registerKey", "enrol"}
Forms == {"user", "password", "identity", "client"}

ASSUME ConsolePageAssumption ==
  /\ Can \subseteq Permissions /\ MaxCalls \in Nat
  /\ Nothing \notin Users \cup Forms \cup RoleMaps
  /\ TextFields \cap ListFields = {} /\ RoleFields \cap (TextFields \cup ListFields) = {}
  /\ Empty \in Texts /\ Clean \in [Texts -> Texts]
  /\ \A w \in Texts : Clean[Clean[w]] = Clean[w]
  /\ Lists \subseteq Seq(Separated)
  /\ \A m \in RoleMaps : m \in [DOMAIN m -> Seq(Texts \ {Empty})]

VARIABLES hash,          \* the route in the location
          moved,         \* a hashchange event is waiting
          loads,         \* loads in flight: a route and the state of each request
          shown,         \* the content of the page
          configuration, \* whether state.configuration is cached
          prompt,        \* the confirm dialog and who waits for it
          form,          \* the form dialog that is open
          totp,          \* the dialog of an enrolment and state.totpUserId
          calls,         \* changes in flight
          account        \* account[u]: the fields of u as the server returns them

pageVars == <<hash, moved, loads, shown, configuration>>
browserVars == <<pageVars, prompt, form, totp, calls, account>>

Loading == [what |-> "loading"]
Denied == [what |-> "denied"]
Failed(r) == [what |-> "error", route |-> r]
PageOf(r, copy) == [what |-> "page", route |-> r, copy |-> copy]
NoForm == [kind |-> Nothing]

----------------------------------------------------------------------------
(* Pages                                                                   *)

Permission(page) ==
  CASE page = "users" -> {"users"} [] page = "audit" -> {"audit"}
    [] page \in {"clients", "federation", "system"} -> {"configuration"} [] OTHER -> {}

\* What the render function of each page asks for.
OverviewRequests == {"configuration", "users", "audit", "health"}
DirectoryRequests == {"users"}
UserRequests == {"user", "credentials", "identities"}
ClientRequests == {"configuration"}
FederationRequests == {"configuration"}
AuditRequests == {"audit"}
SystemRequests == {"configuration", "health"}

\* Without what the session may not read; the configuration is asked for once.
Requests(r, cached) ==
  LET all == CASE r.user # Nothing -> UserRequests
               [] r.page = "overview" -> OverviewRequests
               [] r.page = "users" /\ r.user = Nothing -> DirectoryRequests
               [] r.page = "clients" -> ClientRequests
               [] r.page = "federation" -> FederationRequests
               [] r.page = "audit" -> AuditRequests
               [] r.page = "system" -> SystemRequests
  IN (all \ (Resources \ Can)) \ (IF cached THEN {"configuration"} ELSE {})

Reads(l, q) == q \in DOMAIN l.need /\ l.need[q] = "reading"

\* What a load that is aborted leaves on the page.  A request without a response
\* rejects, and the load with it, but not the one for the health, whose failure is
\* caught.  A response being read becomes null, which only the overview can bear,
\* and only for the configuration: elsewhere the page fails.
Leftover(l) ==
  LET in(s) == {q \in DOMAIN l.need : l.need[q] = s}
      null == in("reading") \ (IF l.route.page = "overview" THEN {"configuration"} ELSE {})
  IN IF in("waiting") \ {"health"} # {} THEN {}
     ELSE IF null # {} THEN {Failed(l.route)}
     ELSE {PageOf(l.route, l.copy)}

\* Mutant: the old load is not aborted.
NavigateOn(h, cached) ==
  LET need == Requests(h, cached)  ok == Permission(h.page) \subseteq Can IN
  /\ loads' = loads \cup IF ok /\ need # {}
                           THEN {[route |-> h, need |-> [q \in need |-> "waiting"], copy |-> Nothing]}
                           ELSE {}
  /\ shown' = IF ~ok THEN Denied ELSE IF need = {} THEN PageOf(h, Nothing) ELSE Loading
  /\ UNCHANGED configuration

\* navigate: the old load is aborted and the new one begins, unless the page is
\* denied, or everything is cached.  What the old one leaves behind comes later than
\* what is shown at once, and may come before or after a page from the cache; it may
\* be a configuration that is null.
Navigate(h, cached) ==
  LET need == Requests(h, cached)
      ok == Permission(h.page) \subseteq Can
      late == UNION {Leftover(l) : l \in loads}
      now == IF ~ok THEN Denied ELSE IF need = {} THEN PageOf(h, Nothing) ELSE Loading
  IN /\ loads' = IF ok /\ need # {}
                   THEN {[route |-> h, need |-> [q \in need |-> "waiting"], copy |-> Nothing]}
                   ELSE {}
     /\ shown' \in IF late = {} THEN {now} ELSE late \cup (IF ok /\ need = {} THEN {now} ELSE {})
     /\ configuration' = (cached /\ \A l \in loads : ~Reads(l, "configuration"))

\* The hash changes: by a link, by the history, or by the script.
MoveTo(r) == hash' = r /\ moved' = (moved \/ r # hash)
Stay == UNCHANGED <<loads, shown, configuration>>

Go(r) ==
  /\ r # hash /\ MoveTo(r) /\ Stay
  /\ UNCHANGED <<prompt, form, totp, calls, account>>

HashChange ==
  /\ moved /\ moved' = FALSE
  /\ Navigate(hash, configuration)
  /\ UNCHANGED <<hash, prompt, form, totp, calls, account>>

\* No dialog is open: the page can be clicked on.
Idle == prompt.pc = "closed" /\ form = NoForm /\ ~totp.open

\* Try again, refresh, and the pages of a list.
Retry ==
  /\ Idle /\ shown.what \in {"page", "error"}
  /\ Navigate(hash, configuration)
  /\ UNCHANGED <<hash, moved, prompt, form, totp, calls, account>>

\* The head of a response.
Headers(l, q) ==
  /\ l.need[q] = "waiting"
  /\ loads' = (loads \ {l}) \cup {[l EXCEPT !.need[q] = "reading"]}
  /\ UNCHANGED <<hash, moved, shown, configuration, prompt, form, totp, calls, account>>

\* A request has its answer (ok), or none.  The last answer renders the page.
Answered(l, q) ==
  LET done == [l EXCEPT !.need[q] = "done",
                        !.copy = IF q = "user" THEN account[l.route.user] ELSE @]
  IN IF \A o \in DOMAIN done.need : done.need[o] = "done"
       THEN loads' = loads \ {l} /\ shown' = PageOf(l.route, done.copy)
       ELSE loads' = (loads \ {l}) \cup {done} /\ UNCHANGED shown

Body(l, q) ==
  /\ l.need[q] = "reading" \/ (q = "health" /\ l.need[q] = "waiting")
  /\ Answered(l, q)
  /\ configuration' = (configuration \/ q = "configuration")
  /\ UNCHANGED <<hash, moved, prompt, form, totp, calls, account>>

\* Mutant: a request that fails is repeated.
FailAgain(l, q) ==
  /\ q # "health" /\ l.need[q] # "done"
  /\ loads' = (loads \ {l}) \cup {[l EXCEPT !.need[q] = "waiting"]}
  /\ UNCHANGED <<hash, moved, shown, configuration, prompt, form, totp, calls, account>>

\* A failure shows the error; the configuration may still arrive later.
Fail(l, q) ==
  /\ q # "health" /\ l.need[q] # "done"
  /\ loads' = loads \ {l} /\ shown' = Failed(l.route)
  /\ configuration' \in {configuration, configuration \/ "configuration" \in DOMAIN l.need}
  /\ UNCHANGED <<hash, moved, prompt, form, totp, calls, account>>

\* bootstrap, a registration and the system page ask for the configuration apart
\* from any load.
Prefetch ==
  /\ "configuration" \in Can /\ ~configuration
  /\ configuration' = TRUE
  /\ UNCHANGED <<hash, moved, loads, shown, prompt, form, totp, calls, account>>

----------------------------------------------------------------------------
(* Actions of the operator                                                 *)

\* The buttons a session has.
Offered(kind) ==
  Can \cap (CASE kind = "user" -> {"write"} [] kind = "delete" -> {"delete"}
              [] kind = "revoke" -> {"revoke"} [] kind = "client" -> {"register"}
              [] kind \in {"identity", "unlink"} -> {"federation"}
              [] OTHER -> {"credentials"}) # {}

\* The page of u is there to be clicked on.
Sees(u) == Idle /\ shown.what = "page" /\ shown.route.user = u

SendChange(c) == c \notin calls /\ Cardinality(calls) < MaxCalls /\ calls' = calls \cup {c}
Change(kind, u) == [kind |-> kind, user |-> u]

\* Unlock, passkey registration and the start of an enrolment.
Click(kind, u) ==
  /\ Sees(u) /\ Offered(kind)
  /\ SendChange(Change(kind, u))
  /\ UNCHANGED <<pageVars, prompt, form, totp, account>>

\* Mutant: the dialog keeps its returnValue.
AskAgain(kind, u) ==
  /\ Sees(u) /\ Offered(kind)
  /\ prompt' = [pc |-> "open", value |-> prompt.value, kind |-> kind, user |-> u, agreed |-> FALSE]
  /\ UNCHANGED <<pageVars, form, totp, calls, account>>

\* askConfirmation; agreed (history): this prompt was confirmed.
AskConfirmation(kind, u) ==
  /\ Sees(u) /\ Offered(kind)
  /\ prompt' = [pc |-> "open", value |-> "cancel", kind |-> kind, user |-> u, agreed |-> FALSE]
  /\ UNCHANGED <<pageVars, form, totp, calls, account>>

\* One of the two buttons; Escape is the second.
Decide(value) ==
  /\ prompt.pc = "open"
  /\ prompt' = [prompt EXCEPT !.pc = "closing", !.value = value, !.agreed = value = "confirm"]
  /\ UNCHANGED <<pageVars, form, totp, calls, account>>

\* The browser closes the dialog by itself and keeps its value.
Dismiss ==
  /\ prompt.pc = "open"
  /\ prompt' = [prompt EXCEPT !.pc = "closing"]
  /\ UNCHANGED <<pageVars, form, totp, calls, account>>

\* The close event resolves the prompt.
Finished ==
  LET c == [kind |-> prompt.kind, user |-> prompt.user, agreed |-> prompt.agreed] IN
  /\ prompt.pc = "closing"
  /\ IF prompt.value = "confirm" THEN SendChange(c) ELSE UNCHANGED calls
  /\ prompt' = [pc |-> "closed", value |-> prompt.value]
  /\ UNCHANGED <<pageVars, form, totp, account>>

----------------------------------------------------------------------------
(* Forms                                                                   *)

Stored(f) ==
  IF f \in TextFields THEN Texts ELSE IF f \in ListFields THEN Lists ELSE RoleMaps

\* A value as its input shows it.  A list is joined by commas, which does not tell
\* where a name ends; a text and the JSON of the roles appear as they are.
AsInput(f, v) == IF f \in ListFields THEN [i \in DOMAIN v |-> v[i].text] ELSE v

\* The texts of s, cleaned, without the empty ones and without repetitions.
Distinct(s) ==
  LET w == [i \in DOMAIN s |-> Clean[s[i]]]
      first == {i \in DOMAIN s : w[i] # Empty /\ \A j \in 1 .. i - 1 : w[j] # w[i]}
      position(i) == Cardinality({j \in first : j <= i})
  IN [n \in 1 .. Cardinality(first) |-> w[CHOOSE i \in first : position(i) = n]]

\* An input is split at every comma.
CommaValues(input) ==
  LET names == Distinct(input) IN [i \in DOMAIN names |-> [text |-> names[i], inner |-> FALSE]]

ClientRolesValue(input) == [c \in DOMAIN input |-> Distinct(input[c])]

\* What is read from an input.
AsValue(f, input) ==
  IF f \in TextFields THEN Clean[input]
  ELSE IF f \in ListFields THEN CommaValues(input) ELSE ClientRolesValue(input)

\* What can be typed; Nothing stands for a text that is no JSON object of roles.
Inputs(f) == {AsInput(f, v) : v \in Stored(f)} \cup (IF f \in RoleFields THEN {Nothing} ELSE {})

OpenUserDialog(u) ==
  /\ Sees(u) /\ Offered("user")
  /\ form' = [kind |-> "user", user |-> u, copy |-> shown.copy, touched |-> {},
              values |-> [f \in Fields |-> AsInput(f, shown.copy[f])]]
  /\ UNCHANGED <<pageVars, prompt, totp, calls, account>>

Type(f, input) ==
  /\ form.kind = "user" /\ form.user # Nothing
  /\ form' = [form EXCEPT !.values[f] = input, !.touched = @ \cup {f}]
  /\ UNCHANGED <<pageVars, prompt, totp, calls, account>>

\* The dialogs without a copy: a new user, a password, an identity, a client.
OpenDialog(kind, u) ==
  /\ Offered(kind)
  /\ IF kind \in {"user", "client"}
       THEN /\ Idle /\ shown.what = "page" /\ shown.route.user = Nothing /\ u = Nothing
            /\ shown.route.page \in IF kind = "client" THEN {"clients"} ELSE {"overview", "users"}
       ELSE Sees(u)
  /\ form' = [kind |-> kind, user |-> u]
  /\ UNCHANGED <<pageVars, prompt, totp, calls, account>>

CloseDialog ==
  /\ form # NoForm /\ form' = NoForm
  /\ UNCHANGED <<pageVars, prompt, totp, calls, account>>

\* Mutant: the whole form is sent.
PatchAll(q) == [f \in Fields |-> AsValue(f, q.values[f])]

\* The fields whose inputs, read back, differ from the copy the page was loaded with.
Patch(q) ==
  LET new == [f \in Fields |-> AsValue(f, q.values[f])]
  IN [f \in {g \in Fields : new[g] # q.copy[g]} |-> new[f]]

\* Otherwise the form shows an error.
Readable(q) == \A f \in RoleFields : q.values[f] # Nothing

\* The button of the dialog is busy while its last request is in flight.
Submit ==
  /\ form # NoForm /\ \A c \in calls : c.kind # form.kind
  /\ IF form.kind = "user" /\ form.user # Nothing
       THEN /\ Readable(form)
            /\ IF DOMAIN Patch(form) = {}
                 THEN form' = NoForm /\ UNCHANGED calls
                 ELSE /\ SendChange([kind |-> "user", user |-> form.user, patch |-> Patch(form),
                                     copy |-> form.copy, touched |-> form.touched])
                      /\ UNCHANGED form
       ELSE SendChange(Change(form.kind, form.user)) /\ UNCHANGED form
  /\ UNCHANGED <<pageVars, prompt, totp, account>>

----------------------------------------------------------------------------
(* Enrolment                                                               *)

\* The dialog opens, or changes, with the secret of u.
Enrolled(u) == [totp EXCEPT !.open = TRUE, !.user = u, !.secret = u]

CloseTotp == [totp EXCEPT !.open = FALSE, !.closing = TRUE]

TotpDismiss ==
  /\ totp.open /\ totp' = CloseTotp
  /\ UNCHANGED <<pageVars, prompt, form, calls, account>>

\* The close event wipes the dialog, also if it is open again.
TotpClosed ==
  /\ totp.closing
  /\ totp' = [open |-> totp.open, closing |-> FALSE, user |-> Nothing, secret |-> Nothing]
  /\ UNCHANGED <<pageVars, prompt, form, calls, account>>

SubmitTotp ==
  /\ totp.open /\ \A c \in calls : c.kind # "totp"
  /\ SendChange([kind |-> "totp", user |-> totp.user, secret |-> totp.secret])
  /\ UNCHANGED <<pageVars, prompt, form, totp, account>>

----------------------------------------------------------------------------
(* The answers to changes                                                  *)

\* An error is reported; the dialogs stay.
CallFails(c) ==
  /\ calls' = calls \ {c}
  /\ UNCHANGED <<pageVars, prompt, form, totp, account>>

\* What is done afterwards navigates at the hash of that moment.
Reload == Navigate(hash, configuration) /\ UNCHANGED <<hash, moved>>

\* The list is shown after a deletion.
DeleteDone(c) ==
  /\ c.kind = "delete"
  /\ MoveTo([page |-> "users", user |-> Nothing]) /\ Stay
  /\ UNCHANGED <<form, totp, account>>

\* The page of the user is shown after a save.
SaveDone(c) ==
  /\ c.kind = "user" /\ form' = NoForm /\ UNCHANGED totp
  /\ IF c.user = Nothing THEN UNCHANGED account
     ELSE account' = [account EXCEPT ![c.user] =
                        [f \in Fields |-> IF f \in DOMAIN c.patch THEN c.patch[f] ELSE @[f]]]
  /\ \E saved \in IF c.user = Nothing THEN Users ELSE {c.user} :
       LET r == [page |-> "users", user |-> saved] IN
       IF hash = r THEN Reload ELSE MoveTo(r) /\ Stay

\* The password was set, but event.currentTarget is null after the await: the
\* form shows an error and stays.
PasswordDone(c) == c.kind = "password" /\ UNCHANGED <<pageVars, form, totp, account>>

EnrolDone(c) ==
  /\ c.kind = "enrol" /\ totp' = Enrolled(c.user)
  /\ UNCHANGED <<pageVars, form, account>>

\* The credentials of the client are shown.
ClientDone(c) ==
  /\ c.kind = "client" /\ form' = NoForm
  /\ IF hash.page = "clients" THEN Reload ELSE UNCHANGED pageVars
  /\ UNCHANGED <<totp, account>>

TotpDone(c) ==
  /\ c.kind = "totp" /\ c.user # Nothing /\ totp' = CloseTotp /\ Reload
  /\ UNCHANGED <<form, account>>

\* Unlocking, revoking the sessions, and removing an authenticator.
ActionDone(c) ==
  /\ c.kind \in {"unlock", "revoke", "disable"} /\ Reload
  /\ UNCHANGED <<form, totp, account>>

\* A passkey or an external identity was removed.
ItemRemoved(c) ==
  /\ c.kind \in {"removeKey", "unlink"} /\ Reload
  /\ UNCHANGED <<form, totp, account>>

\* Three calls in a row: options, the browser's key, its verification.
KeyRegistered(c) ==
  /\ c.kind = "registerKey" /\ Reload
  /\ UNCHANGED <<form, totp, account>>

IdentityDone(c) ==
  /\ c.kind = "identity" /\ form' = NoForm /\ Reload
  /\ UNCHANGED <<totp, account>>

CallDone(c) ==
  /\ calls' = calls \ {c}
  /\ \/ DeleteDone(c) \/ SaveDone(c) \/ PasswordDone(c) \/ EnrolDone(c)
     \/ ClientDone(c) \/ TotpDone(c) \/ ActionDone(c) \/ ItemRemoved(c)
     \/ KeyRegistered(c) \/ IdentityDone(c)
  /\ UNCHANGED prompt

\* Another operator.
Edit(u, f, v) ==
  /\ account[u][f] # v
  /\ account' = [account EXCEPT ![u][f] = v]
  /\ UNCHANGED <<pageVars, prompt, form, totp, calls>>

BrowserInit ==
  /\ hash \in Routes /\ moved = TRUE /\ loads = {} /\ shown = Loading
  /\ configuration = FALSE
  /\ prompt = [pc |-> "closed", value |-> Empty] /\ form = NoForm /\ calls = {}
  /\ totp = [open |-> FALSE, closing |-> FALSE, user |-> Nothing, secret |-> Nothing]
  /\ account = [u \in Users |-> [f \in Fields |-> IF f \in TextFields THEN Empty ELSE <<>>]]

PageNext ==
  \/ \E r \in Routes : Go(r)
  \/ HashChange \/ Retry \/ Prefetch
  \/ \E l \in loads : \E q \in DOMAIN l.need : Headers(l, q) \/ Body(l, q) \/ Fail(l, q)

ActionNext ==
  \/ \E u \in Users : \/ \E kind \in Direct : Click(kind, u)
                      \/ \E kind \in Asking : AskConfirmation(kind, u)
  \/ \E value \in {"confirm", "cancel"} : Decide(value)
  \/ Dismiss \/ Finished \/ TotpDismiss \/ TotpClosed \/ SubmitTotp
  \/ \E c \in calls : CallFails(c) \/ CallDone(c)

FormNext ==
  \/ \E u \in Users : OpenUserDialog(u) \/ \E f \in Fields : \E v \in Stored(f) : Edit(u, f, v)
  \/ \E f \in Fields : \E input \in Inputs(f) : Type(f, input)
  \/ \E kind \in Forms, u \in Users \cup {Nothing} : OpenDialog(kind, u)
  \/ CloseDialog \/ Submit

BrowserNext == PageNext \/ ActionNext \/ FormNext

BrowserSpec == BrowserInit /\ [][BrowserNext]_browserVars

\* Responses arrive or fail, and events are delivered.
Fairness == WF_browserVars(HashChange \/ \E l \in loads : \E q \in DOMAIN l.need : Body(l, q) \/ Fail(l, q))

----------------------------------------------------------------------------
(* Properties                                                              *)

\* Once nothing is loading, a page with requests of its own shows what the location
\* says, whatever was under way when the operator or the script moved on.  (A page
\* that is denied or cached can be overwritten by what an aborted load leaves.)
PageFollowsRoute ==
  ~moved /\ loads = {} /\ Requests(hash, TRUE) # {} /\ Permission(hash.page) \subseteq Can
    => shown.what \in {"page", "error"} /\ shown.route = hash

\* No destructive request is sent but by a prompt the operator confirmed.
NothingUnconfirmed == \A c \in calls : c.kind \in Asking => c.agreed

\* A value that the form can show and read back: its texts have no line breaks or
\* spaces at their ends, no name of a list holds a comma or is empty, and nothing is
\* listed twice.
Regular(f, v) ==
  LET texts == {w \in Texts : Clean[w] = w}
      names == texts \ {Empty}
  IN IF f \in TextFields THEN v \in texts
     ELSE IF f \in ListFields
       THEN /\ v \in Seq([text : names, inner : {FALSE}])
            /\ \A i, j \in DOMAIN v : v[i].text = v[j].text => i = j
     ELSE /\ v \in [DOMAIN v -> Seq(names)]
          /\ \A c \in DOMAIN v : \A i, j \in DOMAIN v[c] : v[c][i] = v[c][j] => i = j

\* What another operator has changed since the page was loaded is overwritten only
\* where this operator typed, or where the page had a value that is not regular: such a
\* field is sent although nobody typed, and submitUserForm does not prevent it.
EditsSurvive ==
  \A c \in calls : c.kind = "user" /\ c.user # Nothing =>
    \A f \in DOMAIN c.patch :
      account[c.user][f] # c.copy[f] => f \in c.touched \/ ~Regular(f, c.copy[f])

\* A page that is loading is shown or fails, unless the operator moves on.
LoadingEnds == shown = Loading ~> shown # Loading \/ moved
============================================================================
