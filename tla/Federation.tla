----------------------------- MODULE Federation -----------------------------
(***************************************************************************)
(* Sign-in through an upstream identity provider: the routes of            *)
(* src/src/routes/federation.js, the OIDC broker (federation/oidc.js), the *)
(* SAML broker (federation/saml-broker.js) with its replay cache, the      *)
(* one-use states of federation/state-store.js and the account resolver of *)
(* src/src/app.js, over the record store and the links of IdentityLinks.   *)
(*                                                                         *)
(* A browser interaction starts flows; upstream answers come back in any   *)
(* order, late, twice, or to the wrong flow; several callbacks and         *)
(* completions run at once, in several processes.  A statement on the      *)
(* store is a step; checks on what a request holds belong to the step      *)
(* before them.                                                            *)
(***************************************************************************)
EXTENDS IdentityLinks, FiniteSets

CONSTANTS Interactions, \* sign-in interactions of the OpenID Provider
          Flows,        \* what initiate makes: OIDC state and nonce, or SAML
                        \* RelayState and request id (random)
          Answers,      \* upstream answers: codes, or SAML responses with an assertion
          Handles,      \* completion handles (random)
          Requests,     \* callback and completion requests in flight
          RequestTtl,   \* lifetime of a flow (300 s)
          HandleTtl,    \* lifetime of a completion handle (120 s)
          AnswerTtl,    \* how long a SAML answer is accepted (age and skew)
          ReplayTtl,    \* lifetime of a replay claim
          MaxVersion,   \* bound on security_version
          MaxTraffic,   \* bound on the flows and answers together
          MaxTime       \* bound on the clock

ASSUME FederationAssumption ==
  /\ RequestTtl \in Nat \ {0} /\ HandleTtl \in Nat \ {0} /\ AnswerTtl \in Nat \ {0}
  /\ ReplayTtl \in Nat /\ ReplayTtl >= AnswerTtl   \* createSamlBroker refuses less
  /\ MaxTime \in Nat /\ MaxVersion \in Nat /\ MaxTraffic \in Nat

\* What initiate stores, what comes back, and what completeCallback stores.
FlowRow == [proto : {"oidc", "saml"}, inter : Interactions, exp : Nat, used : BOOLEAN, asked : BOOLEAN]
AnswerRow == [flow : Flows, sub : Subjects, until : Nat]
HandleRow == [flow : Flows, inter : Interactions, sub : Subjects, user : Users,
              version : Nat, exp : Nat, used : BOOLEAN]

ASSUME NoneAssumption == None \notin FlowRow \cup AnswerRow \cup HandleRow

VARIABLES flow,    \* flow[f]: the stored state of flow f
          answer,  \* answer[r]: what the upstream provider said
          claims,  \* claims[x][r]: when the claim of r's response or assertion expires
          handle,  \* handle[h]: the stored completion handle
          req,     \* req[q]: a callback or completion request and what it holds
          outcome, \* outcome[i]: whether interaction i is open, has a login result, or is closed
          version, \* version[u]: users.security_version
          locked,  \* accounts locked by password failures
          now,
          signIns  \* signIns[f]: logins handed to the provider for flow f (history)

rest == <<flow, answer, claims, handle, req, outcome, version, locked, now, signIns>>
vars == <<linkVars, rest>>

Idle == [pc |-> "idle"]
Done(q) == req' = [req EXCEPT ![q] = Idle]

Init ==
  /\ standing \in [Users -> {"fresh", "enabled"}]
  /\ login \in [Users -> Names \cup {None}]
  /\ \A u \in Users : (login[u] = None) = (standing[u] = "fresh")
  /\ \A u, v \in Users : u # v /\ login[u] # None => login[u] # login[v]
  /\ link \in [Subjects -> {None} \cup {u \in Users : standing[u] = "enabled"}]
  /\ \A s, o \in Subjects : s # o /\ link[s] # None => link[s] # link[o]
  /\ flow = [f \in Flows |-> None]
  /\ answer = [r \in Answers |-> None]
  /\ claims = [x \in {"response", "assertion"} |-> [r \in Answers |-> None]]
  /\ handle = [h \in Handles |-> None]
  /\ req = [q \in Requests |-> Idle]
  /\ outcome = [i \in Interactions |-> [status |-> "open"]]
  /\ version = [u \in Users |-> 0]
  /\ locked = {} /\ now = 0
  /\ signIns = [f \in Flows |-> 0]

\* An interaction that interactionDetails still returns.
Open(i) == outcome[i].status # "closed"

\* A stored flow that find returns and consume can still claim.
Pending(f) == flow[f] # None /\ flow[f].exp > now /\ ~flow[f].used

Bounded ==
  Cardinality({f \in Flows : flow[f] # None}) + Cardinality({r \in Answers : answer[r] # None})
    < MaxTraffic

----------------------------------------------------------------------------
(* The start of a flow, and the upstream provider.                         *)

\* What initiate of the OIDC broker stores, and what start of the SAML broker does:
\* asked is the SAML request id in Node-SAML's cache.
OidcState(i) ==
  [proto |-> "oidc", inter |-> i, exp |-> now + RequestTtl, used |-> FALSE, asked |-> FALSE]
SamlState(i) ==
  [proto |-> "saml", inter |-> i, exp |-> now + RequestTtl, used |-> FALSE, asked |-> TRUE]

\* POST .../interaction/:uid/federation/:extensionId/:providerId.
Initiate(i, f, state) ==
  /\ Open(i) /\ flow[f] = None /\ Bounded
  /\ flow' = [flow EXCEPT ![f] = state]
  /\ UNCHANGED <<linkVars, answer, claims, handle, req, outcome, version, locked, now, signIns>>

\* The upstream provider authenticates subject s for flow f.
Answer(r, f, s) ==
  /\ answer[r] = None /\ flow[f] # None /\ Bounded
  /\ answer' = [answer EXCEPT ![r] = [flow |-> f, sub |-> s, until |-> now + AnswerTtl]]
  /\ UNCHANGED <<linkVars, flow, claims, handle, req, outcome, version, locked, now, signIns>>

\* What a broker hands to completeCallback.
Authenticated(q, s) == [pc |-> "resolve", flow |-> req[q].flow, sub |-> s]

----------------------------------------------------------------------------
(* The OIDC callback                                                       *)

\* The subject of the ID Token, with the other claims.
OidcProfile(r) == answer[r].sub

\* stateStore.consume of the state parameter, then the checks on it.
OidcConsume(q, f, r) ==
  /\ req[q].pc = "idle" /\ answer[r] # None
  /\ Pending(f) /\ flow[f].proto = "oidc"
  /\ flow' = [flow EXCEPT ![f].used = TRUE]
  /\ req' = [req EXCEPT ![q] = [pc |-> "token", flow |-> f, answer |-> r]]
  /\ UNCHANGED <<linkVars, answer, claims, handle, outcome, version, locked, now, signIns>>

\* Token exchange, ID Token and UserInfo: the code may be another flow's, which
\* the nonce tells.
OidcToken(q) ==
  /\ req[q].pc = "token"
  /\ IF answer[req[q].answer].flow = req[q].flow
       THEN req' = [req EXCEPT ![q] = Authenticated(q, OidcProfile(req[q].answer))]
       ELSE Done(q)
  /\ UNCHANGED <<linkVars, flow, answer, claims, handle, outcome, version, locked, now, signIns>>

----------------------------------------------------------------------------
(* The SAML assertion consumer service                                     *)

InResponseTo(r) == answer[r].flow
ValidAssertion(r, f) == answer[r].flow = f /\ answer[r].until > now
SamlIdentity(r) == answer[r].sub

\* replayCache.get of the RelayState; the response must answer its request.
SamlPending(q, f, r) ==
  /\ req[q].pc = "idle" /\ answer[r] # None
  /\ Pending(f) /\ flow[f].proto = "saml"
  /\ InResponseTo(r) = f
  /\ req' = [req EXCEPT ![q] = [pc |-> "lookup", flow |-> f, answer |-> r]]
  /\ UNCHANGED <<linkVars, flow, answer, claims, handle, outcome, version, locked, now, signIns>>

\* Node-SAML looks the request id up and, as a separate operation, removes it.
SamlLookup(q) ==
  /\ req[q].pc = "lookup"
  /\ LET f == req[q].flow IN
       flow[f].asked /\ flow[f].exp > now /\ ValidAssertion(req[q].answer, f)
  /\ req' = [req EXCEPT ![q].pc = "remove"]
  /\ UNCHANGED <<linkVars, flow, answer, claims, handle, outcome, version, locked, now, signIns>>

SamlRemove(q) ==
  /\ req[q].pc = "remove"
  /\ flow' = [flow EXCEPT ![req[q].flow].asked = FALSE]
  /\ req' = [req EXCEPT ![q].pc = "response"]
  /\ UNCHANGED <<linkVars, answer, claims, handle, outcome, version, locked, now, signIns>>

\* putIfAbsent of the response id, then of the assertion id: refused while there
\* is a row, expired or not.
SamlClaim(q, x, next) ==
  LET r == req[q].answer IN
  /\ req[q].pc = x
  /\ IF claims[x][r] = None
       THEN /\ claims' = [claims EXCEPT ![x][r] = now + ReplayTtl]
            /\ req' = [req EXCEPT ![q].pc = next]
       ELSE Done(q) /\ UNCHANGED claims
  /\ UNCHANGED <<linkVars, flow, answer, handle, outcome, version, locked, now, signIns>>

\* Mutant: the RelayState is read once more instead of being claimed.
SamlConsumeReads(q) ==
  /\ req[q].pc = "consume"
  /\ IF Pending(req[q].flow)
       THEN req' = [req EXCEPT ![q] = Authenticated(q, SamlIdentity(req[q].answer))]
       ELSE Done(q)
  /\ UNCHANGED <<linkVars, flow, answer, claims, handle, outcome, version, locked, now, signIns>>

\* replayCache.consume of the RelayState: one of several callbacks wins.
SamlConsume(q) ==
  LET f == req[q].flow IN
  /\ req[q].pc = "consume"
  /\ IF Pending(f)
       THEN /\ flow' = [flow EXCEPT ![f].used = TRUE]
            /\ req' = [req EXCEPT ![q] = Authenticated(q, SamlIdentity(req[q].answer))]
       ELSE Done(q) /\ UNCHANGED flow
  /\ UNCHANGED <<linkVars, answer, claims, handle, outcome, version, locked, now, signIns>>

----------------------------------------------------------------------------
(* completeCallback: the account, and the completion handle                *)

\* repository.resolve: the linked account if it is enabled, or a new one; a
\* missing link, a collision, a disabled account or a lock on the row that was
\* read is refused (RequestFails).
Resolve(q, u) ==
  /\ req[q].pc = "resolve" /\ u \notin locked
  /\ req' = [req EXCEPT ![q] =
       [pc |-> "record", flow |-> req[q].flow, sub |-> req[q].sub, user |-> u]]
  /\ \/ link[req[q].sub] = u /\ standing[u] = "enabled" /\ UNCHANGED linkVars
     \/ standing[u] = "fresh" /\ CreateLinked(req[q].sub, u)
  /\ UNCHANGED <<flow, answer, claims, handle, outcome, version, locked, now, signIns>>

\* recordLoginSuccess clears the counters and the lock, also one that fell since.
Record(q) ==
  /\ req[q].pc = "record"
  /\ locked' = locked \ {req[q].user}
  /\ req' = [req EXCEPT ![q].pc = "issue"]
  /\ UNCHANGED <<linkVars, flow, answer, claims, handle, outcome, version, now, signIns>>

\* stateStore.issue: the handle names the account, so the store binds it to the
\* account's security version and refuses a disabled account.
Issue(q, h) ==
  LET u == req[q].user IN
  /\ req[q].pc = "issue" /\ handle[h] = None
  /\ standing[u] = "enabled"
  /\ handle' = [handle EXCEPT ![h] =
       [flow |-> req[q].flow, inter |-> flow[req[q].flow].inter, sub |-> req[q].sub, user |-> u,
        version |-> version[u], exp |-> now + HandleTtl, used |-> FALSE]]
  /\ Done(q)
  /\ UNCHANGED <<linkVars, flow, answer, claims, outcome, version, locked, now, signIns>>

\* A check, an upstream call or a statement fails, in a callback or in a completion: the error page.
RequestFails(q) ==
  /\ req[q].pc # "idle"
  /\ Done(q)
  /\ UNCHANGED <<linkVars, flow, answer, claims, handle, outcome, version, locked, now, signIns>>

----------------------------------------------------------------------------
(* GET .../interaction/:uid/federation/complete                            *)

\* What find returns for a handle: unexpired, its account enabled and at the
\* version it was stored with; used handles too.
Visible(h) ==
  /\ handle[h] # None /\ handle[h].exp > now
  /\ standing[handle[h].user] = "enabled" /\ version[handle[h].user] = handle[h].version

CompleteFind(q, i, h) ==
  /\ req[q].pc = "idle" /\ Open(i) /\ Visible(h)
  /\ req' = [req EXCEPT ![q] = [pc |-> "claim", inter |-> i, key |-> h, payload |-> handle[h]]]
  /\ UNCHANGED <<linkVars, flow, answer, claims, handle, outcome, version, locked, now, signIns>>

\* The claim, and then completionPayload's check: a handle of another
\* interaction is used up and refused.
CompleteConsume(q) ==
  LET h == req[q].key IN
  /\ req[q].pc = "claim"
  /\ IF handle[h] # None /\ ~handle[h].used /\ handle[h].exp > now
       THEN /\ handle' = [handle EXCEPT ![h].used = TRUE]
            /\ IF req[q].payload.inter = req[q].inter
                 THEN req' = [req EXCEPT ![q].pc = "finish"]
                 ELSE Done(q)
       ELSE Done(q) /\ UNCHANGED handle
  /\ UNCHANGED <<linkVars, flow, answer, claims, outcome, version, locked, now, signIns>>

\* The audit event, then provider.interactionFinished: the result is stored in
\* the interaction, if it is still there.
CompleteFinish(q) ==
  LET p == req[q].payload  i == req[q].inter IN
  /\ req[q].pc = "finish" /\ Open(i)
  /\ outcome' = [outcome EXCEPT ![i] =
       [status |-> "login", user |-> p.user, sub |-> p.sub, flow |-> p.flow]]
  /\ signIns' = [signIns EXCEPT ![p.flow] = @ + 1]
  /\ Done(q)
  /\ UNCHANGED <<linkVars, flow, answer, claims, handle, version, locked, now>>

\* The provider resumes the authorization request with the result.
Resume(i) ==
  /\ outcome[i].status = "login"
  /\ outcome' = [outcome EXCEPT ![i] = [status |-> "closed"]]
  /\ UNCHANGED <<linkVars, flow, answer, claims, handle, req, version, locked, now, signIns>>

----------------------------------------------------------------------------
(* Everyone else                                                           *)

\* A state or a handle presented where the other kind is expected is consumed
\* before its kind is checked, and refused.
Misdirected ==
  /\ \/ /\ \E f \in Flows : Pending(f) /\ flow[f].proto = "oidc"
                            /\ flow' = [flow EXCEPT ![f].used = TRUE]
        /\ UNCHANGED handle
     \/ /\ \E h \in Handles : Visible(h) /\ handle' = [handle EXCEPT ![h].used = TRUE]
        /\ UNCHANGED flow
  /\ UNCHANGED <<linkVars, answer, claims, req, outcome, version, locked, now, signIns>>

AdminLinks ==
  /\ \/ \E s \in Subjects, u \in Users : LinkAccount(s, u)
     \/ \E s \in Subjects : UnlinkAccount(s)
     \/ \E u \in Users, n \in Names : standing[u] = "fresh" /\ CreateAccount(u, n)
  /\ UNCHANGED rest

\* Mutant: a security change that leaves completion handles in the store.
SecureKeepsHandles(u, to) ==
  /\ version[u] < MaxVersion
  /\ ChangeStanding(u, to)
  /\ version' = [version EXCEPT ![u] = @ + 1]
  /\ UNCHANGED <<flow, answer, claims, handle, req, outcome, locked, now, signIns>>

\* mutateAccountSecurity or deleteAccount: the version moves, and everything
\* stored for the account goes (a row that is gone has expired at 0: handles are
\* random and never come back).
Secure(u, to) ==
  /\ version[u] < MaxVersion
  /\ ChangeStanding(u, to)
  /\ version' = [version EXCEPT ![u] = @ + 1]
  /\ handle' = [h \in Handles |->
       IF handle[h] # None /\ handle[h].user = u
         THEN [handle[h] EXCEPT !.exp = 0] ELSE handle[h]]
  /\ UNCHANGED <<flow, answer, claims, req, outcome, locked, now, signIns>>

\* Password failures lock an account (see Login); an administrator unlocks it.
LockAccount(u) ==
  /\ Present(u)
  /\ locked' = IF u \in locked THEN locked \ {u} ELSE locked \cup {u}
  /\ UNCHANGED <<linkVars, flow, answer, claims, handle, req, outcome, version, now, signIns>>

\* Cleanup deletes expired claims; other expired rows are invisible already.
CleanupClaims ==
  /\ \E x \in DOMAIN claims, r \in Answers :
       /\ claims[x][r] # None /\ claims[x][r] <= now
       /\ claims' = [claims EXCEPT ![x][r] = None]
  /\ UNCHANGED <<linkVars, flow, answer, handle, req, outcome, version, locked, now, signIns>>

Tick ==
  /\ now < MaxTime /\ now' = now + 1
  /\ UNCHANGED <<linkVars, flow, answer, claims, handle, req, outcome, version, locked, signIns>>

\* The handlers, each as its steps.
Callback(q) == OidcToken(q) \/ \E f \in Flows, r \in Answers : OidcConsume(q, f, r)
AssertionConsumer(q) ==
  \/ \E f \in Flows, r \in Answers : SamlPending(q, f, r)
  \/ SamlLookup(q) \/ SamlRemove(q) \/ SamlConsume(q)
  \/ SamlClaim(q, "response", "assertion") \/ SamlClaim(q, "assertion", "consume")
CompleteCallback(q) ==
  (\E u \in Users : Resolve(q, u)) \/ Record(q) \/ (\E h \in Handles : Issue(q, h))
Complete(q) ==
  \/ \E i \in Interactions, h \in Handles : CompleteFind(q, i, h)
  \/ CompleteConsume(q) \/ CompleteFinish(q)

Next ==
  \/ \E i \in Interactions, f \in Flows : Initiate(i, f, OidcState(i)) \/ Initiate(i, f, SamlState(i))
  \/ \E r \in Answers, f \in Flows, s \in Subjects : Answer(r, f, s)
  \/ \E q \in Requests :
       Callback(q) \/ AssertionConsumer(q) \/ CompleteCallback(q) \/ Complete(q) \/ RequestFails(q)
  \/ \E i \in Interactions : Resume(i)
  \/ Misdirected \/ AdminLinks \/ CleanupClaims \/ Tick
  \/ \E u \in Users, to \in {"enabled", "disabled", "deleted"} : Secure(u, to)
  \/ \E u \in Users : LockAccount(u)

Spec == Init /\ [][Next]_vars

----------------------------------------------------------------------------
(* Properties                                                              *)

\* A flow signs in at most once, although its answer may be posted twice at the
\* same time, answered twice upstream, and its handle opened in two tabs; and the
\* login result of an interaction comes from a flow started in that very
\* interaction, and names the subject the upstream provider authenticated for it.
SignInsBelong ==
  /\ \A f \in Flows : signIns[f] <= 1
  /\ \A i \in Interactions :
       outcome[i].status = "login" =>
         /\ flow[outcome[i].flow].inter = i
         /\ \E r \in Answers : answer[r] # None /\ answer[r].flow = outcome[i].flow
                                                /\ answer[r].sub = outcome[i].sub

\* A handle is claimed only while its account is enabled and at the security
\* version the handle was issued at, although the claim itself looks at
\* neither: a reset between issue and completion ends the sign-in.
ClaimedWhileCurrent ==
  [][\A q \in Requests :
       req[q].pc = "claim" /\ req'[q].pc = "finish" =>
         LET p == req[q].payload IN
         standing[p.user] = "enabled" /\ version[p.user] = p.version]_vars
============================================================================
