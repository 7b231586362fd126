# AuthMe: TLA+ models and proofs

AuthMe is a multi-realm OpenID Provider in Node. Any number of server processes
share one PostgreSQL database; the `oidc-provider` library runs the protocol and
calls AuthMe for storage, sign-in and accounts. This directory models the parts
in which concurrent requests, transactions, callbacks, browser tabs and the clock
meet, checks the models with TLC on small instances, and proves their safety
properties with TLAPS for every instance.

Paths below are relative to the repository root (`src/` here is `src/src/` in
`PROJECT.json`, whose `map` gives the lines of every definition).

## Inventory

| Part | State | Operations | Meets others through | What must hold |
|---|---|---|---|---|
| Record store, `src/adapters/postgres.js` | `oidc_records`: payload, expiry, consumption, grant, security version | upsert, find*, consume, destroy, revokeByGrantId | row locks on `users` and Grant rows | nothing survives or crosses a revocation; one claim per one-use artifact; replays blocked |
| Data layer, `src/db.js` | pool; account transactions | mutateAccountSecurity, deleteAccount, claimInitialAccessToken, cleanup | `users` and `oidc_records` rows | revocation is one step; failures leave nothing half done |
| Sign-in, `src/routes/interactions.js` | the request's copy of the account | login, passkey, consent, abort | identity store, provider | guesses bounded; second factors used once |
| Account state, `src/repositories/identity-store.js` | `users`: hash, lock, TOTP, codes; admin grants and sessions; WebAuthn rows | one statement each, recovery codes in a transaction | every route | compare-and-set where copies are written back |
| Passkeys, `src/security/webauthn.js` and the routes | challenges, credentials, counters | options, registration, sign-in, removal | interactions, account transactions | a challenge signs in once, where it was issued; counters advance |
| Federation, `src/routes/federation.js`, `src/federation/*` | flows, replay claims, completion handles | initiate, callback, complete | record store, links, interactions | one sign-in per flow, in its own interaction, of an account that is still current |
| Identity links, `src/repositories/federated-identity-repository.js` | `federated_identities`, just-in-time accounts | resolve, link, unlink | advisory locks, the login namespace, `users` | one account per subject and per login name; no account taken over |
| SCIM, `src/scim/*`, `scim-repository.js` | users and groups with versions | CRUD with If-Match | `users.groups`, revocation | no lost update; `users.groups` equals the memberships |
| Administration API, `src/routes/admin.js` | none of its own | account, credential and link operations | console sessions, account transactions | a request is permitted by the grant it runs under |
| Console sessions, `src/routes/admin-console.js` | sessions bound to grant and security versions; two cookies | sign-in, switch realm, logout | the browser's tabs, accounts and grants | a revoked administrator is out at the next request; logout is final; nobody acts as another |
| Console in the browser, `src/ui/admin-console.js` | route, page, dialogs, requests in flight | navigation, prompts, forms, enrolment | the administration API | the page is the one asked for; nothing unconfirmed is sent; edits do not undo others' |
| Audit writer, `src/observability/audit-writer.js` | ring, worker slots, sampling map, shared flush promise | enqueue, flush, close | provider events, shutdown | order kept, nothing lost, drained before the pool ends |
| Life cycle, `src/app.js`, `src/index.js`, `src/migrations.js`, `scripts/migrate.mjs` | schema history, timer, pool | migrate, start, maintenance, shutdown | everything | one history; one cleanup at a time; ordered shutdown that ends |
| Development stores, `src/adapters/memory.js`, `src/db.js` | maps in one process | as above, across awaits | each other | the same promises as PostgreSQL's |

The hard behaviours are: a save that straddles an account transaction; row-lock
order; read-decide-write sequences on a copy of an account, a group or a session;
answers that come late, twice or to another flow; two tabs over one cookie; promise
callbacks that interleave with calls; bounded queues and maps at their limit; expiry
and cleanup racing use; jobs that die half way. `PROJECT.json` lists them as hazards
at their lines, with the properties that would catch them.

## Modules

*Storage*

* **ArtifactStore** - what the store promises: artifacts of accounts, a security
  change that removes everything of an account in one step, one claim each.
* **OidcRecords** - the adapter and the account transactions. `rows` is the
  committed table; `save[s]` is the statement connection `s` is executing and
  `tx[t]` the transaction of connection `t`. A save is one SQL statement at READ
  COMMITTED, but its subqueries lock rows one after the other, so it is
  `SaveBegin` (account, FOR SHARE), `SaveGrant` (parent grant, FOR SHARE),
  `SaveParent` (the grant's account) and `SaveWrite` (INSERT ... ON CONFLICT,
  committed with the statement). A transaction is `TxLock` (FOR UPDATE),
  `TxRevoke` (the DELETE, which waits for the share locks), `TxCommit`, or `TxEnd`
  (nothing applied, or rolled back). Locks are derived from where each connection
  is. **OidcRecordsProofs** has its theorems.
* **AuditWriter** - the ring (`items`, `head`, `tail`, `length`), worker slots,
  the sampling map and the promise chain, one step per synchronous run of the
  event loop; the shutdown of `src/app.js` up to the end of the pool. Its theorems
  are in the second part of **DeploymentProofs**.

*Accounts and sign-in*

* **Login** - password sign-in of one account: `at[a]` is a request with the copy
  it read; every statement on the row is a step, and the recovery-code transaction
  is two. The administrator's operations on the same account run in between.
  **LoginProofs** has its theorems.
* **Passkeys** - registration, sign-in and removal. `chal[c]` is a challenge,
  `cred[k]` a credential row, `device[k]` the authenticator with the counter of each
  of its copies, `made` what it has signed; a request holds the rows it has read.
  **PasskeysProofs** has its theorems.
* **IdentityLinks** - what the repository of federated identities promises: links
  and accounts that change in one step, one account per subject and per login name.
* **FederatedIdentities** - that repository's transactions statement by statement,
  under the advisory locks of the identity, of account and provider, and of the
  login namespace, with account creation and deletion around them. It implements
  IdentityLinks; **FederatedIdentitiesProofs** has the proof and its theorems.
* **Federation** - the OIDC and SAML brokers, the one-use states, Node-SAML's two
  operations on its request cache, the replay claims, the account resolver and the
  completion; built on IdentityLinks. `flow`, `claims` and `handle` are stored
  records, `req[q]` a callback or a completion and what it holds.
  **FederationProofs** has its theorems.
* **ScimGroups** - group requests: read the row, read the members, then a
  transaction that locks the group at the version read (`LockGroup`), replaces the
  members, and recomputes `users.groups` in one statement that takes its snapshot
  first (`SyncRead`) and the users rows one after the other (`SyncRow`). A
  transaction's writes become visible at `Commit`. Users are deleted through SCIM
  or the administration API. Its theorems are in the second part of
  **FederatedIdentitiesProofs**.

*Administration*

* **AdminSessions** - console sessions of one administrator. `rows[s]` is the
  durable session, `req[r]` a request with the copies it has made of session,
  account and grant; each statement and each synchronous decision of the callback
  and of `authenticate` is a step, and every statement may fail. `issued`, `held`,
  `used`, `stray` and `req[r].was` are history. **AdminSessionsProofs** has its
  theorems.
* **Console** - the tabs of one browser and the server. The tabs share `jar`, the
  two cookies; a request takes them along when it is sent and its answer changes
  them when it arrives. Sign-in over the provider's own session, switching realm,
  the checks before a request is served (CSRF value, realm, permission, recent
  authentication) and logout. It takes from AdminSessions only that a session may
  end at any moment. **ConsoleProofs** has its theorems.
* **ConsolePage** - one tab: `loads` are page loads in flight with the state of
  each of their requests, `shown` the content, `prompt`, `form` and `totp` the
  dialogs, `calls` the changes in flight. An action is a browser task with its
  microtasks. Its theorems are in the second part of **ConsoleProofs**.

*Operation*

* **Deployment** - migration jobs of several releases under the advisory lock, a
  process that checks its schema, starts, cleans up in batches by a timer, serves,
  and shuts down within its time limit; jobs and processes die at any step.
  **DeploymentProofs** has its theorems.

The `MC...` modules are the instances. In every module the definitions called
"Mutant" are plausible bugs of the operation they precede; no specification uses
them. `PROJECT.json` names the property each one breaks.

## What the runs show

| Run | Instance | Distinct states | Shows |
|---|---|---|---|
| `records` | 2 accounts, 1 grant, 1 artifact, 1 proof, 2 saves, 2 transactions, clock 0..2; scenarios below | 161,784 | types; no row outlives or crosses a security change; only saves that do not name the account can wait in a circle; one claim per artifact; replay window; implementation of ArtifactStore; every artifact save ends |
| `audit` | ring of 2, 2 workers; 4 events and a flusher, or 6 events of which 3 have 2 keys in a map of 1 | 438,478 | order, nothing lost, settled before flush and the end of the pool; the shutdown's wait ends; only repeats are sampled |
| `login` | 3 sign-ins, 2 passwords, LDAP, threshold 2, lock of 1 tick; or 2 sign-ins and an enrolment with 2 codes; or 2 enrolments, 2 confirmations and a sign-in | 822,179 | bound on guesses; no lost password reset; TOTP and recovery codes are one-use; codes handed out stay good |
| `passkeys` | 2 accounts of which one is changed, 2 interactions, 3 challenges, 1 key with 2 copies, 2 requests, clock 0..1 | 181,834 | one sign-in per challenge, in its interaction, by its account; counters advance |
| `federated_links` | 2 accounts, 2 subjects with one login name, 2 names, 2 transactions | 33,815 | resolved links are current; implementation of IdentityLinks; transactions end |
| `federated_signin` | 1 account, 1 subject, 2 interactions, flows and answers up to 3 together, 2 handles, 2 requests, all lifetimes 1, clock 0..1 | 524,469 | one sign-in per flow, in its interaction, of the authenticated subject; a claim only while the account is current |
| `scim_groups` | 2 users; 1 group and 2 requests, or 2 groups and 1 request at a time | 145,850 | no lost update; `users.groups` follows the memberships |
| `scim_sync` | 2 users, 2 groups, 2 requests | violation | see Disagreement |
| `admin_sessions` | 2 sessions, 2 requests, lifetimes 3 and 2, touch after 1, clock 0..2, security version up to 1, grant version up to 2 | 3,046,730 | accepted requests were authorised, dead sessions stay dead, idle lifetime, failed sign-ins leave no session |
| `console` | 2 tabs, 2 realms, 2 administrators of whom one has a grant in one realm only, 2 session values, 2 transactions, clock 0..2 | 2,139,622 | a change is made by the operator the tab shows, under a grant of the realm, after a strong and recent authentication |
| `console_page` | 2 accounts, a text, a list and a map of roles, each with values the form reads back and values it does not, all permissions but the audit log's, 1 change in flight; six scenarios | 403,462 | the page follows the route; nothing unconfirmed is sent; edits of others survive; loading ends |
| `deployment` | an old, a new and a forked release, 2 jobs, 1 process, 1 request, batches of 1, 2 per cleanup, 2 expired rows | 56,830 | one history; right schema, open pool and one cleanup under a serving process; garbage is collected; shutdown ends |

**Scenarios.** Some instances are the union of smaller ones, told apart by a
variable `scenario` that is chosen initially and never changes: the MC module
conjoins what the scenario leaves out to `Next`. What it leaves out is an input
(a client that does not call, a clock that stands still), never a step of an
operation that has begun, so it disables nothing that fairness asks for.

The bounds are the smallest at which each race has all its actors: two saves with one
transaction, and one with two, are every pair the locks distinguish, with a second
account for rows that must not be touched; the ring of two wraps with two workers
busy; three sign-ins against a threshold of two leave one late guess on either side
of the lock; two requests of one session are one that decides and one that deletes
or touches under it; two group requests and two users are the two writers of one
copy and a bystander; two answers and two interactions are a response posted twice
and one that goes astray; two copies of a key reach one counter; two tabs are the
one that changes the cookies and the one that does not notice; a list of two
groups and a group named like the two look alike in their input; a fork of the
releases is the history that must not be mixed; the clock reaches an expiry and
passes it.

Symmetry is used where only safety is checked and the members of a set are compared
for equality alone: requests, sessions, users, groups, passwords, codes,
flows, answers, handles, interactions, challenges, copies, tabs, session values and
transactions. Deadlock checking is off: clients may stop calling, and the histories
are finite.

**Fairness.** `records` assumes that PostgreSQL runs a statement it accepted,
commits or rolls back a transaction it can finish, wakes the waiters of a row in
turn (strong fairness for artifact saves, whose steps are disabled now and then by
transactions) and breaks deadlocks. It is not assumed, and not claimed, that a
save overwriting a Grant row gets past a stream of saves that share-lock it.
`audit` assumes that microtasks run and that a database write settles;
`src/index.js` ends the process after 15 seconds if it does not. `flush()` without
`close()` may wait for ever under endless load, so nothing is claimed of it.
`federated_links` assumes that a statement which is again and again possible is
executed (locks are granted in turn); it assumes no deadlock detector, so
`TransactionsEnd` also says that the lock orders admit no circle. `deployment`
assumes that timers fire, that the forced exit of `src/index.js` comes, that a
statement of a cleanup ends, and that not every try of a batch fails for ever.
`console_page` assumes that events are delivered and that a response arrives or
its request fails.

## Disagreement

* `scim_sync`: `docs/architecture.md` says SCIM Groups "synchronize membership".
  `#syncUserGroups` computes a user's groups from the snapshot of its statement and
  then waits for the users row. Two transactions that add one user to two groups
  overlap: the second writes groups without the first one's, and nothing repairs
  `users.groups` until the user's memberships change again. With one transaction at
  a time (the second scenario of `scim_groups`) the copy is right.

## What is proved

`OidcRecordsProofs` proves, for all values of the constants that satisfy
`ConstantsAssumption` and `NoRowAssumption`:

* `TypeCorrect`, `RowsStayCurrent`, `NamedSavesAreSafe`, `OneUse` - the invariants
  of the run `records` - and `FindIsComplete`, that the epoch test of `find` hides
  no unexpired row;
* `ProofsBlockReplay` - the action property `ReplayWindow`;
* `Implements` - every step of OidcRecords is a step of ArtifactStore or a stutter.

`RowsAreCurrent` is not inductive: whether `SaveWrite` may store what an earlier
step read depends on the locks held since. The inductive invariant adds
`GrantsOwned` (a Grant row names the account it was created for), `SavesHold` (a
save past its account step read an account that is enabled at that very version;
past its grant step, a grant row that is still there) and `TxsHold` (a transaction
past its lock excludes every such save of its account, and past the delete has
exactly the account's rows in `doomed`). So `TxCommit` cannot move an epoch under
a save, and removes all rows of the old one. The proof has one lemma per action
and one step per conjunct the action touches.

`AdminSessionsProofs` proves, from `AdminAssumption` (an idle lifetime no longer than
the absolute one, as the code computes it), `TypeCorrect`,
`AcceptedRequestsWereAuthorised`, `DeadSessionsStayDead`, `IdleIsBounded` and
`FailedSignInsLeaveNothing`: all the properties of its run. Versions only grow,
so the inductive invariant says that every row, and every copy of one, names
versions that are not ahead of the account and the grant (`Behind`): what does not
match now never will. Hence a request whose session could not be used when it was
read meets the same mismatch, or the expiry, later (`CheckHolds`). `Onward` collects
what no step undoes, and gives the action property.

`FederatedIdentitiesProofs`, from `LinksAssumption`: `ResolutionsAreCurrent`,
`LinksAreUnique` and `Implements` (every step is a step of IdentityLinks or a
stutter). The invariant says what each lock excludes: `CreatingHolds` (the namespace
lock: one new account at a time, whose name stays free), `LinkingHolds` (FOR KEY
SHARE keeps the account of a link from being deleted under it; the lock of account
and provider excludes a second link) and `StoringHolds` (the primary key: a link
that waits for its commit has no rival).

`PasskeysProofs`, from `PasskeysAssumption` and `NoneAssumption`: `OneUse`, `Bound`
and the action property `Advancing`. `OneTaker` says that a challenge is in the hands
of one request, and once; `SignInsHold` what that request read; `CountersHold` that
a credential row has the account its authenticator was made for and the highest
counter accepted. The last one needs to know of a registration under way that its
key has no row yet (`OpenHolds`, `StoreHolds`).

`LoginProofs`, from `LoginAssumption` and `CodesAssumption`: `GuessingIsBounded`,
`LastPasswordStays`, `FactorsCountOnce` and `CodesAreHonoured`. `GuessesHold` is a
counting argument: while the account is locked, every further answer "failed" takes
one request out of `MayFail`, the requests that read the account before the lock
and are not answered yet. `HolderHolds` says that the row stands still under the
transaction that redeems a code, `SecretsHold` that a TOTP secret has one life,
`UsesHold` that codes of a secret are used in the order of their steps, and
`CodesHold` that a recovery code is redeemed after the confirmation that made it.
The threshold is at least 2: with a threshold of 1 the failure after a lock has run
out locks again without a reset of the count, and the bound is wrong (the code's
constant is 5). `CodesAssumption`: a TOTP code, of six digits, is no recovery code.

`ConsoleProofs`, from `ConsoleAssumption`: `ShownOperatorActs`, `GrantsCoverRealms`
and `FreshChanges`. `TransactionsHold` ties what a tab brings back from the provider
to the transaction it began, `RowsHold` a session to the authentication it came
from, and `PagesHold` what a tab shows to its session, as long as that exists: so the
CSRF value, which is the session's, is refused when the cookie is another session's.

`FederationProofs`, from `FederationAssumption`, `LinksAssumption` and
`NoneAssumption`: `SignInsAreBound` and the action property `ClaimsAreCurrent`.
`OneHand` says that a flow is in one hand at a time: the request that consumed its
state (`OneHolder`), then the only handle issued for it (`HeldOrHandled`,
`OneHandle`), then the only completion that claimed the handle (`OneClaimer`,
`ClaimedOrSignedIn`), then the sign-in (`SignedInOnce`). `RequestsHold`,
`HandlesHold` and `ResultsHold` carry the interaction and the vouched subject along.
The replay claims of the SAML broker do not appear in the argument: the RelayState,
which is consumed once, is enough for one sign-in per flow. `CurrentHolds` says that a
handle that has not expired has its account as it was at issue, because `Secure`
expires the handles in the step that moves the version.

`DeploymentProofs`: `OneReleaseApplied` and `SoundProcesses` from
`DeploymentAssumption`, and `OneHistoryApplied` from `AppendAssumption` too. The
holder of the advisory lock has seen every migration before the one it is at, and
nothing outside its release (`VerifiedHolds`); a history that is a prefix of some
release and lies within the job's is then a prefix of the job's, provided that two
releases that share a migration share everything before it. The migration script
does not check that: a release that puts a migration before ones already applied is
accepted, and its history is no prefix of any release until the job has ended. For
the processes, `CleanupHolds` relates the slots to the `cleanupRunning` flag, which
the first cleanup of a start does not set, and `PoolHolds` requests and pool to where
the shutdown is.

Three of these modules have a second part about another component, which they
extend as well; the names of the two components are kept apart for this (`WriterSpec`,
`ScimSpec`, `BrowserSpec`), and nothing of the first part is used in the second.

*ScimGroups* in `FederatedIdentitiesProofs`: `NoUpdateIsLost`. `RequestHolds` says
that what a request read is what the group has, as long as the row is there at the
version read; `OneHolder` and `MembersExist` carry it over the lock and past
deletions of accounts, which may leave the version alone. `GroupsInSync` is no
invariant of the code (see Disagreement), and the proof attempt showed exactly what it
lacks: `ApartInSync` proves it of every behaviour in which no two transactions that
have replaced members affect a common account. `SerialInSync` (one connection) and
`OneGroupInSync` (one group, any number of connections) follow: they are the two
scenarios of the run `scim_groups`.
`CopyHolds` says that what a transaction computed is what its commit makes true, and
that a users row it does not write is right already; a commit of another
transaction keeps this only for accounts that one does not affect.

*AuditWriter* in `DeploymentProofs`, from `WriterAssumption` (any capacity, zero
included; at least one worker): `AcceptedInOrder`, `SettledFirst` and the action
property `RepeatsOfAccepted`. `RingHolds` places the tail of the ring from head and
length; `PushQueue` and `ShiftQueue` are the lemmas that the ring, wrapping or not, is
the sequence `Queued`. `WorkHolds` says that ring and microtasks list the events that
are queued and running, each once, that `active` counts the writes under way, and
that nothing is queued while a slot is free: so an idle writer has nothing unfinished
(`IdleIsDone`), which is what `flush` and `#drain` take it for. `WaitHolds` says that
events a flush waits for are never taken back, and that a closed writer stays empty;
`SampleHolds` that no window outlasts the one its last accepted event opened.

*ConsolePage* in `ConsoleProofs`, from `ConsolePageAssumption`: `PagesFollowRoutes`,
`DestructionIsConfirmed` and `OthersEditsSurvive`. `LoadsHold` says that a load in
flight is of the route in the location unless a hashchange is still to come,
`PromptHolds` that the shared dialog has a value other than "cancel" only after this
prompt was agreed to, `FormHolds` that an untouched input shows the value of the
page's copy, and `CallsHold` that a patch carries only what was typed or was not
`Regular` on the page. Between the two stands the lemma `RegularReadsBack`: joining and
splitting, trimming and dropping repetitions give a regular value back as it was.

Every inductive invariant was an invariant of the run of its component in TLC before
it was proved (`CopyIInv` of the behaviours that satisfy `Apart`). Assumptions of the form "None is not a row" only say that the value
for an absent row is told apart from rows.

Only model-checked:

* liveness (`SavesEnd`, `CloseEnds`, `TransactionsEnd`, `GarbageIsCollected`,
  `ShutdownEnds`, `LoadingEnds`), which the prover does not reach;
* `GroupsInSync` for several groups and overlapping transactions, where it does not
  hold (`scim_sync`).

## Abstractions

* A payload is its account, grant, lifetime and consumed mark. Grant identifiers
  are random, so a Grant's account is a constant. Account ids are never reused.
* A Grant stored again after a save's snapshot is visible to that save, and a
  DELETE takes its row locks at once: both admit more behaviours than PostgreSQL.
* A statement's own time is its start (`save[s].at`), as CURRENT_TIMESTAMP is.
* An account transaction stands for every caller of `mutateAccountSecurity`: what
  it changes is reduced to the account being enabled or disabled.
* In AuditWriter every caller uses one sampling window (the only caller does), the
  clock does not go back, and hooks, which only count metrics, are left out.
* In Login one clock tick is a TOTP step; the lock and the enrolment period are
  constants in ticks. What was typed is chosen when it is first used. A password
  is the plain value, with a mark for an outdated hash; two hashes of one password
  are told apart by that mark alone. Deleting the account is in OidcRecords only.
* In Passkeys a signature is a record only the authenticator can add; attestation,
  CBOR and the origin are the library's. Security versions are left out: a
  registration runs in an account transaction, which OidcRecords models.
* FederatedIdentities has one realm and one upstream provider; nothing relates the
  links of two. User names and e-mail addresses are one namespace of names, as the
  trigger of the users table makes them. Profile updates are left out.
* In Federation tokens and assertions are verified by the libraries: an answer names
  the flow it was made for, the subject and when it was made. A resolve is one step,
  which FederatedIdentities justifies. The provider's own handling of a finished
  interaction ends at the login result, or at its closing.
* In ScimGroups a user's deletion is one step that waits for the locks it needs;
  group names, the versions of User resources, and the administration API's own
  writes of `users.groups` are left out. A deletion through the administration API
  removes memberships by a cascade that does not advance the group's version, so
  `NoLostUpdate` compares the members that still exist.
* In AdminSessions the identity token has been verified, the process clock and the
  database clock are one, and a touch is applied at its own time. The rate limiter,
  CSRF, realms and permissions do not read or write a session and are left out
  (Console has the last three). A sign-in that straddles a security change may
  still complete, as `docs/threat-model.md` says; nothing is claimed of it.
* In Console a session value stands for its CSRF value, which is derived from it.
  Permissions are "read" and "change"; every change needs recent authentication, as
  the mutations of accounts do. `MaxAge` is one limit for the 900 seconds of the API's
  check and the 930 of the sign-in's, which grants the exchange half a minute more. Grants do not change here (AdminSessions has that).
* In ConsolePage an account is its fields on the server and a request is its state;
  paging, search and layout are left out. An answer 401 leaves the page. The form's
  conversions are modelled by what they lose: a list is the sequence of the texts its
  commas separate, marked `inner` after a comma that belongs to a name, and joining
  drops the mark; `Clean` is what an input (which drops line breaks) and `trim()`
  leave of a text; a text that is not a JSON object of roles is one value. The two
  checkboxes always come back as they were and are left out, as is the lower case the
  server gives to an e-mail address. Accounts are as `rowToUser` returns them:
  without nulls.
* In Deployment the SQL of a migration is its name and checksum. Two slots let a
  second cleanup of one process be seen, should one start.

## Met while modelling

Things the code does that no document contradicts, kept here for its readers:

* `src/ui/admin-console.js:400`: a load that was aborted still renders when the
  abort meets its health probe, whose failure is caught, or the reading of a body,
  whose failure is caught too. A page that needs
  no request of its own (denied, or cached configuration) can then be overwritten;
  `PageFollowsRoute` therefore speaks of pages with requests, whose own render
  comes later.
* `src/ui/admin-console.js:874`: `submitPasswordForm` reads `event.currentTarget`
  after an `await`, where it is null: a successful reset is shown as an error and the
  dialog stays open.
* `src/ui/admin-console.js:824`: the form compares what it reads from its inputs with
  the copy, and not every value is read back as it was. A group with a comma in its
  name (`/Sales, EMEA`, which `routes/admin.js:14` admits and
  `scim-repository.js:360` produces) comes back as two groups, a line break in a name
  is lost, and a role that `clientRoles` lists twice is listed once. Such a field is
  sent although nobody typed in it: it changes the account, and overwrites what
  another operator did. `EditsSurvive` excepts exactly these values (`Regular`).
* `src/routes/admin-console.js:205`: a request that read the row just before another
  one extended it may find it idle and delete it: the operator signs in again.
* `src/repositories/scim-repository.js:367`: two group transactions lock users in the
  order of their plans, so that they may deadlock; PostgreSQL rolls one back.
* `src/adapters/memory.js:49`, `src/db.js:72`: the development adapter reads a record
  before an await and replaces it after; the development layer compensates a failed
  mutation by restoring the whole account, with what others wrote meanwhile.

## Not modelled

* Cryptography, password hashing, key rotation, configuration, rendering, logging and
  metrics: no shared state that a finite model could show wrong.
* LDAP, SAML and OIDC wire formats, WebAuthn attestation: the libraries' work.
* The rate limiter: counting is done by a library over Redis.
* The configuration of `oidc-provider`, consent and abort: the library keeps that
  state; its saves and events are inputs of OidcRecords and AuditWriter.
* The in-memory development stores: one process, no durability; the differences are
  noted above.
* SCIM users' creation and replacement, filters and PATCH bodies: single rows changed
  by account transactions whose effect is in OidcRecords.
* `scripts/smoke.mjs` and the tests.

## Plan

1. *Done*: all modules above; proofs of every safety property the runs check, each for
   all values of its constants (`GroupsInSync` under the condition it needs), and of
   both refinements.
2. Liveness stays with TLC. What could be added are type theorems of the modules
   whose inductive invariant contains their types already, and a proof that
   Federation's one-step resolve is what FederatedIdentities' transactions do.
