------------------------------ MODULE Passkeys ------------------------------
(***************************************************************************)
(* Passkeys: the ceremonies of src/src/routes/interactions.js (sign-in)    *)
(* and src/src/routes/admin.js (registration, removal), the policy of      *)
(* src/src/security/webauthn.js, and the challenges and credentials of     *)
(* PostgresIdentityStore.                                                  *)
(*                                                                         *)
(* Each SQL statement, or account transaction, of a request is a step;     *)
(* requests of several processes interleave.  Signatures are perfect: a    *)
(* response is a record only the authenticator adds to made.  An           *)
(* authenticator may have been copied: every copy counts for itself.       *)
(***************************************************************************)
EXTENDS Naturals

CONSTANTS Users, Interactions,
          Challenges,   \* challenge ids, each with its random value
          Keys,         \* credential ids
          Copies,       \* the copies of an authenticator
          Requests,     \* requests in flight
          ChallengeTtl, \* webauthnChallengeTtl
          MaxCount,     \* bound on the counter of an authenticator
          MaxTime,      \* bound on the clock
          None

ASSUME PasskeysAssumption ==
  ChallengeTtl \in Nat \ {0} /\ MaxCount \in Nat /\ MaxTime \in Nat

\* The rows of webauthn_challenges and webauthn_credentials, an authenticator, and
\* what it says.
ChallengeRow ==
  [purpose : {"registration", "authentication"}, who : Users \cup Interactions,
   exp : Nat, stored : BOOLEAN]
CredentialRow == [user : Users, handle : Users \cup Interactions, counter : Nat]
Device == [user : Users \cup Interactions, counts : BOOLEAN, count : [Copies -> Nat]]
Response == [key : Keys, chal : Challenges, count : Nat]

ASSUME NoneAssumption == None \notin ChallengeRow \cup CredentialRow \cup Device

VARIABLES standing, \* standing[u]: "enabled", "disabled" or "gone"
          locked,   \* accounts locked by failed passwords
          chal,     \* chal[c]: the row of webauthn_challenges; kept when it is gone
          cred,     \* cred[k]: the row of webauthn_credentials
          device,   \* device[k]: the account the key was made for, and its counters
          made,     \* responses the authenticators signed
          req,      \* req[q]: a request and what it holds
          signIns,  \* signIns[c]: sign-ins that used challenge c (history)
          highest,  \* highest[k]: the largest counter that was accepted (history)
          now

vars == <<standing, locked, chal, cred, device, made, req, signIns, highest, now>>

Idle == [pc |-> "idle"]
Done(q) == req' = [req EXCEPT ![q] = Idle]

Init ==
  /\ standing = [u \in Users |-> "enabled"] /\ locked = {}
  /\ chal = [c \in Challenges |-> None]
  /\ cred = [k \in Keys |-> None]
  /\ device = [k \in Keys |-> None]
  /\ made = {}
  /\ req = [q \in Requests |-> Idle]
  /\ signIns = [c \in Challenges |-> 0]
  /\ highest = [k \in Keys |-> 0]
  /\ now = 0

----------------------------------------------------------------------------
(* Challenges                                                              *)

\* createWebAuthnChallenge: for an interaction, or for an account.
CreateChallenge(c, purpose, who) ==
  /\ chal[c] = None
  /\ chal' = [chal EXCEPT ![c] =
       [purpose |-> purpose, who |-> who, exp |-> now + ChallengeTtl, stored |-> TRUE]]

\* POST .../passkey/options
LoginOptions(i, c) ==
  /\ CreateChallenge(c, "authentication", i)
  /\ UNCHANGED <<standing, locked, cred, device, made, req, signIns, highest, now>>

\* POST .../passkeys/registration/options
RegistrationOptions(u, c) ==
  /\ standing[u] # "gone"
  /\ CreateChallenge(c, "registration", u)
  /\ UNCHANGED <<standing, locked, cred, device, made, req, signIns, highest, now>>

\* Mutant: the challenge may be of another interaction or account.
ConsumableByAnyone(c, purpose, who) ==
  chal[c] # None /\ chal[c].stored /\ chal[c].exp > now /\ chal[c].purpose = purpose

\* The WHERE clause of consumeWebAuthnChallenge.
Consumable(c, purpose, who) ==
  /\ chal[c] # None /\ chal[c].stored /\ chal[c].exp > now
  /\ chal[c].purpose = purpose /\ chal[c].who = who

\* DELETE ... RETURNING
Consume(c) == chal' = [chal EXCEPT ![c].stored = FALSE]

----------------------------------------------------------------------------
(* Authenticators and browsers                                             *)

\* A key made for a registration challenge; it counts, or always says 0.
MakeKey(k, c, counts) ==
  /\ chal[c] # None /\ chal[c].purpose = "registration"
  /\ device[k] = None
  /\ device' = [device EXCEPT ![k] =
       [user |-> chal[c].who, counts |-> counts, count |-> [x \in Copies |-> 0]]]
  /\ made' = made \cup {[key |-> k, chal |-> c, count |-> 0]}
  /\ UNCHANGED <<standing, locked, chal, cred, req, signIns, highest, now>>

\* The sign-in page asks an authenticator to sign the challenge it was given.
Sign(k, x, c) ==
  /\ chal[c] # None /\ chal[c].purpose = "authentication"
  /\ device[k] # None
  /\ LET n == IF device[k].counts THEN device[k].count[x] + 1 ELSE 0 IN
       /\ n <= MaxCount
       /\ device' = [device EXCEPT ![k].count[x] = n]
       /\ made' = made \cup {[key |-> k, chal |-> c, count |-> n]}
  /\ UNCHANGED <<standing, locked, chal, cred, req, signIns, highest, now>>

----------------------------------------------------------------------------
(* POST .../passkey: sign-in.  A failed check ends the request with 401.   *)

\* Mutant: the challenge is looked up and stays.
LoginConsumeReads(q, i, c, a) ==
  /\ req[q].pc = "idle" /\ Consumable(c, "authentication", i)
  /\ req' = [req EXCEPT ![q] = [pc |-> "find", inter |-> i, chal |-> c, said |-> a]]
  /\ UNCHANGED <<standing, locked, chal, cred, device, made, signIns, highest, now>>

LoginConsume(q, i, c, a) ==
  /\ req[q].pc = "idle" /\ Consumable(c, "authentication", i)
  /\ Consume(c)
  /\ req' = [req EXCEPT ![q] = [pc |-> "find", inter |-> i, chal |-> c, said |-> a]]
  /\ UNCHANGED <<standing, locked, cred, device, made, signIns, highest, now>>

LoginFind(q) ==
  /\ req[q].pc = "find"
  /\ LET row == cred[req[q].said.key] IN
       IF row = None
         THEN Done(q)
         ELSE req' = [req EXCEPT ![q] =
                [pc |-> "user", inter |-> req[q].inter, chal |-> req[q].chal,
                 said |-> req[q].said, row |-> row]]
  /\ UNCHANGED <<standing, locked, chal, cred, device, made, signIns, highest, now>>

\* Counters that never move are accepted; others must advance.
Advances(old, new) == (old = 0 /\ new = 0) \/ new > old

\* verifyAuthentication: the challenge signed is the one consumed, and the
\* library compares the counter with the row that was read.
Verified(said, c, row) == said.chal = c /\ Advances(row.counter, said.count)

LoginUser(q) ==
  LET row == req[q].row  said == req[q].said IN
  /\ req[q].pc = "user"
  /\ IF /\ standing[row.user] = "enabled" /\ row.user \notin locked
        /\ device[said.key].user = row.handle
        /\ Verified(said, req[q].chal, row)
       THEN req' = [req EXCEPT ![q].pc = "update"]
       ELSE Done(q)
  /\ UNCHANGED <<standing, locked, chal, cred, device, made, signIns, highest, now>>

Larger(m, n) == IF m > n THEN m ELSE n

\* Mutant: the counter is written whatever it is now.
LoginUpdateBlind(q) ==
  LET k == req[q].said.key IN
  /\ req[q].pc = "update"
  /\ IF cred[k] # None /\ Advances(req[q].row.counter, req[q].said.count)
       THEN /\ cred' = [cred EXCEPT ![k].counter = req[q].said.count]
            /\ highest' = [highest EXCEPT ![k] = Larger(@, req[q].said.count)]
            /\ req' = [req EXCEPT ![q].pc = "record"]
       ELSE Done(q) /\ UNCHANGED <<cred, highest>>
  /\ UNCHANGED <<standing, locked, chal, device, made, signIns, now>>

\* updateWebAuthnCredentialCounter: the row must still have the counter read.
LoginUpdate(q) ==
  LET k == req[q].said.key  old == req[q].row.counter  new == req[q].said.count IN
  /\ req[q].pc = "update"
  /\ IF cred[k] # None /\ cred[k].counter = old /\ Advances(old, new)
       THEN /\ cred' = [cred EXCEPT ![k].counter = new]
            /\ highest' = [highest EXCEPT ![k] = Larger(@, new)]
            /\ req' = [req EXCEPT ![q].pc = "record"]
       ELSE Done(q) /\ UNCHANGED <<cred, highest>>
  /\ UNCHANGED <<standing, locked, chal, device, made, signIns, now>>

\* recordLoginSuccess also ends a lock that fell meanwhile.
LoginRecord(q) ==
  /\ req[q].pc = "record"
  /\ locked' = locked \ {req[q].row.user}
  /\ req' = [req EXCEPT ![q].pc = "finish"]
  /\ UNCHANGED <<standing, chal, cred, device, made, signIns, highest, now>>

\* The audit record and provider.interactionFinished.
LoginFinish(q) ==
  /\ req[q].pc = "finish"
  /\ signIns' = [signIns EXCEPT ![req[q].chal] = @ + 1]
  /\ Done(q)
  /\ UNCHANGED <<standing, locked, chal, cred, device, made, highest, now>>

----------------------------------------------------------------------------
(* Registration and removal by an administrator                            *)

\* POST .../passkeys/registration/verify: the challenge, and the response to it.
RegisterConsume(q, u, c, a) ==
  /\ req[q].pc = "idle" /\ Consumable(c, "registration", u)
  /\ Consume(c)
  /\ IF a.chal = c
       THEN req' = [req EXCEPT ![q] =
              [pc |-> "store", user |-> u, handle |-> chal[c].who, said |-> a]]
       ELSE UNCHANGED req
  /\ UNCHANGED <<standing, locked, cred, device, made, signIns, highest, now>>

\* Its account transaction; a key that is registered already is refused.
RegisterStore(q) ==
  LET k == req[q].said.key IN
  /\ req[q].pc = "store"
  /\ IF standing[req[q].user] # "gone" /\ cred[k] = None
       THEN cred' = [cred EXCEPT ![k] =
              [user |-> req[q].user, handle |-> req[q].handle, counter |-> req[q].said.count]]
       ELSE UNCHANGED cred
  /\ Done(q)
  /\ UNCHANGED <<standing, locked, chal, device, made, signIns, highest, now>>

\* DELETE .../passkeys/:credentialId
RemoveKey(k) ==
  /\ cred[k] # None
  /\ cred' = [cred EXCEPT ![k] = None]
  /\ UNCHANGED <<standing, locked, chal, device, made, req, signIns, highest, now>>

----------------------------------------------------------------------------
(* Everyone else                                                           *)

RequestFails(q) ==
  /\ req[q].pc # "idle"
  /\ Done(q)
  /\ UNCHANGED <<standing, locked, chal, cred, device, made, signIns, highest, now>>

\* deleteUser cascades to the account's keys and registration challenges.
ChangeAccount(u, to) ==
  /\ standing[u] # "gone" /\ standing[u] # to
  /\ standing' = [standing EXCEPT ![u] = to]
  /\ IF to = "gone"
       THEN /\ cred' = [k \in Keys |-> IF cred[k] # None /\ cred[k].user = u THEN None ELSE cred[k]]
            /\ chal' = [c \in Challenges |->
                 IF chal[c] # None /\ chal[c].who = u
                   THEN [chal[c] EXCEPT !.stored = FALSE] ELSE chal[c]]
       ELSE UNCHANGED <<cred, chal>>
  /\ UNCHANGED <<locked, device, made, req, signIns, highest, now>>

\* Failed passwords lock an account (see Login).
Lock(u) ==
  /\ u \notin locked /\ locked' = locked \cup {u}
  /\ UNCHANGED <<standing, chal, cred, device, made, req, signIns, highest, now>>

\* cleanupExpiredWebAuthnChallenges
Cleanup(c) ==
  /\ chal[c] # None /\ chal[c].stored /\ chal[c].exp <= now
  /\ Consume(c)
  /\ UNCHANGED <<standing, locked, cred, device, made, req, signIns, highest, now>>

Tick ==
  /\ now < MaxTime /\ now' = now + 1
  /\ UNCHANGED <<standing, locked, chal, cred, device, made, req, signIns, highest>>

Login(q) ==
  \/ \E i \in Interactions, c \in Challenges, a \in made : LoginConsume(q, i, c, a)
  \/ LoginFind(q) \/ LoginUser(q) \/ LoginUpdate(q) \/ LoginRecord(q) \/ LoginFinish(q)

Register(q) ==
  \/ \E u \in Users, c \in Challenges, a \in made : RegisterConsume(q, u, c, a)
  \/ RegisterStore(q)

Next ==
  \/ \E c \in Challenges :
       \/ \E i \in Interactions : LoginOptions(i, c)
       \/ \E u \in Users : RegistrationOptions(u, c)
       \/ \E k \in Keys, counts \in BOOLEAN : MakeKey(k, c, counts)
       \/ \E k \in Keys, x \in Copies : Sign(k, x, c)
       \/ Cleanup(c)
  \/ \E q \in Requests : Login(q) \/ Register(q) \/ RequestFails(q)
  \/ \E k \in Keys : RemoveKey(k)
  \/ \E u \in Users : Lock(u) \/ \E to \in {"enabled", "disabled", "gone"} : ChangeAccount(u, to)
  \/ Tick

Spec == Init /\ [][Next]_vars

----------------------------------------------------------------------------
(* Properties                                                              *)

\* A challenge signs in at most once, also when the form is posted twice at the
\* same time and the passkey does not count.
ChallengesAreOneUse == \A c \in Challenges : signIns[c] <= 1

\* The counters a key signs in with only grow, whatever sign-ins overlap: of two
\* copies of an authenticator that reach the same counter, one is refused.
CountersAdvance ==
  [][\A q \in Requests :
       req[q].pc = "update" /\ req'[q].pc = "record" =>
         \/ req[q].said.count > highest[req[q].said.key]
         \/ req[q].said.count = 0 /\ highest[req[q].said.key] = 0]_vars

\* A sign-in belongs to the interaction its challenge was issued to, and names
\* the account its passkey was made for, whichever ceremonies overlap and
\* whatever accounts and keys are removed meanwhile.
SignInsAreBound ==
  \A q \in Requests :
    req[q].pc \in {"record", "finish"} =>
      /\ chal[req[q].chal].who = req[q].inter
      /\ device[req[q].said.key].user = req[q].row.user
============================================================================
