------------------------------- MODULE Login -------------------------------
(***************************************************************************)
(* Interactive password sign-in of one account                             *)
(* (src/src/routes/interactions.js, POST .../login) against the account    *)
(* row of src/src/repositories/identity-store.js (PostgresIdentityStore)   *)
(* and the account operations of src/src/routes/admin.js.                  *)
(*                                                                         *)
(* Several attempts run at once, in several server processes.  An attempt  *)
(* reads the account, decides on that copy, and then writes to the row one *)
(* statement at a time.  A statement, and an account transaction up to its *)
(* commit, is one step; consumeRecoveryCode holds the row between two.     *)
(***************************************************************************)
EXTENDS Integers, FiniteSets

CONSTANTS Attempts,      \* sign-in requests in flight
          Confirmers,    \* requests that confirm a TOTP enrolment
          Passwords,     \* passwords people type or administrators set
          Secrets,       \* TOTP secrets, each generated once
          Batch,         \* Batch[c]: recovery codes generated by confirmer c
          Ldap,          \* an LDAP provider is enabled for the realm
          LockThreshold, \* failures that lock the account (5)
          LockPeriod,    \* how long it stays locked (15 minutes)
          PendingPeriod, \* how long an enrolment may be confirmed (10 minutes)
          MaxTime,       \* bound on the clock, which counts TOTP steps
          None

ASSUME LoginAssumption ==
  /\ LockThreshold \in Nat \ {0, 1} /\ LockPeriod \in Nat \ {0} /\ PendingPeriod \in Nat \ {0}
  /\ MaxTime \in Nat /\ Ldap \in BOOLEAN
  /\ None \notin Passwords /\ None \notin Secrets /\ None \notin Nat /\ None \notin Attempts
  /\ IsFiniteSet(Attempts)
  /\ \A c, d \in Confirmers : c # d => Batch[c] \cap Batch[d] = {}

Codes == UNION {Batch[c] : c \in Confirmers}
Tokens == [secret : Secrets, step : Int]  \* a TOTP code is the secret's code of one step

\* A TOTP code has six digits, a recovery code is longer.
ASSUME CodesAssumption == \A c \in Codes \cup {None} : c \notin Tokens

VARIABLES user,    \* the users row
          fresh,   \* TOTP secrets not generated yet
          at,      \* at[a]: sign-in attempt a
          confirm, \* confirm[c]: TOTP confirmation c
          holder,  \* the attempt whose transaction holds the users row, or None
          now,
          setTo,    \* password last set by an administrator (history)
          failures, \* sign-ins answered "failed" since the account was last reset (history)
          uses,     \* sign-ins or confirmations a TOTP code of the current secret bought (history)
          redeemed  \* redeemed[c]: sign-ins recovery code c bought (history)

history == <<setTo, failures, uses, redeemed>>
vars == <<user, fresh, at, confirm, holder, now, history>>

\* What an attempt keeps of the row it read.
Snapshot == [password |-> user.password, weak |-> user.weak, enabled |-> user.enabled,
             totp |-> user.totp, lockedUntil |-> user.lockedUntil]

NoAttempt == [pc |-> "idle", snap |-> None, method |-> None, otp |-> None, seen |-> {}]

\* weak: the hash was made with older parameters (needsPasswordRehash).
Init ==
  /\ \E p \in Passwords, weak \in BOOLEAN :
       /\ user = [password |-> p, weak |-> weak, enabled |-> TRUE, totp |-> None,
                  pending |-> None, pendingAt |-> 0, codes |-> {}, last |-> None,
                  failed |-> 0, lockedUntil |-> None]
       /\ setTo = p
  /\ fresh = Secrets
  /\ at = [a \in Attempts |-> NoAttempt]
  /\ confirm = [c \in Confirmers |-> [pc |-> "idle", secret |-> None, step |-> 0]]
  /\ holder = None /\ now = 0 /\ failures = 0
  /\ uses = [s \in Secrets |-> [n \in -1..(MaxTime + 1) |-> 0]]
  /\ redeemed = [c \in Codes |-> 0]

Goto(a, pc) == at' = [at EXCEPT ![a].pc = pc]
End(a) == at' = [at EXCEPT ![a] = NoAttempt]

\* Every statement that writes the row waits for the transaction that holds it.
Writable(a) == holder \in {None, a}

----------------------------------------------------------------------------
(* The sign-in handler                                                     *)

\* findUserByLogin, after the rate limits let the request through.
Read(a) ==
  /\ at[a].pc = "idle"
  /\ at' = [at EXCEPT ![a] = [NoAttempt EXCEPT !.pc = "verify", !.snap = Snapshot]]
  /\ UNCHANGED <<user, fresh, confirm, holder, now, history>>

Locked(snap) == snap.lockedUntil # None /\ snap.lockedUntil > now

\* Where a verified copy of the account leads: the second factor, success,
\* a recorded failure, or a refusal that leaves a locked account alone.
Verdict(snap, passwordOk) ==
  CASE Locked(snap) -> "refuse"
    [] ~Locked(snap) /\ passwordOk /\ snap.enabled ->
         IF snap.totp = None THEN "success" ELSE "totp"
    [] OTHER -> "fail"

\* The decision on a copy, which is kept for what the later steps read of it.
Decide(a, snap, passwordOk, method) ==
  at' = [at EXCEPT ![a].pc = Verdict(snap, passwordOk), ![a].method = method,
                   ![a].snap = [snap EXCEPT !.lockedUntil = None, !.enabled = TRUE]]

\* verifyPassword on the copy: what was typed matters from here on.
Verify(a, guess) ==
  /\ at[a].pc = "verify"
  /\ Decide(a, at[a].snap, guess = at[a].snap.password, "pwd")
  /\ UNCHANGED <<user, fresh, confirm, holder, now, history>>

\* LDAP accepts what the local hash does not, and the federated identity
\* resolves to this account, which is read again; a disabled one is denied.
VerifyLdap(a) ==
  /\ Ldap
  /\ at[a].pc = "verify"
  /\ user.enabled
  /\ Decide(a, Snapshot, TRUE, "ldap")
  /\ UNCHANGED <<user, fresh, confirm, holder, now, history>>

\* LDAP accepts, but the identity is denied or is another account's: the
\* request leaves this account alone, and does not count as its failure.
LdapElsewhere(a) ==
  /\ Ldap
  /\ at[a].pc = "verify"
  /\ End(a)
  /\ UNCHANGED <<user, fresh, confirm, holder, now, history>>

\* The refusal of a locked account changes nothing.
Refuse(a) ==
  /\ at[a].pc = "refuse"
  /\ End(a)
  /\ UNCHANGED <<user, fresh, confirm, holder, now, history>>

\* totpStep: the code is one of the secret's, at most one step away.
StepOf(secret, otp) ==
  IF otp \in Tokens /\ otp.secret = secret /\ otp.step - now \in {-1, 0, 1}
    THEN otp.step ELSE None

AfterLast(step) == user.last = None \/ user.last < step

\* consumeTotpStep: the compare-and-set on last_totp_step.  A code that is
\* refused is tried as a recovery code.
UseTotp(a, otp) ==
  LET step == StepOf(at[a].snap.totp, otp)
      ok == step # None /\ AfterLast(step)
  IN
  /\ at[a].pc = "totp"
  /\ step # None => holder = None
  /\ user' = IF ok THEN [user EXCEPT !.last = step] ELSE user
  /\ uses' = IF ok /\ user.totp = at[a].snap.totp
               THEN [uses EXCEPT ![user.totp][step] = @ + 1] ELSE uses
  /\ at' = CASE ok -> [at EXCEPT ![a].pc = "success"]
            [] ~ok /\ otp # None -> [at EXCEPT ![a].pc = "recovery", ![a].otp = otp]
            [] OTHER -> [at EXCEPT ![a].pc = "fail"]
  /\ UNCHANGED <<fresh, confirm, holder, now, setTo, failures, redeemed>>

\* Mutant: the codes are read without FOR UPDATE.
FindCodeUnlocked(a) ==
  /\ at[a].pc = "recovery"
  /\ IF at[a].otp \in user.codes
       THEN at' = [at EXCEPT ![a].pc = "redeem", ![a].seen = user.codes]
       ELSE Goto(a, "fail")
  /\ UNCHANGED <<user, fresh, confirm, holder, now, history>>

\* consumeRecoveryCode: SELECT ... FOR UPDATE, roll back if the code is not there.
FindCode(a) ==
  /\ at[a].pc = "recovery" /\ holder = None
  /\ IF at[a].otp \in user.codes
       THEN /\ at' = [at EXCEPT ![a].pc = "redeem", ![a].seen = user.codes]
            /\ holder' = a
       ELSE Goto(a, "fail") /\ UNCHANGED holder
  /\ UNCHANGED <<user, fresh, confirm, now, history>>

\* ... write the list without the code, and commit.
RedeemCode(a) ==
  /\ at[a].pc = "redeem" /\ Writable(a)
  /\ user' = [user EXCEPT !.codes = at[a].seen \ {at[a].otp}]
  /\ redeemed' = [redeemed EXCEPT ![at[a].otp] = @ + 1]
  /\ holder' = None
  /\ at' = [at EXCEPT ![a].pc = "success", ![a].otp = None, ![a].seen = {}]
  /\ UNCHANGED <<fresh, confirm, now, setTo, failures, uses>>

\* Mutant: the threshold is compared with the count before this failure.
FailedLate(u) ==
  CASE u.lockedUntil # None /\ u.lockedUntil > now -> u
    [] u.lockedUntil # None /\ u.lockedUntil <= now ->
         [u EXCEPT !.failed = 1, !.lockedUntil = None]
    [] OTHER ->
         [u EXCEPT !.failed = @ + 1,
                   !.lockedUntil = IF u.failed >= LockThreshold THEN now + LockPeriod ELSE None]

\* recordLoginFailure: a running lock stays as it is, an expired one starts the
\* count again, and the threshold locks.
Failed(u) ==
  CASE u.lockedUntil # None /\ u.lockedUntil > now -> u
    [] u.lockedUntil # None /\ u.lockedUntil <= now ->
         [u EXCEPT !.failed = 1, !.lockedUntil = None]
    [] OTHER ->
         [u EXCEPT !.failed = @ + 1,
                   !.lockedUntil = IF u.failed + 1 >= LockThreshold THEN now + LockPeriod ELSE None]

RecordFailure(a) ==
  /\ at[a].pc = "fail" /\ holder = None
  /\ user' = Failed(user)
  /\ failures' = failures + 1
  /\ End(a)
  /\ UNCHANGED <<fresh, confirm, holder, now, setTo, uses, redeemed>>

\* Mutant: the new hash is written whatever the row holds.
RehashAlways(a) ==
  /\ at[a].pc = "success" /\ at[a].method = "pwd" /\ at[a].snap.weak
  /\ holder = None
  /\ user' = [user EXCEPT !.password = at[a].snap.password, !.weak = FALSE]
  /\ Goto(a, "rehashed")
  /\ UNCHANGED <<fresh, confirm, holder, now, history>>

\* rehashPasswordIfCurrent: the stronger hash replaces only the hash that was
\* verified.
Rehash(a) ==
  /\ at[a].pc = "success" /\ at[a].method = "pwd" /\ at[a].snap.weak
  /\ holder = None
  /\ user' = IF user.password = at[a].snap.password /\ user.weak
               THEN [user EXCEPT !.weak = FALSE] ELSE user
  /\ Goto(a, "rehashed")
  /\ UNCHANGED <<fresh, confirm, holder, now, history>>

\* recordLoginSuccess
Succeeded(u) == [u EXCEPT !.failed = 0, !.lockedUntil = None]

\* The success is recorded, with its audit record, and that is the end of the interaction.
RecordSuccess(a) ==
  /\ \/ at[a].pc = "rehashed"
     \/ at[a].pc = "success" /\ ~(at[a].method = "pwd" /\ at[a].snap.weak)
  /\ holder = None
  /\ user' = Succeeded(user)
  /\ failures' = 0
  /\ End(a)
  /\ UNCHANGED <<fresh, confirm, holder, now, setTo, uses, redeemed>>

\* A statement fails: the request ends, its transaction is rolled back.
Fail(a) ==
  /\ at[a].pc # "idle"
  /\ End(a)
  /\ holder' = IF holder = a THEN None ELSE holder
  /\ UNCHANGED <<user, fresh, confirm, now, history>>

----------------------------------------------------------------------------
(* Administration of the account                                           *)

\* updateUser and unlockUser on the row.
WithPassword(u, p) == [u EXCEPT !.password = p, !.weak = FALSE]
Unlocked(u) == [u EXCEPT !.failed = 0, !.lockedUntil = None]

ResetPassword(p) ==
  /\ holder = None
  /\ user' = Unlocked(WithPassword(user, p))
  /\ setTo' = p /\ failures' = 0
  /\ UNCHANGED <<fresh, at, confirm, holder, now, uses, redeemed>>

Unlock ==
  /\ holder = None
  /\ user' = Unlocked(user)
  /\ failures' = 0
  /\ UNCHANGED <<fresh, at, confirm, holder, now, setTo, uses, redeemed>>

SetEnabled(b) ==
  /\ holder = None
  /\ user' = [user EXCEPT !.enabled = b]
  /\ UNCHANGED <<fresh, at, confirm, holder, now, history>>

\* beginTotpEnrollment
Enrolling(u, s) == [u EXCEPT !.pending = s, !.pendingAt = now]

\* An enrolment starts with a new secret.
BeginTotp(s) ==
  /\ s \in fresh /\ holder = None
  /\ fresh' = fresh \ {s}
  /\ user' = Enrolling(user, s)
  /\ UNCHANGED <<at, confirm, holder, now, history>>

\* The confirmation reads the account and checks a code of the pending secret.
ConfirmRead(c, step) ==
  /\ confirm[c].pc = "idle" /\ user.pending # None
  /\ step - now \in {-1, 0, 1} /\ step <= MaxTime + 1
  /\ confirm' = [confirm EXCEPT ![c] = [pc |-> "checked", secret |-> user.pending, step |-> step]]
  /\ UNCHANGED <<user, fresh, at, holder, now, history>>

\* Mutant: the confirmation does not compare the pending secret.
MayEnrolAnyway(u, secret) == TRUE

\* confirmTotpEnrollment applies only if the pending secret is still the one
\* that was checked and is recent ...
MayEnrol(u, secret) == u.pending = secret /\ now - u.pendingAt < PendingPeriod

\* ... and makes it the account's, with new recovery codes, the code's step used.
Enrolled(u, c) ==
  [u EXCEPT !.totp = confirm[c].secret, !.pending = None, !.pendingAt = 0,
            !.codes = Batch[c], !.last = confirm[c].step]

Confirm(c) ==
  LET applied == MayEnrol(user, confirm[c].secret) IN
  /\ confirm[c].pc = "checked" /\ holder = None
  /\ confirm' = [confirm EXCEPT ![c].pc = IF applied THEN "applied" ELSE "refused"]
  /\ user' = IF applied THEN Enrolled(user, c) ELSE user
  /\ uses' = IF applied THEN [uses EXCEPT ![confirm[c].secret][confirm[c].step] = @ + 1] ELSE uses
  /\ UNCHANGED <<fresh, at, holder, now, setTo, failures, redeemed>>

\* configureTotp without a secret.
WithoutTotp(u) ==
  [u EXCEPT !.totp = None, !.pending = None, !.pendingAt = 0, !.codes = {}, !.last = None]

DisableTotp ==
  /\ holder = None
  /\ user' = WithoutTotp(user)
  /\ UNCHANGED <<fresh, at, confirm, holder, now, history>>

\* Time passes; a lock that runs out ends the period the failures are counted in.
Tick ==
  /\ now < MaxTime
  /\ now' = now + 1
  /\ failures' = IF user.lockedUntil = now + 1 THEN 0 ELSE failures
  /\ UNCHANGED <<user, fresh, at, confirm, holder, setTo, uses, redeemed>>

Typed == {None} \cup Codes \cup [secret : Secrets, step : 0..(MaxTime + 1)]

Next ==
  \/ \E a \in Attempts :
       \/ Read(a) \/ VerifyLdap(a) \/ LdapElsewhere(a) \/ Refuse(a) \/ FindCode(a)
       \/ RedeemCode(a) \/ RecordFailure(a) \/ Rehash(a) \/ RecordSuccess(a) \/ Fail(a)
       \/ \E guess \in Passwords : Verify(a, guess)
       \/ \E otp \in Typed : UseTotp(a, otp)
  \/ \E p \in Passwords : ResetPassword(p)
  \/ Unlock \/ DisableTotp \/ Tick
  \/ \E b \in BOOLEAN : SetEnabled(b)
  \/ \E s \in Secrets : BeginTotp(s)
  \/ \E c \in Confirmers, step \in 0..(MaxTime + 1) : ConfirmRead(c, step)
  \/ \E c \in Confirmers : Confirm(c)

Spec == Init /\ [][Next]_vars

----------------------------------------------------------------------------
(* Properties                                                              *)

\* Guessing is bounded whatever runs at once: between two resets (a sign-in, an
\* administrator, a lock running out) at most LockThreshold failures are answered,
\* and one more for each other request that was past its read of the account when
\* the lock fell (recordLoginFailure, and the check of the copy in the handler).
GuessesAreBounded == failures <= LockThreshold + Cardinality(Attempts) - 1

\* A sign-in's rehash never brings back a password an administrator replaced
\* while the sign-in was running (rehashPasswordIfCurrent).
PasswordIsTheLastSet == user.password = setTo

\* A second factor counts once.  A TOTP code of the account's current secret is good
\* for one sign-in or for the confirmation of the enrolment (consumeTotpStep,
\* confirmTotpEnrollment); a recovery code buys one sign-in and does not come back,
\* whatever enrolments are confirmed or removed meanwhile (consumeRecoveryCode).
FactorsAreOneUse ==
  /\ \A s \in Secrets : \A n \in DOMAIN uses[s] : uses[s][n] <= 1
  /\ \A c \in Codes : redeemed[c] <= 1 /\ (redeemed[c] = 1 => c \notin user.codes)

\* The codes a confirmation returned are good as long as its enrolment is the
\* account's: no other confirmation of the same enrolment replaced them.
GivenCodesAreHonoured ==
  \A c \in Confirmers : confirm[c].pc = "applied" /\ user.totp = confirm[c].secret =>
    \A code \in Batch[c] : code \in user.codes \/ redeemed[code] = 1
============================================================================
