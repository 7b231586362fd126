---------------------------- MODULE LoginProofs ----------------------------
(***************************************************************************)
(* Proofs about Login, for every number of sign-ins and confirmations that *)
(* run at once, and for all passwords, secrets, recovery codes and times.  *)
(***************************************************************************)
EXTENDS Login, FiniteSetTheorems, TLAPS

(***************************************************************************)
(* The inductive invariant.  While the account is locked, the sign-ins     *)
(* that may still fail are those that read it before: each is one failure  *)
(* the account may still see (GuessesHold).  A secret is generated, then   *)
(* pending, then the account's, then gone, and no code of it is used       *)
(* before it is the account's or after last_totp_step passed it            *)
(* (SecretsHold, UsesHold).  A recovery code is in the row from its        *)
(* confirmation until it is redeemed by the sign-in that holds the row     *)
(* (HolderHolds, CodesHold).                                               *)
(***************************************************************************)

Steps == -1..(MaxTime + 1)
Copy ==
  [password : Passwords, weak : BOOLEAN, enabled : BOOLEAN, totp : Secrets \cup {None},
   lockedUntil : Nat \cup {None}]
Row ==
  [password : Passwords, weak : BOOLEAN, enabled : BOOLEAN, totp : Secrets \cup {None},
   pending : Secrets \cup {None}, pendingAt : Nat, codes : SUBSET Codes,
   last : Nat \cup {None}, failed : Nat, lockedUntil : Nat \cup {None}]
Attempt ==
  [pc : {"idle", "verify", "refuse", "totp", "recovery", "redeem", "fail", "success", "rehashed"},
   snap : Copy \cup {None}, method : {"pwd", "ldap", None}, otp : Typed, seen : SUBSET Codes]
Confirmation ==
  [pc : {"idle", "checked", "applied", "refused"}, secret : Secrets \cup {None},
   step : 0..(MaxTime + 1)]

Types ==
  /\ user \in Row
  /\ fresh \subseteq Secrets
  /\ at \in [Attempts -> Attempt]
  /\ \A a \in Attempts : at[a].pc # "idle" => at[a].snap \in Copy
  /\ confirm \in [Confirmers -> Confirmation]
  /\ \A c \in Confirmers : confirm[c].pc # "idle" => confirm[c].secret \in Secrets
  /\ holder \in Attempts \cup {None}
  /\ now \in Nat /\ failures \in Nat
  /\ uses \in [Secrets -> [Steps -> Nat]]
  /\ redeemed \in [Codes -> Nat]

\* A sign-in that may still be answered "failed" while the account is locked.
Failing(a) ==
  \/ at[a].pc \in {"totp", "recovery", "redeem", "fail"}
  \/ at[a].pc = "verify" /\ at[a].snap.lockedUntil # user.lockedUntil
MayFail == {a \in Attempts : Failing(a)}

GuessesHold ==
  /\ user.lockedUntil = None => failures = user.failed /\ user.failed < LockThreshold
  /\ user.lockedUntil # None /\ user.lockedUntil <= now => failures = 0
  /\ user.lockedUntil # None /\ user.lockedUntil > now =>
       failures + Cardinality(MayFail) <= LockThreshold + Cardinality(Attempts) - 1

\* The row stands still under the sign-in that redeems a code.
HolderHolds ==
  \A a \in Attempts : at[a].pc = "redeem" =>
    holder = a /\ at[a].otp \in user.codes /\ at[a].seen = user.codes

\* A secret has one life.
SecretsHold ==
  /\ user.pending \notin fresh /\ user.totp \notin fresh
  /\ user.pending # None => user.pending # user.totp
  /\ \A c \in Confirmers : confirm[c].pc # "idle" => confirm[c].secret \notin fresh
  /\ \A c \in Confirmers : confirm[c].pc = "applied" => confirm[c].secret # user.pending

\* Codes of a secret are used in the order of their steps, while it is the account's.
UsesHold ==
  /\ \A s \in Secrets, n \in Steps : uses[s][n] <= 1
  /\ \A s \in Secrets, n \in Steps : s \in fresh \/ s = user.pending => uses[s][n] = 0
  /\ user.totp # None =>
       user.last # None /\ \A n \in Steps : n > user.last => uses[user.totp][n] = 0

\* A recovery code is redeemed at most once, after the confirmation that made it.
CodesHold ==
  /\ \A c \in Codes : redeemed[c] <= 1 /\ (redeemed[c] = 1 => c \notin user.codes)
  /\ \A c \in Confirmers : confirm[c].pc # "applied" =>
       \A code \in Batch[c] : redeemed[code] = 0 /\ code \notin user.codes

IInv ==
  /\ Types /\ GuessesHold /\ PasswordIsTheLastSet /\ HolderHolds /\ SecretsHold /\ UsesHold
  /\ CodesHold /\ GivenCodesAreHonoured

Factors == SecretsHold /\ UsesHold /\ CodesHold /\ GivenCodesAreHonoured
Kept == GuessesHold /\ PasswordIsTheLastSet /\ HolderHolds /\ Factors

----------------------------------------------------------------------------
(* Facts every step uses.                                                  *)

LEMMA NoAttemptType == NoAttempt \in Attempt /\ NoAttempt.pc = "idle"
BY DEF NoAttempt, Attempt, Typed

\* Initially nothing runs, and the account has no second factor.
LEMMA InitIInv == Init => IInv
<1> SUFFICES ASSUME Init PROVE IInv
  OBVIOUS
<1> USE LoginAssumption
<1>1. PICK p \in Passwords, weak \in BOOLEAN :
        /\ user = [password |-> p, weak |-> weak, enabled |-> TRUE, totp |-> None,
                   pending |-> None, pendingAt |-> 0, codes |-> {}, last |-> None,
                   failed |-> 0, lockedUntil |-> None]
        /\ setTo = p
  BY DEF Init
<1>2. user \in Row
  BY <1>1 DEF Row
<1>3. /\ user.password = setTo /\ user.totp = None /\ user.pending = None /\ user.codes = {}
      /\ user.last = None /\ user.failed = 0 /\ user.lockedUntil = None
  BY <1>1
<1>4. confirm \in [Confirmers -> Confirmation]
  BY DEF Init, Confirmation
<1>5. uses \in [Secrets -> [Steps -> Nat]]
  BY DEF Init, Steps
<1>6. /\ fresh = Secrets /\ holder = None /\ now = 0 /\ failures = 0
      /\ at = [a \in Attempts |-> NoAttempt] /\ redeemed = [c \in Codes |-> 0]
      /\ \A c \in Confirmers : confirm[c].pc = "idle"
      /\ \A s \in Secrets, n \in Steps : uses[s][n] = 0
  BY DEF Init, Steps
<1>7. Types
  BY <1>2, <1>4, <1>5, <1>6, NoAttemptType DEF Types
<1>8. GuessesHold /\ PasswordIsTheLastSet
  BY <1>3, <1>6 DEF GuessesHold, PasswordIsTheLastSet
<1>9. HolderHolds
  BY <1>6, NoAttemptType DEF HolderHolds
<1>10. SecretsHold /\ UsesHold
  BY <1>3, <1>6 DEF SecretsHold, UsesHold
<1>11. \A c \in Confirmers : Batch[c] \subseteq Codes
  BY DEF Codes
<1>12. CodesHold /\ GivenCodesAreHonoured
  BY <1>3, <1>6, <1>11 DEF CodesHold, GivenCodesAreHonoured
<1> QED BY <1>7, <1>8, <1>9, <1>10, <1>12 DEF IInv

\* A step of attempt a writes its record and leaves the others alone.
LEMMA AtSet ==
  ASSUME Types, NEW a \in Attempts, NEW r \in Attempt, r.pc # "idle" => r.snap \in Copy,
         at' = [at EXCEPT ![a] = r]
  PROVE  /\ at' \in [Attempts -> Attempt]
         /\ \A b \in Attempts : at'[b].pc # "idle" => at'[b].snap \in Copy
         /\ at'[a] = r /\ \A b \in Attempts : b # a => at'[b] = at[b]
BY DEF Types

LEMMA Ending ==
  ASSUME Types, NEW a \in Attempts, End(a)
  PROVE  /\ at' \in [Attempts -> Attempt]
         /\ \A b \in Attempts : at'[b].pc # "idle" => at'[b].snap \in Copy
         /\ at'[a].pc = "idle" /\ \A b \in Attempts : b # a => at'[b] = at[b]
BY AtSet, NoAttemptType DEF End

LEMMA Going ==
  ASSUME Types, NEW a \in Attempts, at[a].pc # "idle",
         NEW pc \in {"refuse", "totp", "fail", "success", "rehashed"}, Goto(a, pc)
  PROVE  /\ at' \in [Attempts -> Attempt]
         /\ \A b \in Attempts : at'[b].pc # "idle" => at'[b].snap \in Copy
         /\ at'[a].pc = pc /\ \A b \in Attempts : b # a => at'[b] = at[b]
<1> DEFINE r == [at[a] EXCEPT !.pc = pc]
<1>1. at[a] \in Attempt /\ at[a].snap \in Copy
  BY DEF Types
<1>2. r \in Attempt /\ r.pc = pc /\ r.snap = at[a].snap
  BY <1>1 DEF Attempt
<1>3. at' = [at EXCEPT ![a] = r]
  BY DEF Goto
<1> HIDE DEF r
<1> QED BY <1>1, <1>2, <1>3, AtSet

\* Nobody redeems a code while no transaction holds the row.
LEMMA HolderFree ==
  ASSUME IInv, holder = None, NEW a \in Attempts
  PROVE  at[a].pc # "redeem"
BY LoginAssumption DEF IInv, HolderHolds

\* What the second factors rest on.
LEMMA FactorsSame ==
  ASSUME IInv, UNCHANGED <<fresh, confirm, uses, redeemed>>, user'.pending = user.pending,
         user'.totp = user.totp, user'.last = user.last, user'.codes = user.codes
  PROVE  Factors'
<1>1. SecretsHold'
  BY DEF IInv, SecretsHold
<1>2. UsesHold'
  BY DEF IInv, UsesHold
<1>3. CodesHold'
  BY DEF IInv, CodesHold
<1>4. GivenCodesAreHonoured'
  BY DEF IInv, GivenCodesAreHonoured
<1> QED BY <1>1, <1>2, <1>3, <1>4 DEF Factors

\* What the lock rests on: a step that counts nothing lets nobody new fail.
LEMMA GuessesSame ==
  ASSUME IInv, UNCHANGED <<now, failures>>, user'.lockedUntil = user.lockedUntil,
         user'.failed = user.failed,
         user.lockedUntil # None /\ user.lockedUntil > now =>
           \A a \in Attempts : Failing(a)' => Failing(a)
  PROVE  GuessesHold'
<1>1. CASE ~(user.lockedUntil # None /\ user.lockedUntil > now)
  BY <1>1 DEF IInv, GuessesHold
<1>2. CASE user.lockedUntil # None /\ user.lockedUntil > now
  <2>1. MayFail' \subseteq MayFail /\ MayFail \subseteq Attempts
    BY <1>2 DEF MayFail
  <2>2. IsFiniteSet(MayFail) /\ Cardinality(MayFail') <= Cardinality(MayFail)
        /\ Cardinality(MayFail') \in Nat /\ Cardinality(MayFail) \in Nat
        /\ Cardinality(Attempts) \in Nat
    BY <2>1, LoginAssumption, FS_Subset, FS_CardinalityType
  <2>3. failures + Cardinality(MayFail) <= LockThreshold + Cardinality(Attempts) - 1
        /\ failures \in Nat
    BY <1>2 DEF IInv, GuessesHold, Types
  <2>4. failures + Cardinality(MayFail') <= LockThreshold + Cardinality(Attempts) - 1
    BY <2>2, <2>3, LoginAssumption
  <2> QED BY <1>2, <2>4, LoginAssumption DEF GuessesHold, IInv, Types
<1> QED BY <1>1, <1>2

\* A reset starts the count again.
LEMMA GuessesReset ==
  ASSUME IInv, failures' = 0, user'.lockedUntil = None, user'.failed = 0
  PROVE  GuessesHold'
BY LoginAssumption DEF GuessesHold

\* The handler's decisions on its copy of the account.
LEMMA MoveKeeps ==
  ASSUME IInv, NEW a \in Attempts, UNCHANGED <<user, fresh, confirm, now, history>>,
         \A b \in Attempts : b # a => at'[b] = at[b],
         at'[a].pc # "redeem", holder' = holder \/ (holder = a /\ holder' = None),
         user.lockedUntil # None /\ user.lockedUntil > now => (Failing(a)' => Failing(a))
  PROVE  Kept'
<1>1. GuessesHold'
  <2>1. \A b \in Attempts : b # a => (Failing(b)' => Failing(b))
    BY DEF Failing
  <2> QED BY <2>1, GuessesSame DEF history
<1>2. PasswordIsTheLastSet'
  BY DEF IInv, PasswordIsTheLastSet, history
<1>3. HolderHolds'
  BY DEF IInv, HolderHolds
<1>4. Factors'
  BY FactorsSame DEF history
<1> QED BY <1>1, <1>2, <1>3, <1>4 DEF Kept

----------------------------------------------------------------------------
(* The sign-in handler.                                                    *)

\* The copy is as locked as the account.
LEMMA ReadStep ==
  ASSUME IInv, NEW a \in Attempts, Read(a)
  PROVE  IInv'
<1> DEFINE r == [NoAttempt EXCEPT !.pc = "verify", !.snap = Snapshot]
<1>1. Types /\ UNCHANGED <<user, fresh, confirm, holder, now, history>> /\ at' = [at EXCEPT ![a] = r]
  BY DEF IInv, Read
<1>2. Snapshot \in Copy /\ Snapshot.lockedUntil = user.lockedUntil
  BY <1>1 DEF Snapshot, Copy, Types, Row
<1>3. r \in Attempt /\ r.pc = "verify" /\ r.snap = Snapshot
  BY <1>2, NoAttemptType DEF NoAttempt, Attempt, Typed
<1> HIDE DEF r
<1>4. /\ at' \in [Attempts -> Attempt] /\ \A b \in Attempts : at'[b].pc # "idle" => at'[b].snap \in Copy
      /\ at'[a] = r /\ \A b \in Attempts : b # a => at'[b] = at[b]
  BY <1>1, <1>2, <1>3, AtSet
<1>5. Types'
  BY <1>1, <1>4 DEF Types, history
<1>6. ~Failing(a)'
  BY <1>1, <1>2, <1>3, <1>4 DEF Failing
<1>7. Kept'
  BY <1>1, <1>3, <1>4, <1>6, MoveKeeps
<1> QED BY <1>5, <1>7 DEF IInv, Kept, Factors

\* A copy that is locked is refused; whoever passes it may still fail.
LEMMA DecideKeeps ==
  ASSUME IInv, NEW a \in Attempts, NEW snap \in Copy, NEW ok \in BOOLEAN,
         NEW method \in {"pwd", "ldap"}, Decide(a, snap, ok, method),
         UNCHANGED <<user, fresh, confirm, holder, now, history>>,
         at[a].pc = "verify", snap = at[a].snap \/ snap.lockedUntil = user.lockedUntil
  PROVE  IInv'
<1> DEFINE kept == [snap EXCEPT !.lockedUntil = None, !.enabled = TRUE]
           v == Verdict(snap, ok)
           r == [at[a] EXCEPT !.pc = v, !.method = method, !.snap = kept]
<1>1. Types /\ at[a] \in Attempt
  BY DEF IInv, Types
<1>2. kept \in Copy
  BY DEF Copy
<1>3. v \in {"refuse", "totp", "success", "fail"} /\ (Locked(snap) => v = "refuse")
  BY DEF Verdict
<1>4. at' = [at EXCEPT ![a] = r]
  BY DEF Decide
<1> HIDE DEF kept, v
<1>5. r \in Attempt /\ r.pc = v /\ r.snap = kept
  BY <1>1, <1>2, <1>3 DEF Attempt
<1> HIDE DEF r
<1>6. /\ at' \in [Attempts -> Attempt] /\ \A b \in Attempts : at'[b].pc # "idle" => at'[b].snap \in Copy
      /\ at'[a] = r /\ \A b \in Attempts : b # a => at'[b] = at[b]
  BY <1>1, <1>2, <1>4, <1>5, AtSet
<1>7. Types'
  BY <1>1, <1>6 DEF Types, history
<1>8. user.lockedUntil # None /\ user.lockedUntil > now => (Failing(a)' => Failing(a))
  BY <1>3, <1>5, <1>6 DEF Failing, Locked
<1>9. at'[a].pc # "redeem"
  BY <1>3, <1>5, <1>6
<1>10. Kept'
  BY <1>6, <1>8, <1>9, MoveKeeps
<1> QED BY <1>7, <1>10 DEF IInv, Kept, Factors

LEMMA VerifyStep ==
  ASSUME IInv, NEW a \in Attempts, NEW guess \in Passwords, Verify(a, guess)
  PROVE  IInv'
<1>1. at[a].snap \in Copy
  BY DEF IInv, Types, Verify
<1> QED BY <1>1, DecideKeeps DEF Verify

LEMMA VerifyLdapStep ==
  ASSUME IInv, NEW a \in Attempts, VerifyLdap(a)
  PROVE  IInv'
<1>1. Snapshot \in Copy /\ Snapshot.lockedUntil = user.lockedUntil
  BY DEF Snapshot, Copy, IInv, Types, Row
<1> QED BY <1>1, DecideKeeps DEF VerifyLdap

\* Requests that end, and release the row they hold.
LEMMA EndKeeps ==
  ASSUME IInv, NEW a \in Attempts, End(a), UNCHANGED <<user, fresh, confirm, now, history>>,
         holder' = holder \/ (holder = a /\ holder' = None)
  PROVE  IInv'
<1>1. Types
  BY DEF IInv
<1>2. /\ at' \in [Attempts -> Attempt] /\ \A b \in Attempts : at'[b].pc # "idle" => at'[b].snap \in Copy
      /\ at'[a].pc = "idle" /\ \A b \in Attempts : b # a => at'[b] = at[b]
  BY <1>1, Ending
<1>3. Types'
  BY <1>1, <1>2 DEF Types, history
<1>4. ~Failing(a)'
  BY <1>2 DEF Failing
<1>5. Kept'
  BY <1>2, <1>4, MoveKeeps
<1> QED BY <1>3, <1>5 DEF IInv, Kept, Factors

\* consumeTotpStep: what is accepted of the current secret is after all that was used.
LEMMA UseTotpStep ==
  ASSUME IInv, NEW a \in Attempts, NEW otp \in Typed, UseTotp(a, otp)
  PROVE  IInv'
<1> USE LoginAssumption
<1> DEFINE step == StepOf(at[a].snap.totp, otp)
           ok == step # None /\ AfterLast(step)
<1>1. Types /\ at[a] \in Attempt /\ at[a].snap \in Copy /\ at[a].pc = "totp" /\ Failing(a)
  BY DEF IInv, Types, UseTotp, Failing
<1>2. step # None => step \in Steps /\ step \in Nat /\ at[a].snap.totp \in Secrets
  <2>1. ASSUME otp \in Tokens PROVE otp \in [secret : Secrets, step : 0..(MaxTime + 1)]
    BY <2>1, CodesAssumption DEF Typed
  <2> QED BY <2>1 DEF StepOf, Steps
<1>3. CASE ~ok
  <2>1. UNCHANGED <<user, fresh, confirm, holder, now, history>>
    BY <1>3 DEF UseTotp, history
  <2> DEFINE r == IF otp # None THEN [at[a] EXCEPT !.pc = "recovery", !.otp = otp]
                                ELSE [at[a] EXCEPT !.pc = "fail"]
  <2>2. at' = [at EXCEPT ![a] = r]
    BY <1>3 DEF UseTotp
  <2>3. r \in Attempt /\ r.pc \in {"recovery", "fail"} /\ r.snap = at[a].snap
    BY <1>1 DEF Attempt
  <2> HIDE DEF r
  <2>4. /\ at' \in [Attempts -> Attempt] /\ \A b \in Attempts : at'[b].pc # "idle" => at'[b].snap \in Copy
        /\ at'[a] = r /\ \A b \in Attempts : b # a => at'[b] = at[b]
    BY <1>1, <2>2, <2>3, AtSet
  <2>5. Types'
    BY <1>1, <2>1, <2>4 DEF Types, history
  <2>6. Kept'
    BY <1>1, <2>1, <2>3, <2>4, MoveKeeps
  <2> QED BY <2>5, <2>6 DEF IInv, Kept, Factors
<1>4. CASE ok
  <2>1. /\ holder = None /\ user' = [user EXCEPT !.last = step]
        /\ UNCHANGED <<fresh, confirm, holder, now, setTo, failures, redeemed>>
        /\ uses' = IF user.totp = at[a].snap.totp
                     THEN [uses EXCEPT ![user.totp][step] = @ + 1] ELSE uses
        /\ Goto(a, "success")
    BY <1>4 DEF UseTotp, Goto
  <2>2. step \in Steps /\ step \in Nat /\ at[a].snap.totp \in Secrets /\ AfterLast(step)
    BY <1>2, <1>4
  <2> HIDE DEF step, ok
  <2>3. /\ user' \in Row /\ user'.last = step /\ user'.password = user.password
        /\ user'.totp = user.totp /\ user'.pending = user.pending /\ user'.codes = user.codes
        /\ user'.failed = user.failed /\ user'.lockedUntil = user.lockedUntil
    BY <1>1, <2>1, <2>2 DEF Types, Row
  <2>4. /\ at' \in [Attempts -> Attempt] /\ \A b \in Attempts : at'[b].pc # "idle" => at'[b].snap \in Copy
        /\ at'[a].pc = "success" /\ \A b \in Attempts : b # a => at'[b] = at[b]
    BY <1>1, <2>1, Going
  <2>5. uses' \in [Secrets -> [Steps -> Nat]]
    BY <1>1, <2>1, <2>2 DEF Types
  <2>6. Types'
    BY <1>1, <2>1, <2>3, <2>4, <2>5 DEF Types
  <2>7. GuessesHold'
    <3>1. \A b \in Attempts : Failing(b)' => Failing(b)
      BY <1>1, <2>3, <2>4 DEF Failing
    <3> QED BY <2>1, <2>3, <3>1, GuessesSame
  <2>8. HolderHolds'
    BY <2>1, <2>4, HolderFree DEF HolderHolds
  <2>9. SecretsHold'
    BY <2>1, <2>3 DEF IInv, SecretsHold
  <2>10. UsesHold'
    <3>1. UsesHold /\ SecretsHold
      BY DEF IInv
    <3>2. CASE user.totp = at[a].snap.totp
      <4>1. user.totp \in Secrets /\ user.totp # None /\ user.last # None
        BY <2>2, <3>1, <3>2 DEF UsesHold
      <4>2. user.last \in Nat /\ user.last < step
        BY <1>1, <2>2, <4>1 DEF Types, Row, AfterLast
      <4>3. uses[user.totp][step] = 0
        BY <2>2, <3>1, <4>1, <4>2 DEF UsesHold
      <4>4. uses' = [uses EXCEPT ![user.totp][step] = @ + 1]
        BY <2>1, <3>2
      <4>5. uses'[user.totp][step] = 1
        BY <1>1, <2>2, <4>1, <4>3, <4>4 DEF Types
      <4>6. \A s \in Secrets, n \in Steps : s # user.totp \/ n # step => uses'[s][n] = uses[s][n]
        BY <1>1, <2>2, <4>1, <4>4 DEF Types
      <4>7. user.totp \notin fresh /\ user.totp # user.pending
        BY <3>1, <4>1 DEF SecretsHold
      <4>8. \A s \in Secrets, n \in Steps : uses'[s][n] <= 1
        BY <3>1, <4>5, <4>6 DEF UsesHold
      <4>9. \A s \in Secrets, n \in Steps : s \in fresh \/ s = user.pending => uses'[s][n] = 0
        BY <3>1, <4>6, <4>7 DEF UsesHold
      <4>10. \A n \in Steps : n > step => uses'[user.totp][n] = 0
        <5>1. ASSUME NEW n \in Steps, n > step PROVE uses'[user.totp][n] = 0
          <6>1. n > user.last /\ n # step
            BY <2>2, <4>2, <5>1 DEF Steps
          <6> QED BY <3>1, <4>1, <4>6, <6>1 DEF UsesHold
        <5> QED BY <5>1
      <4> QED BY <2>1, <2>2, <2>3, <4>8, <4>9, <4>10 DEF UsesHold
    <3>3. CASE user.totp # at[a].snap.totp
      <4>1. uses' = uses
        BY <2>1, <3>3
      <4>2. ASSUME user.totp # None, NEW n \in Steps, n > step PROVE uses[user.totp][n] = 0
        <5>1. user.last \in Nat /\ user.last < step
          BY <1>1, <2>2, <3>1, <4>2 DEF Types, Row, AfterLast, UsesHold
        <5>2. n > user.last
          BY <2>2, <4>2, <5>1 DEF Steps
        <5> QED BY <3>1, <4>2, <5>2 DEF UsesHold
      <4> QED BY <2>1, <2>2, <2>3, <3>1, <4>1, <4>2 DEF UsesHold
    <3> QED BY <3>2, <3>3
  <2>11. CodesHold' /\ GivenCodesAreHonoured'
    BY <2>1, <2>3 DEF IInv, CodesHold, GivenCodesAreHonoured
  <2>12. PasswordIsTheLastSet'
    BY <2>1, <2>3 DEF IInv, PasswordIsTheLastSet
  <2> QED BY <2>6, <2>7, <2>8, <2>9, <2>10, <2>11, <2>12 DEF IInv
<1> QED BY <1>3, <1>4

\* consumeRecoveryCode takes the row if the code is there.
LEMMA FindCodeStep ==
  ASSUME IInv, NEW a \in Attempts, FindCode(a)
  PROVE  IInv'
<1> USE LoginAssumption
<1>1. Types /\ at[a] \in Attempt /\ at[a].snap \in Copy /\ at[a].pc = "recovery" /\ Failing(a)
      /\ UNCHANGED <<user, fresh, confirm, now, history>> /\ holder = None
  BY DEF IInv, Types, FindCode, Failing
<1>2. CASE at[a].otp \notin user.codes
  <2>1. Goto(a, "fail") /\ UNCHANGED holder
    BY <1>2 DEF FindCode
  <2>2. /\ at' \in [Attempts -> Attempt] /\ \A b \in Attempts : at'[b].pc # "idle" => at'[b].snap \in Copy
        /\ at'[a].pc = "fail" /\ \A b \in Attempts : b # a => at'[b] = at[b]
    BY <1>1, <2>1, Going
  <2>3. Types'
    BY <1>1, <2>1, <2>2 DEF Types, history
  <2>4. Kept'
    BY <1>1, <2>1, <2>2, MoveKeeps
  <2> QED BY <2>3, <2>4 DEF IInv, Kept, Factors
<1>3. CASE at[a].otp \in user.codes
  <2> DEFINE r == [at[a] EXCEPT !.pc = "redeem", !.seen = user.codes]
  <2>1. at' = [at EXCEPT ![a] = r] /\ holder' = a
    BY <1>3 DEF FindCode
  <2>2. r \in Attempt /\ r.pc = "redeem" /\ r.seen = user.codes /\ r.otp = at[a].otp /\ r.snap = at[a].snap
    BY <1>1 DEF Attempt, Types, Row
  <2> HIDE DEF r
  <2>3. /\ at' \in [Attempts -> Attempt] /\ \A b \in Attempts : at'[b].pc # "idle" => at'[b].snap \in Copy
        /\ at'[a] = r /\ \A b \in Attempts : b # a => at'[b] = at[b]
    BY <1>1, <2>1, <2>2, AtSet
  <2>4. Types'
    BY <1>1, <2>1, <2>3 DEF Types, history
  <2>5. \A b \in Attempts : Failing(b)' => Failing(b)
    BY <1>1, <2>3 DEF Failing
  <2>6. GuessesHold'
    BY <1>1, <2>5, GuessesSame DEF history
  <2>7. PasswordIsTheLastSet' /\ Factors'
    BY <1>1, FactorsSame DEF IInv, PasswordIsTheLastSet, history
  <2>8. HolderHolds'
    BY <1>1, <1>3, <2>1, <2>2, <2>3, HolderFree DEF HolderHolds
  <2> QED BY <2>4, <2>6, <2>7, <2>8 DEF IInv, Factors
<1> QED BY <1>2, <1>3

\* The list that is written back is the row's, without the code that is redeemed.
LEMMA RedeemCodeStep ==
  ASSUME IInv, NEW a \in Attempts, RedeemCode(a)
  PROVE  IInv'
<1> USE LoginAssumption
<1> DEFINE code == at[a].otp
<1>1. /\ Types /\ at[a] \in Attempt /\ at[a].snap \in Copy /\ at[a].pc = "redeem" /\ Failing(a)
      /\ UNCHANGED <<fresh, confirm, now, setTo, failures, uses>> /\ holder' = None
      /\ at[a].otp \in user.codes /\ at[a].seen = user.codes /\ holder = a
  BY DEF IInv, Types, RedeemCode, Failing, HolderHolds
<1>2. user' = [user EXCEPT !.codes = user.codes \ {code}]
  BY <1>1 DEF RedeemCode
<1>3. code \in Codes /\ code \in user.codes
  BY <1>1 DEF Types, Row
<1>4. redeemed' = [redeemed EXCEPT ![code] = @ + 1]
  BY DEF RedeemCode
<1> DEFINE r == [at[a] EXCEPT !.pc = "success", !.otp = None, !.seen = {}]
<1>5. at' = [at EXCEPT ![a] = r]
  BY DEF RedeemCode
<1>6. r \in Attempt /\ r.pc = "success" /\ r.snap = at[a].snap
  BY <1>1 DEF Attempt, Typed
<1> HIDE DEF r, code
<1>7. /\ at' \in [Attempts -> Attempt] /\ \A b \in Attempts : at'[b].pc # "idle" => at'[b].snap \in Copy
      /\ at'[a] = r /\ \A b \in Attempts : b # a => at'[b] = at[b]
  BY <1>1, <1>5, <1>6, AtSet
<1>8. /\ user' \in Row /\ user'.codes = user.codes \ {code} /\ user'.password = user.password
      /\ user'.totp = user.totp /\ user'.pending = user.pending /\ user'.last = user.last
      /\ user'.failed = user.failed /\ user'.lockedUntil = user.lockedUntil
  BY <1>1, <1>2 DEF Types, Row
<1>9. CodesHold /\ redeemed[code] = 0 /\ redeemed'[code] = 1 /\ redeemed' \in [Codes -> Nat]
      /\ \A c \in Codes : c # code => redeemed'[c] = redeemed[c]
  <2>1. CodesHold /\ redeemed \in [Codes -> Nat]
    BY <1>1 DEF IInv, Types
  <2>2. redeemed[code] \in Nat /\ redeemed[code] <= 1 /\ redeemed[code] # 1
    BY <1>3, <2>1 DEF CodesHold
  <2>3. redeemed[code] = 0
    BY <2>2
  <2> QED BY <1>3, <1>4, <2>1, <2>3
<1>10. Types'
  BY <1>1, <1>7, <1>8, <1>9 DEF Types
<1>11. GuessesHold'
  <2>1. \A b \in Attempts : Failing(b)' => Failing(b)
    BY <1>1, <1>7, <1>8 DEF Failing
  <2> QED BY <1>1, <1>8, <2>1, GuessesSame
<1>12. HolderHolds'
  <2>1. \A b \in Attempts : b # a => at[b].pc # "redeem"
    BY <1>1 DEF IInv, HolderHolds
  <2> QED BY <1>6, <1>7, <2>1 DEF HolderHolds
<1>13. SecretsHold' /\ UsesHold' /\ PasswordIsTheLastSet'
  BY <1>1, <1>8 DEF IInv, SecretsHold, UsesHold, PasswordIsTheLastSet
<1>14. CodesHold'
  <2>1. \A c \in Confirmers : Batch[c] \subseteq Codes
    BY DEF Codes
  <2>2. \A c \in Codes : redeemed'[c] <= 1 /\ (redeemed'[c] = 1 => c \notin user'.codes)
    BY <1>8, <1>9 DEF CodesHold
  <2>3. ASSUME NEW c \in Confirmers, confirm[c].pc # "applied", NEW d \in Batch[c]
        PROVE  redeemed'[d] = 0 /\ d \notin user'.codes
    <3>1. d # code /\ d \in Codes
      BY <1>3, <1>9, <2>1, <2>3 DEF CodesHold
    <3> QED BY <1>8, <1>9, <2>3, <3>1 DEF CodesHold
  <2> QED BY <1>1, <2>2, <2>3 DEF CodesHold
<1>15. GivenCodesAreHonoured'
  <2>1. \A c \in Confirmers : Batch[c] \subseteq Codes
    BY DEF Codes
  <2> QED BY <1>1, <1>8, <1>9, <2>1 DEF IInv, GivenCodesAreHonoured
<1> QED BY <1>10, <1>11, <1>12, <1>13, <1>14, <1>15 DEF IInv

\* The three cases of recordLoginFailure.
LEMMA FailedCases ==
  ASSUME NEW u \in Row, now \in Nat
  PROVE  /\ u.lockedUntil # None /\ u.lockedUntil > now => Failed(u) = u
         /\ u.lockedUntil # None /\ u.lockedUntil <= now =>
              Failed(u) = [u EXCEPT !.failed = 1, !.lockedUntil = None]
         /\ u.lockedUntil = None =>
              Failed(u) = [u EXCEPT !.failed = u.failed + 1,
                 !.lockedUntil = IF u.failed + 1 >= LockThreshold THEN now + LockPeriod ELSE None]
         /\ u.lockedUntil \in Nat \cup {None} /\ u.failed \in Nat
<1>1. u.lockedUntil \in Nat \cup {None} /\ u.failed \in Nat
  BY DEF Row
<1>2. u.lockedUntil # None => ~(u.lockedUntil > now /\ u.lockedUntil <= now)
                              /\ (u.lockedUntil > now \/ u.lockedUntil <= now)
  BY <1>1
<1> QED BY <1>1, <1>2 DEF Failed

\* recordLoginFailure: below the threshold it counts, at the threshold it locks, and
\* under a lock it uses up one of those that may still fail.
LEMMA RecordFailureStep ==
  ASSUME IInv, NEW a \in Attempts, RecordFailure(a)
  PROVE  IInv'
<1> USE LoginAssumption
<1>1. /\ Types /\ at[a].pc = "fail" /\ Failing(a) /\ holder = None /\ user' = Failed(user)
      /\ failures' = failures + 1 /\ End(a)
      /\ UNCHANGED <<fresh, confirm, holder, now, setTo, uses, redeemed>>
  BY DEF IInv, RecordFailure, Failing
<1>2. /\ at' \in [Attempts -> Attempt] /\ \A b \in Attempts : at'[b].pc # "idle" => at'[b].snap \in Copy
      /\ at'[a].pc = "idle" /\ \A b \in Attempts : b # a => at'[b] = at[b]
  BY <1>1, Ending
<1>3. user \in Row /\ user.failed \in Nat /\ user.lockedUntil \in Nat \cup {None} /\ now \in Nat
      /\ now + LockPeriod \in Nat /\ failures \in Nat
  BY <1>1 DEF Types, Row
<1>4. Cardinality(Attempts) \in Nat /\ Cardinality(Attempts) >= 1 /\ Cardinality(Attempts \ {a}) = Cardinality(Attempts) - 1
      /\ IsFiniteSet(Attempts \ {a}) /\ IsFiniteSet(Attempts)
  <2>1. IsFiniteSet(Attempts) /\ IsFiniteSet(Attempts \ {a})
        /\ Cardinality(Attempts \ {a}) = Cardinality(Attempts) - 1
    BY FS_RemoveElement
  <2>2. Cardinality(Attempts) \in Nat /\ Cardinality(Attempts \ {a}) \in Nat
    BY <2>1, FS_CardinalityType
  <2> QED BY <2>1, <2>2
<1>5. /\ user' \in Row /\ user'.codes = user.codes /\ user'.password = user.password
      /\ user'.totp = user.totp /\ user'.pending = user.pending /\ user'.last = user.last
  <2>1. CASE user.lockedUntil # None /\ user.lockedUntil > now
    BY <1>1, <1>3, <2>1, FailedCases
  <2>2. ASSUME NEW n \in Nat, NEW l \in Nat \cup {None},
               user' = [user EXCEPT !.failed = n, !.lockedUntil = l]
        PROVE  /\ user' \in Row /\ user'.codes = user.codes /\ user'.password = user.password
               /\ user'.totp = user.totp /\ user'.pending = user.pending /\ user'.last = user.last
    BY <1>3, <2>2 DEF Row
  <2>3. CASE user.lockedUntil # None /\ user.lockedUntil <= now
    <3>1. user' = [user EXCEPT !.failed = 1, !.lockedUntil = None]
      BY <1>1, <1>3, <2>3, FailedCases
    <3> QED BY <2>2, <3>1
  <2>4. CASE user.lockedUntil = None
    <3> DEFINE l == IF user.failed + 1 >= LockThreshold THEN now + LockPeriod ELSE None
    <3>1. user' = [user EXCEPT !.failed = user.failed + 1, !.lockedUntil = l]
      BY <1>1, <1>3, <2>4, FailedCases
    <3>2. user.failed + 1 \in Nat /\ l \in Nat \cup {None}
      BY <1>3
    <3> HIDE DEF l
    <3> QED BY <2>2, <3>1, <3>2
  <2> QED BY <1>3, <2>1, <2>3, <2>4
<1>6. Types'
  BY <1>1, <1>2, <1>3, <1>5 DEF Types
<1>7. GuessesHold'
  <2>1. GuessesHold
    BY DEF IInv
  <2>2. CASE user.lockedUntil # None /\ user.lockedUntil > now
    <3>1. user' = user
      BY <1>1, <1>3, <2>2, FailedCases
    <3>2. MayFail' \subseteq MayFail \ {a} /\ a \in MayFail /\ MayFail \subseteq Attempts
      BY <1>1, <1>2, <3>1 DEF MayFail, Failing
    <3>3. IsFiniteSet(MayFail) /\ Cardinality(MayFail) \in Nat
      BY <1>4, <3>2, FS_Subset, FS_CardinalityType
    <3>4. Cardinality(MayFail \ {a}) = Cardinality(MayFail) - 1 /\ IsFiniteSet(MayFail \ {a})
      BY <3>2, <3>3, FS_RemoveElement
    <3>5. Cardinality(MayFail') <= Cardinality(MayFail \ {a}) /\ Cardinality(MayFail') \in Nat
      BY <3>2, <3>4, FS_Subset, FS_CardinalityType
    <3>6. failures + Cardinality(MayFail) <= LockThreshold + Cardinality(Attempts) - 1
      BY <2>1, <2>2 DEF GuessesHold
    <3>7. (failures + 1) + Cardinality(MayFail') <= LockThreshold + Cardinality(Attempts) - 1
      BY <1>3, <1>4, <3>3, <3>4, <3>5, <3>6
    <3> QED BY <1>1, <1>3, <2>2, <3>1, <3>7 DEF GuessesHold
  <2>3. CASE user.lockedUntil # None /\ user.lockedUntil <= now
    <3>1. user'.failed = 1 /\ user'.lockedUntil = None
      BY <1>1, <1>3, <2>3, FailedCases DEF Row
    <3> QED BY <1>1, <2>1, <2>3, <3>1 DEF GuessesHold
  <2>4. CASE user.lockedUntil = None
    <3>1. failures = user.failed /\ user.failed < LockThreshold
      BY <2>1, <2>4 DEF GuessesHold
    <3>2. user'.failed = user.failed + 1
          /\ user'.lockedUntil = IF user.failed + 1 >= LockThreshold THEN now + LockPeriod ELSE None
      <4> DEFINE l == IF user.failed + 1 >= LockThreshold THEN now + LockPeriod ELSE None
      <4>1. user' = [user EXCEPT !.failed = user.failed + 1, !.lockedUntil = l]
        BY <1>1, <1>3, <2>4, FailedCases
      <4>2. user.failed + 1 \in Nat /\ l \in Nat \cup {None}
        BY <1>3
      <4> HIDE DEF l
      <4>3. user'.failed = user.failed + 1 /\ user'.lockedUntil = l
        BY <1>3, <4>1, <4>2 DEF Row
      <4> QED BY <4>3 DEF l
    <3>3. CASE user.failed + 1 < LockThreshold
      BY <1>1, <1>3, <3>1, <3>2, <3>3 DEF GuessesHold
    <3>4. CASE user.failed + 1 >= LockThreshold
      <4>1. failures' = LockThreshold /\ user'.lockedUntil = now + LockPeriod
        <5>1. user.failed + 1 = LockThreshold
          BY <1>3, <3>1, <3>4
        <5> QED BY <1>1, <3>1, <3>2, <3>4, <5>1
      <4>2. MayFail' \subseteq Attempts \ {a}
        BY <1>2 DEF MayFail, Failing
      <4>3. Cardinality(MayFail') <= Cardinality(Attempts \ {a}) /\ Cardinality(MayFail') \in Nat
        BY <1>4, <4>2, FS_Subset, FS_CardinalityType
      <4>4. failures' + Cardinality(MayFail') <= LockThreshold + Cardinality(Attempts) - 1
        BY <1>4, <4>1, <4>3
      <4>5. user'.lockedUntil # None /\ ~(user'.lockedUntil <= now')
        BY <1>1, <1>3, <4>1
      <4> QED BY <4>4, <4>5 DEF GuessesHold
    <3> QED BY <1>3, <3>3, <3>4
  <2> QED BY <1>3, <2>2, <2>3, <2>4
<1>8. HolderHolds'
  BY <1>1, <1>2, HolderFree DEF HolderHolds
<1>9. PasswordIsTheLastSet' /\ Factors'
  BY <1>1, <1>5, FactorsSame DEF IInv, PasswordIsTheLastSet
<1> QED BY <1>6, <1>7, <1>8, <1>9 DEF IInv, Factors

\* Only the hash that was verified is replaced, by one of the same password.
LEMMA RehashStep ==
  ASSUME IInv, NEW a \in Attempts, Rehash(a)
  PROVE  IInv'
<1>1. /\ Types /\ at[a].pc = "success" /\ holder = None /\ Goto(a, "rehashed")
      /\ user' = IF user.password = at[a].snap.password /\ user.weak
                   THEN [user EXCEPT !.weak = FALSE] ELSE user
      /\ UNCHANGED <<fresh, confirm, holder, now, history>>
  BY DEF IInv, Rehash
<1>2. /\ at' \in [Attempts -> Attempt] /\ \A b \in Attempts : at'[b].pc # "idle" => at'[b].snap \in Copy
      /\ at'[a].pc = "rehashed" /\ \A b \in Attempts : b # a => at'[b] = at[b]
  BY <1>1, Going
<1>3. /\ user' \in Row /\ user'.codes = user.codes /\ user'.password = user.password
      /\ user'.totp = user.totp /\ user'.pending = user.pending /\ user'.last = user.last
      /\ user'.failed = user.failed /\ user'.lockedUntil = user.lockedUntil
  BY <1>1 DEF Types, Row
<1>4. Types'
  BY <1>1, <1>2, <1>3 DEF Types, history
<1>5. \A b \in Attempts : Failing(b)' => Failing(b)
  BY <1>2, <1>3 DEF Failing
<1>6. GuessesHold'
  BY <1>1, <1>3, <1>5, GuessesSame DEF history
<1>7. HolderHolds'
  BY <1>1, <1>2, HolderFree DEF HolderHolds
<1>8. PasswordIsTheLastSet' /\ Factors'
  BY <1>1, <1>3, FactorsSame DEF IInv, PasswordIsTheLastSet, history
<1> QED BY <1>4, <1>6, <1>7, <1>8 DEF IInv, Factors

\* A sign-in or an administrator resets the count.
LEMMA RecordSuccessStep ==
  ASSUME IInv, NEW a \in Attempts, RecordSuccess(a)
  PROVE  IInv'
<1>1. /\ Types /\ holder = None /\ End(a) /\ failures' = 0
      /\ user' = [user EXCEPT !.failed = 0, !.lockedUntil = None]
      /\ UNCHANGED <<fresh, confirm, holder, now, setTo, uses, redeemed>>
  BY DEF IInv, RecordSuccess, Succeeded
<1>2. /\ at' \in [Attempts -> Attempt] /\ \A b \in Attempts : at'[b].pc # "idle" => at'[b].snap \in Copy
      /\ at'[a].pc = "idle" /\ \A b \in Attempts : b # a => at'[b] = at[b]
  BY <1>1, Ending
<1>3. /\ user' \in Row /\ user'.codes = user.codes /\ user'.password = user.password
      /\ user'.totp = user.totp /\ user'.pending = user.pending /\ user'.last = user.last
      /\ user'.failed = 0 /\ user'.lockedUntil = None
  BY <1>1 DEF Types, Row
<1>4. Types'
  BY <1>1, <1>2, <1>3 DEF Types
<1>5. GuessesHold'
  BY <1>1, <1>3, GuessesReset
<1>6. HolderHolds'
  BY <1>1, <1>2, HolderFree DEF HolderHolds
<1>7. PasswordIsTheLastSet' /\ Factors'
  BY <1>1, <1>3, FactorsSame DEF IInv, PasswordIsTheLastSet
<1> QED BY <1>4, <1>5, <1>6, <1>7 DEF IInv, Factors

----------------------------------------------------------------------------
(* Administration of the account.                                          *)

LEMMA ResetStep ==
  ASSUME IInv, Unlock \/ \E p \in Passwords : ResetPassword(p)
  PROVE  IInv'
<1>1. /\ Types /\ failures' = 0 /\ holder = None
      /\ UNCHANGED <<fresh, at, confirm, holder, now, uses, redeemed>>
  BY DEF IInv, Unlock, ResetPassword
<1>2. /\ user' \in Row /\ user'.codes = user.codes /\ user'.password = setTo'
      /\ user'.totp = user.totp /\ user'.pending = user.pending /\ user'.last = user.last
      /\ user'.failed = 0 /\ user'.lockedUntil = None
  <2>1. CASE Unlock
    BY <1>1, <2>1 DEF IInv, PasswordIsTheLastSet, Unlock, Unlocked, Types, Row
  <2>2. ASSUME NEW p \in Passwords, ResetPassword(p)
        PROVE  /\ user' \in Row /\ user'.codes = user.codes /\ user'.password = setTo'
               /\ user'.totp = user.totp /\ user'.pending = user.pending /\ user'.last = user.last
               /\ user'.failed = 0 /\ user'.lockedUntil = None
    <3> DEFINE w == [user EXCEPT !.password = p, !.weak = FALSE]
    <3>1. user' = [w EXCEPT !.failed = 0, !.lockedUntil = None] /\ setTo' = p
      BY <2>2 DEF ResetPassword, Unlocked, WithPassword
    <3>2. /\ w \in Row /\ w.codes = user.codes /\ w.password = p /\ w.totp = user.totp
          /\ w.pending = user.pending /\ w.last = user.last
      BY <1>1 DEF Types, Row
    <3> HIDE DEF w
    <3> QED BY <3>1, <3>2 DEF Row
  <2> QED BY <2>1, <2>2
<1>3. Types'
  BY <1>1, <1>2 DEF Types
<1>4. GuessesHold'
  BY <1>1, <1>2, GuessesReset
<1>5. HolderHolds'
  BY <1>1, <1>2 DEF IInv, HolderHolds
<1>6. PasswordIsTheLastSet' /\ Factors'
  BY <1>1, <1>2, FactorsSame DEF PasswordIsTheLastSet
<1> QED BY <1>3, <1>4, <1>5, <1>6 DEF IInv, Factors

\* What an administrator writes besides, while nobody holds the row.
LEMMA AdministrationKeeps ==
  ASSUME IInv, Types', holder = None, UNCHANGED <<at, holder, now, setTo, failures>>,
         user'.password = user.password, user'.failed = user.failed,
         user'.lockedUntil = user.lockedUntil, Factors'
  PROVE  IInv'
<1>1. \A b \in Attempts : Failing(b)' => Failing(b)
  BY DEF Failing
<1>2. GuessesHold'
  BY <1>1, GuessesSame
<1>3. HolderHolds' /\ PasswordIsTheLastSet'
  BY HolderFree DEF IInv, HolderHolds, PasswordIsTheLastSet
<1> QED BY <1>2, <1>3 DEF IInv, Factors

LEMMA SetEnabledStep ==
  ASSUME IInv, NEW b \in BOOLEAN, SetEnabled(b)
  PROVE  IInv'
<1>1. Types /\ holder = None /\ UNCHANGED <<fresh, at, confirm, holder, now, history>>
  BY DEF IInv, SetEnabled
<1>2. /\ user' \in Row /\ user'.codes = user.codes /\ user'.password = user.password
      /\ user'.totp = user.totp /\ user'.pending = user.pending /\ user'.last = user.last
      /\ user'.failed = user.failed /\ user'.lockedUntil = user.lockedUntil
  BY <1>1 DEF SetEnabled, Types, Row
<1>3. Types'
  BY <1>1, <1>2 DEF Types, history
<1>4. Factors'
  BY <1>1, <1>2, FactorsSame DEF history
<1> QED BY <1>1, <1>2, <1>3, <1>4, AdministrationKeeps DEF history

\* A new secret: no code of it was used, and no confirmation knows it.
LEMMA BeginTotpStep ==
  ASSUME IInv, NEW s \in Secrets, BeginTotp(s)
  PROVE  IInv'
<1> USE LoginAssumption
<1>1. /\ Types /\ holder = None /\ UNCHANGED <<at, confirm, holder, now, history>>
      /\ s \in fresh /\ fresh' = fresh \ {s}
      /\ user' = [user EXCEPT !.pending = s, !.pendingAt = now]
  BY DEF IInv, BeginTotp, Enrolling
<1>2. /\ user' \in Row /\ user'.codes = user.codes /\ user'.password = user.password
      /\ user'.totp = user.totp /\ user'.pending = s /\ user'.last = user.last
      /\ user'.failed = user.failed /\ user'.lockedUntil = user.lockedUntil
  BY <1>1 DEF Types, Row
<1>3. Types'
  BY <1>1, <1>2 DEF Types, history
<1>4. SecretsHold'
  BY <1>1, <1>2 DEF IInv, SecretsHold, Types
<1>5. UsesHold'
  BY <1>1, <1>2 DEF IInv, UsesHold, history
<1>6. CodesHold' /\ GivenCodesAreHonoured'
  BY <1>1, <1>2 DEF IInv, CodesHold, GivenCodesAreHonoured, history
<1>7. Factors'
  BY <1>4, <1>5, <1>6 DEF Factors
<1> QED BY <1>1, <1>2, <1>3, <1>7, AdministrationKeeps DEF history

LEMMA ConfirmReadStep ==
  ASSUME IInv, NEW c \in Confirmers, NEW step \in 0..(MaxTime + 1), ConfirmRead(c, step)
  PROVE  IInv'
<1> USE LoginAssumption
<1> DEFINE r == [pc |-> "checked", secret |-> user.pending, step |-> step]
<1>1. /\ Types /\ UNCHANGED <<user, fresh, at, holder, now, history>> /\ user.pending # None
      /\ confirm' = [confirm EXCEPT ![c] = r] /\ confirm[c].pc = "idle"
  BY DEF IInv, ConfirmRead
<1>2. user.pending \in Secrets
  BY <1>1 DEF Types, Row
<1>3. r \in Confirmation /\ r.pc = "checked" /\ r.secret = user.pending
  BY <1>2 DEF Confirmation
<1> HIDE DEF r
<1>4. /\ confirm' \in [Confirmers -> Confirmation] /\ confirm'[c] = r
      /\ \A d \in Confirmers : d # c => confirm'[d] = confirm[d]
  BY <1>1, <1>3 DEF Types
<1>5. Types'
  BY <1>1, <1>2, <1>3, <1>4 DEF Types, history
<1>6. SecretsHold'
  BY <1>1, <1>3, <1>4 DEF IInv, SecretsHold
<1>7. UsesHold'
  BY <1>1 DEF IInv, UsesHold, history
<1>8. CodesHold'
  BY <1>1, <1>3, <1>4 DEF IInv, CodesHold, history
<1>9. GivenCodesAreHonoured'
  BY <1>1, <1>3, <1>4 DEF IInv, GivenCodesAreHonoured, history
<1>10. \A b \in Attempts : Failing(b)' => Failing(b)
  BY <1>1 DEF Failing
<1>11. GuessesHold'
  BY <1>1, <1>10, GuessesSame DEF history
<1>12. HolderHolds' /\ PasswordIsTheLastSet'
  BY <1>1 DEF IInv, HolderHolds, PasswordIsTheLastSet, history
<1> QED BY <1>5, <1>6, <1>7, <1>8, <1>9, <1>11, <1>12 DEF IInv

\* confirmTotpEnrollment: the pending secret becomes the account's, one code of it used.
LEMMA ConfirmStep ==
  ASSUME IInv, NEW c \in Confirmers, Confirm(c)
  PROVE  IInv'
<1> USE LoginAssumption
<1> DEFINE s == confirm[c].secret
           n == confirm[c].step
<1>1. /\ Types /\ holder = None /\ UNCHANGED <<fresh, at, holder, now, setTo, failures, redeemed>>
      /\ confirm[c].pc = "checked"
  BY DEF IInv, Confirm
<1>2. confirm[c] \in Confirmation /\ s \in Secrets /\ n \in Nat /\ n \in Steps
  BY <1>1 DEF Types, Confirmation, Steps
<1>3. ASSUME NEW pc \in {"applied", "refused"}, confirm' = [confirm EXCEPT ![c].pc = pc]
      PROVE  /\ confirm' \in [Confirmers -> Confirmation] /\ confirm'[c].pc = pc /\ confirm'[c].secret = s
             /\ \A d \in Confirmers : d # c => confirm'[d] = confirm[d]
             /\ \A d \in Confirmers : confirm'[d].pc # "idle" => confirm'[d].secret \in Secrets
  <2> DEFINE r == [confirm[c] EXCEPT !.pc = pc]
  <2>1. r \in Confirmation /\ r.pc = pc /\ r.secret = s
    BY <1>2 DEF Confirmation
  <2>2. confirm' = [confirm EXCEPT ![c] = r]
    BY <1>3
  <2> HIDE DEF r
  <2> QED BY <1>1, <1>2, <2>1, <2>2 DEF Types
<1>4. CASE ~MayEnrol(user, s)
  <2>1. user' = user /\ uses' = uses /\ confirm' = [confirm EXCEPT ![c].pc = "refused"]
    BY <1>4 DEF Confirm
  <2>2. /\ confirm' \in [Confirmers -> Confirmation] /\ confirm'[c].pc = "refused" /\ confirm'[c].secret = s
        /\ \A d \in Confirmers : d # c => confirm'[d] = confirm[d]
        /\ \A d \in Confirmers : confirm'[d].pc # "idle" => confirm'[d].secret \in Secrets
    BY <1>3, <2>1
  <2>3. Types'
    BY <1>1, <2>1, <2>2 DEF Types
  <2>4. SecretsHold' /\ UsesHold'
    BY <1>1, <2>1, <2>2 DEF IInv, SecretsHold, UsesHold
  <2>5. CodesHold' /\ GivenCodesAreHonoured'
    BY <1>1, <2>1, <2>2 DEF IInv, CodesHold, GivenCodesAreHonoured
  <2> QED BY <1>1, <2>1, <2>3, <2>4, <2>5, AdministrationKeeps DEF Factors
<1>5. CASE MayEnrol(user, s)
  <2>1. /\ user.pending = s /\ confirm' = [confirm EXCEPT ![c].pc = "applied"]
        /\ user' = [user EXCEPT !.totp = s, !.pending = None, !.pendingAt = 0,
                                !.codes = Batch[c], !.last = n]
        /\ uses' = [uses EXCEPT ![s][n] = @ + 1]
    BY <1>5 DEF Confirm, MayEnrol, Enrolled
  <2>2. /\ confirm' \in [Confirmers -> Confirmation] /\ confirm'[c].pc = "applied" /\ confirm'[c].secret = s
        /\ \A d \in Confirmers : d # c => confirm'[d] = confirm[d]
        /\ \A d \in Confirmers : confirm'[d].pc # "idle" => confirm'[d].secret \in Secrets
    BY <1>3, <2>1
  <2> HIDE DEF s, n
  <2>3. \A d \in Confirmers : Batch[d] \subseteq Codes
    BY DEF Codes
  <2>4. /\ user' \in Row /\ user'.codes = Batch[c] /\ user'.password = user.password
        /\ user'.totp = s /\ user'.pending = None /\ user'.last = n
        /\ user'.failed = user.failed /\ user'.lockedUntil = user.lockedUntil
    BY <1>1, <1>2, <2>1, <2>3 DEF Types, Row
  <2>5. SecretsHold /\ UsesHold /\ CodesHold /\ GivenCodesAreHonoured
    BY DEF IInv
  <2>6. \A m \in Steps : uses[s][m] = 0
    BY <1>2, <2>1, <2>5 DEF UsesHold
  <2>7. /\ uses' \in [Secrets -> [Steps -> Nat]] /\ uses'[s][n] = 1
        /\ \A m \in Steps : m # n => uses'[s][m] = 0
        /\ \A z \in Secrets : z # s => uses'[z] = uses[z]
    BY <1>1, <1>2, <2>1, <2>6 DEF Types
  <2>8. Types'
    BY <1>1, <2>2, <2>4, <2>7 DEF Types
  <2>9. SecretsHold'
    BY <1>1, <1>2, <2>1, <2>2, <2>4, <2>5 DEF SecretsHold, Types
  <2>10. UsesHold'
    <3>1. s \notin fresh
      BY <2>1, <2>5 DEF SecretsHold
    <3>2. \A z \in Secrets, m \in Steps : uses'[z][m] <= 1
      BY <2>5, <2>7 DEF UsesHold
    <3>3. \A z \in Secrets, m \in Steps : z \in fresh \/ z = None => uses'[z][m] = 0
      BY <2>5, <2>7, <3>1 DEF UsesHold
    <3>4. \A m \in Steps : m > n => uses'[s][m] = 0
      BY <1>2, <2>7 DEF Steps
    <3> QED BY <1>1, <1>2, <2>4, <3>2, <3>3, <3>4 DEF UsesHold
  <2>11. CodesHold'
    <3>1. \A code \in Batch[c] : redeemed[code] = 0
      BY <1>1, <2>5 DEF CodesHold
    <3>2. \A d \in Confirmers : d # c => Batch[c] \cap Batch[d] = {}
      OBVIOUS
    <3> QED BY <1>1, <2>2, <2>4, <2>5, <3>1, <3>2 DEF CodesHold
  <2>12. GivenCodesAreHonoured'
    <3>1. \A d \in Confirmers : confirm[d].pc = "applied" => confirm[d].secret # s
      BY <2>1, <2>5 DEF SecretsHold
    <3> QED BY <2>2, <2>4, <3>1 DEF GivenCodesAreHonoured
  <2> QED BY <1>1, <2>4, <2>8, <2>9, <2>10, <2>11, <2>12, AdministrationKeeps DEF Factors
<1> QED BY <1>4, <1>5

LEMMA DisableTotpStep ==
  ASSUME IInv, DisableTotp
  PROVE  IInv'
<1> USE LoginAssumption
<1>1. /\ Types /\ holder = None /\ UNCHANGED <<fresh, at, confirm, holder, now, history>>
      /\ user' = [user EXCEPT !.totp = None, !.pending = None, !.pendingAt = 0, !.codes = {}, !.last = None]
  BY DEF IInv, DisableTotp, WithoutTotp
<1>2. /\ user' \in Row /\ user'.codes = {} /\ user'.password = user.password
      /\ user'.totp = None /\ user'.pending = None
      /\ user'.failed = user.failed /\ user'.lockedUntil = user.lockedUntil
  BY <1>1 DEF Types, Row
<1>3. Types'
  BY <1>1, <1>2 DEF Types, history
<1>4. SecretsHold' /\ UsesHold'
  BY <1>1, <1>2 DEF IInv, SecretsHold, UsesHold, Types, history
<1>5. CodesHold' /\ GivenCodesAreHonoured'
  BY <1>1, <1>2 DEF IInv, CodesHold, GivenCodesAreHonoured, Types, history
<1> QED BY <1>1, <1>2, <1>3, <1>4, <1>5, AdministrationKeeps DEF Factors, history

\* A lock that runs out ends the period.
LEMMA TickStep ==
  ASSUME IInv, Tick
  PROVE  IInv'
<1> USE LoginAssumption
<1>1. /\ Types /\ now' = now + 1 /\ failures' = IF user.lockedUntil = now + 1 THEN 0 ELSE failures
      /\ UNCHANGED <<user, fresh, at, confirm, holder, setTo, uses, redeemed>>
      /\ user.lockedUntil \in Nat \cup {None} /\ now \in Nat
  BY DEF IInv, Tick, Types, Row
<1>2. Types'
  BY <1>1 DEF Types
<1>3. GuessesHold'
  <2>1. GuessesHold /\ MayFail' = MayFail
    BY <1>1 DEF IInv, MayFail, Failing
  <2>2. CASE user.lockedUntil = None
    BY <1>1, <2>1, <2>2 DEF GuessesHold
  <2>3. CASE user.lockedUntil # None /\ user.lockedUntil <= now + 1
    <3>1. failures' = 0
      BY <1>1, <2>1, <2>3 DEF GuessesHold
    <3> QED BY <1>1, <2>3, <3>1 DEF GuessesHold
  <2>4. CASE user.lockedUntil # None /\ user.lockedUntil > now + 1
    <3>1. failures' = failures /\ user.lockedUntil > now
      BY <1>1, <2>4
    <3> QED BY <1>1, <2>1, <2>4, <3>1 DEF GuessesHold
  <2> QED BY <1>1, <2>2, <2>3, <2>4
<1>4. HolderHolds' /\ PasswordIsTheLastSet' /\ Factors'
  BY <1>1, FactorsSame DEF IInv, HolderHolds, PasswordIsTheLastSet
<1> QED BY <1>2, <1>3, <1>4 DEF IInv, Factors

----------------------------------------------------------------------------
(* The theorems.                                                           *)

\* The invariant is inductive.
LEMMA StepIInv == IInv /\ [Next]_vars => IInv'
<1> SUFFICES ASSUME IInv, [Next]_vars PROVE IInv'
  OBVIOUS
<1>1. CASE UNCHANGED vars
  <2>1. UNCHANGED <<user, fresh, at, confirm, holder, now, setTo, failures, uses, redeemed>>
    BY <1>1 DEF vars, history
  <2>2. Types'
    BY <2>1 DEF IInv, Types
  <2>3. GuessesHold' /\ HolderHolds' /\ PasswordIsTheLastSet' /\ Factors'
    BY <2>1, GuessesSame, FactorsSame DEF IInv, HolderHolds, PasswordIsTheLastSet, Failing
  <2> QED BY <2>2, <2>3 DEF IInv, Factors
<1>2. ASSUME NEW a \in Attempts, LdapElsewhere(a) \/ Refuse(a) \/ Fail(a) PROVE IInv'
  BY <1>2, EndKeeps DEF LdapElsewhere, Refuse, Fail
<1> QED BY <1>1, <1>2, ReadStep, VerifyStep, VerifyLdapStep, UseTotpStep, FindCodeStep, RedeemCodeStep,
           RecordFailureStep, RehashStep, RecordSuccessStep, ResetStep, SetEnabledStep, BeginTotpStep,
           ConfirmReadStep, ConfirmStep, DisableTotpStep, TickStep
        DEF Next

\* The inductive invariant holds of every behaviour.
LEMMA Invariance == Spec => []IInv
BY InitIInv, StepIInv, PTL DEF Spec

\* At most LockThreshold failures are answered between two resets, and one more for
\* each other sign-in that had read the account when recordLoginFailure locked it.
THEOREM GuessingIsBounded == Spec => []GuessesAreBounded
<1>1. IInv => GuessesAreBounded
  <2> SUFFICES ASSUME IInv PROVE GuessesAreBounded
    OBVIOUS
  <2> USE LoginAssumption
  <2>1. /\ GuessesHold /\ failures \in Nat /\ now \in Nat
        /\ user.lockedUntil \in Nat \cup {None} /\ user.failed \in Nat
    BY DEF IInv, Types, Row
  <2>2. Cardinality(Attempts) \in Nat /\ Cardinality(MayFail) \in Nat
    <3>1. MayFail \subseteq Attempts
      BY DEF MayFail
    <3> QED BY <3>1, FS_Subset, FS_CardinalityType
  <2>3. CASE user.lockedUntil = None
    <3>1. failures < LockThreshold
      BY <2>1, <2>3 DEF GuessesHold
    <3> QED BY <2>1, <2>2, <3>1 DEF GuessesAreBounded
  <2>4. CASE user.lockedUntil # None /\ user.lockedUntil <= now
    <3>1. failures = 0
      BY <2>1, <2>4 DEF GuessesHold
    <3> QED BY <2>2, <3>1 DEF GuessesAreBounded
  <2>5. CASE user.lockedUntil # None /\ user.lockedUntil > now
    <3>1. failures + Cardinality(MayFail) <= LockThreshold + Cardinality(Attempts) - 1
      BY <2>1, <2>5 DEF GuessesHold
    <3> QED BY <2>1, <2>2, <3>1 DEF GuessesAreBounded
  <2> QED BY <2>1, <2>3, <2>4, <2>5
<1> QED BY <1>1, Invariance, PTL

\* rehashPasswordIfCurrent never brings a replaced password back.
THEOREM LastPasswordStays == Spec => []PasswordIsTheLastSet
<1>1. IInv => PasswordIsTheLastSet
  BY DEF IInv
<1> QED BY <1>1, Invariance, PTL

\* A TOTP code of the current secret counts once, and so does a recovery code,
\* whatever sign-ins, enrolments and confirmations overlap.
THEOREM FactorsCountOnce == Spec => []FactorsAreOneUse
<1>1. IInv => FactorsAreOneUse
  BY DEF IInv, UsesHold, CodesHold, FactorsAreOneUse, Types
<1> QED BY <1>1, Invariance, PTL

\* The recovery codes a confirmation returned stay good until they are redeemed or
\* the enrolment is replaced.
THEOREM CodesAreHonoured == Spec => []GivenCodesAreHonoured
<1>1. IInv => GivenCodesAreHonoured
  BY DEF IInv
<1> QED BY <1>1, Invariance, PTL
============================================================================
