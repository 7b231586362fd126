------------------------------ MODULE MCLogin ------------------------------
(* An instance of Login for TLC.                                           *)
EXTENDS Login, TLC

CONSTANTS c1, c2, r1, r2, r3, x1, x2

Codebooks == (c1 :> {r1, r2}) @@ (c2 :> {r3})

\* Attempts, passwords and the codes of one batch differ only in their names, and so do
\* the secrets: x1 is always generated first.
Symmetry == Permutations(Attempts) \cup Permutations(Passwords) \cup Permutations({r1, r2})
InOrder == x1 \in fresh' => x2 \in fresh'

\* "lockout": three sign-ins without second factors, with LDAP and resets.  "factors":
\* two sign-ins of somebody who knows the password, with the codes of one enrolment.
\* "enrolments": two enrolments and two confirmations beside one such sign-in.
VARIABLE scenario

Running(n) == Cardinality({a \in Attempts : at'[a].pc # "idle"}) <= n
KnowsPassword ==
  /\ setTo' = setTo /\ user'.enabled
  /\ \A a \in Attempts : at[a].pc = "verify" /\ at'[a] # NoAttempt =>
       at'[a].method # "ldap" /\ at'[a].pc # "fail"

MCInit ==
  /\ Init /\ scenario \in {"lockout", "factors", "enrolments"}
  /\ scenario # "lockout" => ~user.weak

MCNext ==
  /\ Next /\ UNCHANGED scenario /\ InOrder
  /\ scenario = "lockout" => fresh' = Secrets
  /\ scenario = "factors" =>
       /\ Running(2) /\ KnowsPassword /\ now' <= 1
       /\ Cardinality(Secrets \ fresh') <= 1 /\ confirm'[c2] = confirm[c2]
  /\ scenario = "enrolments" => Running(1) /\ KnowsPassword /\ now' <= 1

MCSpec == MCInit /\ [][MCNext]_<<vars, scenario>>
============================================================================
