--------------------------- MODULE ArtifactStore ---------------------------
(***************************************************************************)
(* What the data layer promises to the OpenID Provider, without epochs,    *)
(* locks or transactions: a store of protocol artifacts (sessions, grants, *)
(* codes, tokens, interactions), each bound to at most one account and at  *)
(* most one parent grant.                                                  *)
(*                                                                         *)
(*   - an account-bound artifact is stored only while its account is       *)
(*     enabled, and a grant-linked one only under a stored grant of the    *)
(*     same account;                                                       *)
(*   - a security change of an account removes, in one step, everything    *)
(*     the account had;                                                    *)
(*   - a one-use artifact is consumed at most once.                        *)
(*                                                                         *)
(* OidcRecords is shown to implement this module.                          *)
(***************************************************************************)
EXTENDS Naturals

CONSTANTS Users,    \* account identifiers
          Grants,   \* identifiers of Grant artifacts
          Others,   \* identifiers of every other artifact
          None,     \* no account / no parent grant
          NoArt     \* nothing stored under an identifier

Ids == Grants \cup Others

VARIABLES standing, \* standing[u]: where account u is in its life
          arts      \* arts[k]: the artifact stored under k, or NoArt

absVars == <<standing, arts>>

Stored(k) == arts[k] # NoArt

Init ==
  /\ standing = [u \in Users |-> "fresh"]
  /\ arts = [k \in Ids |-> NoArt]

\* An account is created, enabled or disabled.
Create(u) ==
  /\ standing[u] = "fresh"
  /\ \E st \in {"enabled", "disabled"} : standing' = [standing EXCEPT ![u] = st]
  /\ UNCHANGED arts

\* Artifact k is stored for account u under grant g; an artifact that was
\* consumed stays consumed.
Issue(k, u, g) ==
  /\ u # None => standing[u] = "enabled"
  /\ g # None => u # None /\ Stored(g) /\ arts[g].owner = u
  /\ \E c \in BOOLEAN :
       arts' = [arts EXCEPT ![k] =
                  [owner |-> u, grant |-> g,
                   consumed |-> c \/ (Stored(k) /\ arts[k].consumed)]]
  /\ UNCHANGED standing

\* The one successful claim of a one-use artifact.
Consume(k) ==
  /\ Stored(k) /\ ~arts[k].consumed
  /\ arts' = [arts EXCEPT ![k].consumed = TRUE]
  /\ UNCHANGED standing

\* Artifacts are destroyed one by one, by grant, or because they expired.
Forget(S) ==
  /\ arts' = [k \in Ids |-> IF k \in S THEN NoArt ELSE arts[k]]
  /\ UNCHANGED standing

\* A security change of u: nothing u had survives it.
Secure(u, st) ==
  /\ standing[u] \in {"enabled", "disabled"}
  /\ standing' = [standing EXCEPT ![u] = st]
  /\ arts' = [k \in Ids |-> IF Stored(k) /\ arts[k].owner = u
                              THEN NoArt ELSE arts[k]]

Next ==
  \/ \E u \in Users : Create(u)
  \/ \E k \in Ids, u \in Users \cup {None}, g \in Grants \cup {None} : Issue(k, u, g)
  \/ \E k \in Ids : Consume(k)
  \/ \E S \in SUBSET Ids : Forget(S)
  \/ \E u \in Users, st \in {"enabled", "disabled", "deleted"} : Secure(u, st)

Spec == Init /\ [][Next]_absVars
============================================================================
