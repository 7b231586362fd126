--------------------------- MODULE IdentityLinks ---------------------------
(***************************************************************************)
(* What the federated identity repository promises, for one realm and one  *)
(* upstream provider: an upstream subject is linked to at most one         *)
(* account and an account to at most one subject; a link appears only      *)
(* because an administrator made it, or together with an account created   *)
(* for that subject whose login name nobody had.                           *)
(*                                                                         *)
(* FederatedIdentities, the repository over PostgreSQL, implements this    *)
(* module; Federation builds the sign-in on it.                            *)
(***************************************************************************)
EXTENDS Naturals, FiniteSets

CONSTANTS Users,    \* account identifiers (random UUIDs)
          Subjects, \* upstream subjects of the provider
          Names,    \* login names: user names and e-mail addresses, one namespace
          NameOf,   \* NameOf[s]: the login name in the profile of subject s
          None

ASSUME LinksAssumption ==
  /\ NameOf \in [Subjects -> Names]
  /\ None \notin Users /\ None \notin Names /\ None \notin Subjects

VARIABLES standing, \* standing[u]: where account u is in its life
          login,    \* login[u]: its login name
          link      \* link[s]: the account subject s signs in to, or None

linkVars == <<standing, login, link>>

Present(u) == standing[u] \in {"enabled", "disabled"}
Unused(u) == ~Present(u)  \* an identifier may return: a deleted account leaves nothing
LoginTaken(n) == \E u \in Users : Present(u) /\ login[u] = n

LinksInit ==
  /\ standing = [u \in Users |-> "fresh"]
  /\ login = [u \in Users |-> None]
  /\ link = [s \in Subjects |-> None]

\* A local account is created.
CreateAccount(u, n) ==
  /\ Unused(u) /\ ~LoginTaken(n)
  /\ standing' = [standing EXCEPT ![u] = "enabled"]
  /\ login' = [login EXCEPT ![u] = n]
  /\ UNCHANGED link

\* The first sign-in of a subject creates its account (just in time).
CreateLinked(s, u) ==
  /\ link[s] = None
  /\ Unused(u) /\ ~LoginTaken(NameOf[s])
  /\ standing' = [standing EXCEPT ![u] = "enabled"]
  /\ login' = [login EXCEPT ![u] = NameOf[s]]
  /\ link' = [link EXCEPT ![s] = u]

\* An administrator links a subject to an account.
LinkAccount(s, u) ==
  /\ Present(u)
  /\ link[s] = None /\ \A o \in Subjects : link[o] # u
  /\ link' = [link EXCEPT ![s] = u]
  /\ UNCHANGED <<standing, login>>

UnlinkAccount(s) ==
  /\ link[s] # None
  /\ link' = [link EXCEPT ![s] = None]
  /\ UNCHANGED <<standing, login>>

\* An account is enabled, disabled or deleted; its links go with it.
ChangeStanding(u, to) ==
  /\ Present(u)
  /\ standing' = [standing EXCEPT ![u] = to]
  /\ link' = [s \in Subjects |-> IF to = "deleted" /\ link[s] = u THEN None ELSE link[s]]
  /\ UNCHANGED login

LinksNext ==
  \/ \E u \in Users, n \in Names : CreateAccount(u, n)
  \/ \E s \in Subjects, u \in Users : CreateLinked(s, u) \/ LinkAccount(s, u)
  \/ \E s \in Subjects : UnlinkAccount(s)
  \/ \E u \in Users, to \in {"enabled", "disabled", "deleted"} : ChangeStanding(u, to)

LinksSpec == LinksInit /\ [][LinksNext]_linkVars
============================================================================
