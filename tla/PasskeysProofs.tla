--------------------------- MODULE PasskeysProofs ---------------------------
(***************************************************************************)
(* Proofs about Passkeys, for every number of accounts, interactions,      *)
(* challenges, keys, copies of an authenticator and requests.              *)
(***************************************************************************)
EXTENDS Passkeys, TLAPS

(***************************************************************************)
(* The inductive invariant.  A challenge leaves the table once, so what is *)
(* done with it is done by the one request that took it (OneTaker).  The   *)
(* counter of a credential is the highest one accepted (CountersHold): a   *)
(* key that was removed cannot be registered again, as its registration    *)
(* challenge is gone, so that its counter never starts over.               *)
(***************************************************************************)

Finding == [pc : {"find"}, inter : Interactions, chal : Challenges, said : Response]
SigningIn ==
  [pc : {"user", "update", "record", "finish"}, inter : Interactions, chal : Challenges,
   said : Response, row : CredentialRow]
Registering ==
  [pc : {"store"}, user : Users, handle : Users \cup Interactions, said : Response]

Types ==
  /\ standing \in [Users -> {"enabled", "disabled", "gone"}]
  /\ chal \in [Challenges -> ChallengeRow \cup {None}]
  /\ cred \in [Keys -> CredentialRow \cup {None}]
  /\ device \in [Keys -> Device \cup {None}]
  /\ made \subseteq Response
  /\ req \in [Requests -> {Idle} \cup Finding \cup SigningIn \cup Registering]
  /\ signIns \in [Challenges -> Nat]
  /\ highest \in [Keys -> Nat]
  /\ now \in Nat

Stored(c) == chal[c] # None /\ chal[c].stored
\* Request q took challenge c for a sign-in.
Took(q, c) == req[q].pc \in {"find", "user", "update", "record", "finish"} /\ req[q].chal = c
\* Response a was made for a registration.
ForRegistration(a) == chal[a.chal].purpose = "registration"

\* Only challenges that exist are signed, by authenticators that exist, and an
\* authenticator is made for one registration, with its counter at 0.
MadeHolds ==
  /\ \A a \in made : chal[a.chal] # None /\ device[a.key] # None
  /\ \A a \in made : ForRegistration(a) => a.count = 0
  /\ \A a, b \in made : ForRegistration(a) /\ ForRegistration(b) /\ a.key = b.key => a = b

\* One request takes a challenge, once.
OneTaker ==
  /\ \A c \in Challenges : signIns[c] <= 1
  /\ \A c \in Challenges : chal[c] = None \/ Stored(c) =>
       signIns[c] = 0 /\ \A q \in Requests : ~Took(q, c)
  /\ \A q, p \in Requests, c \in Challenges : Took(q, c) =>
       signIns[c] = 0 /\ (Took(p, c) => p = q)

\* What a sign-in holds.
SignInHolds(q) ==
  /\ req[q].pc \in {"find", "user", "update", "record", "finish"} =>
       chal[req[q].chal] # None /\ chal[req[q].chal].who = req[q].inter
       /\ device[req[q].said.key] # None
  /\ req[q].pc \in {"user", "update", "record", "finish"} => req[q].row.handle = req[q].row.user
  /\ req[q].pc \in {"update", "record", "finish"} =>
       device[req[q].said.key].user = req[q].row.user
SignInsHold == \A q \in Requests : SignInHolds(q)

\* The key of a registration that is still open has no row, and no counter of it was accepted.
OpenHolds(a) ==
  /\ cred[a.key] = None /\ highest[a.key] = 0
  /\ \A q \in Requests : req[q].pc = "store" => req[q].said # a

\* Nor has a key that request q is about to store: no other request is.
StoreHolds(q) ==
  /\ req[q].said \in made /\ ForRegistration(req[q].said) /\ ~Stored(req[q].said.chal)
  /\ cred[req[q].said.key] = None /\ highest[req[q].said.key] = 0
  /\ req[q].handle = req[q].user
  /\ \A p \in Requests : req[p].pc = "store" /\ req[p].said.key = req[q].said.key => p = q

\* A credential has the account it was made for, and the highest counter accepted.
CountersHold ==
  /\ \A k \in Keys : cred[k] # None => cred[k].handle = cred[k].user /\ highest[k] = cred[k].counter
  /\ \A k \in Keys : device[k] = None => cred[k] = None /\ highest[k] = 0
  /\ \A a \in made : ForRegistration(a) /\ Stored(a.chal) => OpenHolds(a)
  /\ \A q \in Requests : req[q].pc = "store" => StoreHolds(q)

IInv == Types /\ MadeHolds /\ OneTaker /\ SignInsHold /\ CountersHold

----------------------------------------------------------------------------
(* Facts every step uses.                                                  *)

\* The fields a request has follow from where it is.
LEMMA Fields ==
  ASSUME Types, NEW q \in Requests
  PROVE  /\ req[q].pc = "idle" => req[q] = Idle
         /\ req[q].pc = "find" => req[q] \in Finding
         /\ req[q].pc \in {"user", "update", "record", "finish"} => req[q] \in SigningIn
         /\ req[q].pc = "store" => req[q] \in Registering
         /\ req[q].pc \in {"idle", "find", "user", "update", "record", "finish", "store"}
BY DEF Types, Idle, Finding, SigningIn, Registering

\* Initially there are no challenges, keys or requests.
LEMMA InitIInv == Init => IInv
<1> SUFFICES ASSUME Init PROVE IInv
  OBVIOUS
<1>1. Types
  BY DEF Init, Types
<1>2. MadeHolds /\ OneTaker /\ SignInsHold /\ CountersHold
  BY DEF Init, Idle, MadeHolds, OneTaker, SignInsHold, SignInHolds, CountersHold, Took
<1> QED BY <1>1, <1>2 DEF IInv

\* A challenge keeps its purpose and its owner, and never comes back.
ChallengesKept ==
  \A c \in Challenges :
    chal[c] # None =>
      /\ chal'[c] # None /\ chal'[c].who = chal[c].who /\ chal'[c].purpose = chal[c].purpose
      /\ chal'[c].stored => chal[c].stored

\* An authenticator keeps the account it was made for.
DevicesKept ==
  \A k \in Keys : device[k] # None => device'[k] # None /\ device'[k].user = device[k].user

\* Consuming or deleting a challenge, or creating one, does not touch the others.
LEMMA ConsumeKeeps ==
  ASSUME Types, NEW c \in Challenges, chal[c] # None, Consume(c)
  PROVE  /\ chal' \in [Challenges -> ChallengeRow \cup {None}] /\ ChallengesKept
         /\ chal'[c] # None /\ ~chal'[c].stored
<1>1. chal[c] \in ChallengeRow
  BY DEF Types
<1> DEFINE r == [chal[c] EXCEPT !.stored = FALSE]
<1>2. chal' = [chal EXCEPT ![c] = r]
  BY DEF Consume
<1>3. r \in ChallengeRow /\ r.who = chal[c].who /\ r.purpose = chal[c].purpose /\ r.stored = FALSE
  BY <1>1 DEF ChallengeRow
<1>4. r # None
  BY <1>3, NoneAssumption
<1> HIDE DEF r
<1> QED BY <1>2, <1>3, <1>4 DEF Types, ChallengesKept

LEMMA CreateKeeps ==
  ASSUME Types, NEW c \in Challenges, NEW p \in {"registration", "authentication"},
         NEW w \in Users \cup Interactions, CreateChallenge(c, p, w)
  PROVE  chal' \in [Challenges -> ChallengeRow \cup {None}] /\ ChallengesKept
<1> DEFINE r == [purpose |-> p, who |-> w, exp |-> now + ChallengeTtl, stored |-> TRUE]
<1>1. r \in ChallengeRow
  BY PasskeysAssumption DEF ChallengeRow, Types
<1>2. chal' = [chal EXCEPT ![c] = r] /\ chal[c] = None
  BY DEF CreateChallenge
<1> HIDE DEF r
<1> QED BY <1>1, <1>2 DEF Types, ChallengesKept

LEMMA DeleteKeeps ==
  ASSUME Types, NEW u \in Users, NEW to \in {"enabled", "disabled", "gone"}, ChangeAccount(u, to)
  PROVE  /\ chal' \in [Challenges -> ChallengeRow \cup {None}] /\ ChallengesKept
         /\ cred' \in [Keys -> CredentialRow \cup {None}]
         /\ \A k \in Keys : cred'[k] = cred[k] \/ cred'[k] = None
<1>1. CASE to # "gone"
  BY <1>1 DEF ChangeAccount, Types, ChallengesKept
<1>2. CASE to = "gone"
  <2>1. chal' = [c \in Challenges |->
                 IF chal[c] # None /\ chal[c].who = u
                   THEN [chal[c] EXCEPT !.stored = FALSE] ELSE chal[c]]
    BY <1>2 DEF ChangeAccount
  <2>2. \A c \in Challenges : chal[c] # None =>
          /\ [chal[c] EXCEPT !.stored = FALSE] \in ChallengeRow
          /\ [chal[c] EXCEPT !.stored = FALSE].who = chal[c].who
          /\ [chal[c] EXCEPT !.stored = FALSE].purpose = chal[c].purpose
          /\ ~[chal[c] EXCEPT !.stored = FALSE].stored
    BY DEF Types, ChallengeRow
  <2>3. \A c \in Challenges : chal[c] # None => chal[c] \in ChallengeRow
    BY DEF Types
  <2>4. chal' \in [Challenges -> ChallengeRow \cup {None}]
    BY <2>1, <2>2, <2>3
  <2>5. ChallengesKept
    BY <2>1, <2>2, NoneAssumption DEF ChallengesKept
  <2> QED BY <1>2, <2>4, <2>5 DEF ChangeAccount, Types
<1> QED BY <1>1, <1>2

\* What the authenticators do to themselves and to made.
LEMMA MakeKeyKeeps ==
  ASSUME Types, NEW k \in Keys, NEW c \in Challenges, NEW b \in BOOLEAN, MakeKey(k, c, b)
  PROVE  /\ device' \in [Keys -> Device \cup {None}] /\ DevicesKept
         /\ device'[k] # None /\ \A o \in Keys : o # k => device'[o] = device[o]
         /\ [key |-> k, chal |-> c, count |-> 0] \in Response
<1> DEFINE d == [user |-> chal[c].who, counts |-> b, count |-> [x \in Copies |-> 0]]
<1>1. chal[c] \in ChallengeRow
  BY DEF Types, MakeKey
<1>2. d \in Device
  BY <1>1 DEF ChallengeRow, Device
<1>3. d # None /\ device' = [device EXCEPT ![k] = d] /\ device[k] = None
  BY <1>2, NoneAssumption DEF MakeKey
<1> HIDE DEF d
<1> QED BY <1>2, <1>3 DEF Types, DevicesKept, Response

LEMMA SignKeeps ==
  ASSUME Types, NEW k \in Keys, NEW x \in Copies, NEW c \in Challenges, Sign(k, x, c)
  PROVE  /\ device' \in [Keys -> Device \cup {None}] /\ DevicesKept
         /\ device'[k] # None /\ \A o \in Keys : o # k => device'[o] = device[o]
         /\ \E n \in Nat : [key |-> k, chal |-> c, count |-> n] \in Response
                           /\ made' = made \cup {[key |-> k, chal |-> c, count |-> n]}
<1> DEFINE n == IF device[k].counts THEN device[k].count[x] + 1 ELSE 0
           d == [device[k] EXCEPT !.count[x] = n]
<1>1. device[k] \in Device
  BY DEF Types, Sign
<1>2. n \in Nat
  BY <1>1 DEF Device
<1>3. device' = [device EXCEPT ![k].count[x] = n] /\ made' = made \cup {[key |-> k, chal |-> c, count |-> n]}
  BY DEF Sign
<1> HIDE DEF n
<1>4. d \in Device /\ d.user = device[k].user
  BY <1>1, <1>2 DEF Device
<1>5. device' = [device EXCEPT ![k] = d]
  BY <1>3
<1>6. d # None
  BY <1>4, NoneAssumption
<1> HIDE DEF d
<1> QED BY <1>2, <1>3, <1>4, <1>5, <1>6 DEF Types, DevicesKept, Response

\* Types are preserved.
LEMMA TypesStep == Types /\ [Next]_vars => Types'
<1> SUFFICES ASSUME Types, [Next]_vars PROVE Types'
  OBVIOUS
<1> USE PasskeysAssumption
<1>1. ASSUME NEW q \in Requests, Done(q) PROVE (req \in [Requests -> {Idle} \cup Finding \cup SigningIn \cup Registering])'
  BY <1>1 DEF Done, Types
<1>2. ASSUME NEW q \in Requests, NEW r \in Finding \cup SigningIn \cup Registering, req' = [req EXCEPT ![q] = r]
      PROVE  (req \in [Requests -> {Idle} \cup Finding \cup SigningIn \cup Registering])'
  BY <1>2 DEF Types
<1>3. ASSUME NEW q \in Requests, req[q].pc \in {"user", "update", "record"},
             NEW pc \in {"update", "record", "finish"}, req' = [req EXCEPT ![q].pc = pc]
      PROVE  (req \in [Requests -> {Idle} \cup Finding \cup SigningIn \cup Registering])'
  <2>1. req[q] \in SigningIn
    BY <1>3, Fields
  <2>2. [req[q] EXCEPT !.pc = pc] \in SigningIn
    BY <2>1 DEF SigningIn
  <2> QED BY <1>2, <1>3, <2>2
<1>4. CASE UNCHANGED vars
  BY <1>4 DEF Types, vars
<1>5. ASSUME NEW c \in Challenges, NEW i \in Interactions, LoginOptions(i, c) PROVE Types'
  BY <1>5, CreateKeeps DEF LoginOptions, Types
<1>6. ASSUME NEW c \in Challenges, NEW u \in Users, RegistrationOptions(u, c) PROVE Types'
  BY <1>6, CreateKeeps DEF RegistrationOptions, Types
<1>7. ASSUME NEW c \in Challenges, NEW k \in Keys, NEW b \in BOOLEAN, MakeKey(k, c, b) PROVE Types'
  <2>1. device' \in [Keys -> Device \cup {None}] /\ [key |-> k, chal |-> c, count |-> 0] \in Response
    BY <1>7, MakeKeyKeeps
  <2>2. made' \subseteq Response /\ UNCHANGED <<standing, chal, cred, req, signIns, highest, now>>
    BY <1>7, <2>1 DEF MakeKey, Types
  <2> QED BY <2>1, <2>2 DEF Types
<1>8. ASSUME NEW c \in Challenges, NEW k \in Keys, NEW x \in Copies, Sign(k, x, c) PROVE Types'
  <2>1. /\ device' \in [Keys -> Device \cup {None}]
        /\ \E n \in Nat : [key |-> k, chal |-> c, count |-> n] \in Response
                         /\ made' = made \cup {[key |-> k, chal |-> c, count |-> n]}
    BY <1>8, SignKeeps
  <2>2. made' \subseteq Response
    BY <2>1 DEF Types
  <2>3. UNCHANGED <<standing, chal, cred, req, signIns, highest, now>>
    BY <1>8 DEF Sign
  <2> QED BY <2>1, <2>2, <2>3 DEF Types
<1>9. ASSUME NEW c \in Challenges, Cleanup(c) PROVE Types'
  BY <1>9, ConsumeKeeps DEF Cleanup, Types
<1>10. ASSUME NEW q \in Requests, NEW i \in Interactions, NEW c \in Challenges, NEW a \in made,
              LoginConsume(q, i, c, a)
       PROVE  Types'
  <2>1. [pc |-> "find", inter |-> i, chal |-> c, said |-> a] \in Finding
    BY DEF Finding, Types
  <2> QED BY <1>2, <1>10, <2>1, ConsumeKeeps DEF LoginConsume, Consumable, Types
<1>11. ASSUME NEW q \in Requests, LoginFind(q) PROVE Types'
  <2>1. req[q] \in Finding
    BY <1>11, Fields DEF LoginFind
  <2>2. CASE cred[req[q].said.key] = None
    BY <1>1, <1>11, <2>2 DEF LoginFind, Types
  <2>3. CASE cred[req[q].said.key] # None
    <3>1. [pc |-> "user", inter |-> req[q].inter, chal |-> req[q].chal,
           said |-> req[q].said, row |-> cred[req[q].said.key]] \in SigningIn
      BY <2>1, <2>3 DEF SigningIn, Finding, Response, Types
    <3> QED BY <1>2, <1>11, <2>3, <3>1 DEF LoginFind, Types
  <2> QED BY <2>2, <2>3
<1>12. ASSUME NEW q \in Requests, LoginUser(q) PROVE Types'
  <2>1. (req \in [Requests -> {Idle} \cup Finding \cup SigningIn \cup Registering])'
    BY <1>1, <1>3, <1>12 DEF LoginUser
  <2> QED BY <1>12, <2>1 DEF LoginUser, Types
<1>13. ASSUME NEW q \in Requests, LoginUpdate(q) PROVE Types'
  <2>1. (req \in [Requests -> {Idle} \cup Finding \cup SigningIn \cup Registering])'
    BY <1>1, <1>3, <1>13 DEF LoginUpdate
  <2> DEFINE k == req[q].said.key  n == req[q].said.count
  <2>2. k \in Keys /\ n \in Nat
    BY <1>13, Fields DEF LoginUpdate, SigningIn, Response
  <2>3. ASSUME cred[k] # None, cred' = [cred EXCEPT ![k].counter = n],
               highest' = [highest EXCEPT ![k] = Larger(@, n)]
        PROVE  (cred \in [Keys -> CredentialRow \cup {None}] /\ highest \in [Keys -> Nat])'
    <3> HIDE DEF k, n
    <3>1. [cred[k] EXCEPT !.counter = n] \in CredentialRow
      BY <2>2, <2>3 DEF CredentialRow, Types
    <3>2. Larger(highest[k], n) \in Nat
      BY <2>2 DEF Larger, Types
    <3> QED BY <2>2, <2>3, <3>1, <3>2 DEF Types
  <2> QED BY <1>13, <2>1, <2>3 DEF LoginUpdate, Types
<1>14. ASSUME NEW q \in Requests, LoginRecord(q) PROVE Types'
  BY <1>3, <1>14 DEF LoginRecord, Types
<1>15. ASSUME NEW q \in Requests, LoginFinish(q) PROVE Types'
  <2>1. signIns' \in [Challenges -> Nat]
    BY <1>15, Fields DEF LoginFinish, SigningIn, Types
  <2> QED BY <1>1, <1>15, <2>1 DEF LoginFinish, Types
<1>16. ASSUME NEW q \in Requests, NEW u \in Users, NEW c \in Challenges, NEW a \in made,
              RegisterConsume(q, u, c, a)
       PROVE  Types'
  <2>1. [pc |-> "store", user |-> u, handle |-> chal[c].who, said |-> a] \in Registering
    BY <1>16 DEF RegisterConsume, Consumable, Registering, Types
  <2>2. (req \in [Requests -> {Idle} \cup Finding \cup SigningIn \cup Registering])'
    BY <1>2, <1>16, <2>1 DEF RegisterConsume, Types
  <2> QED BY <1>16, <2>2, ConsumeKeeps DEF RegisterConsume, Consumable, Types
<1>17. ASSUME NEW q \in Requests, RegisterStore(q) PROVE Types'
  <2>1. req[q] \in Registering
    BY <1>17, Fields DEF RegisterStore
  <2>2. [user |-> req[q].user, handle |-> req[q].handle, counter |-> req[q].said.count] \in CredentialRow
    BY <2>1 DEF Registering, Response, CredentialRow
  <2>3. cred' \in [Keys -> CredentialRow \cup {None}]
    BY <1>17, <2>2 DEF RegisterStore, Types
  <2> QED BY <1>1, <1>17, <2>3 DEF RegisterStore, Types
<1>18. ASSUME NEW k \in Keys, RemoveKey(k) PROVE Types'
  BY <1>18 DEF RemoveKey, Types
<1>19. ASSUME NEW q \in Requests, RequestFails(q) PROVE Types'
  BY <1>1, <1>19 DEF RequestFails, Types
<1>20. ASSUME NEW u \in Users, NEW to \in {"enabled", "disabled", "gone"}, ChangeAccount(u, to) PROVE Types'
  BY <1>20, DeleteKeeps DEF ChangeAccount, Types
<1>21. ASSUME NEW u \in Users, Lock(u) PROVE Types'
  BY <1>21 DEF Lock, Types
<1>22. CASE Tick
  BY <1>22 DEF Tick, Types
<1> QED BY <1>4, <1>5, <1>6, <1>7, <1>8, <1>9, <1>10, <1>11, <1>12, <1>13, <1>14, <1>15, <1>16,
           <1>17, <1>18, <1>19, <1>20, <1>21, <1>22 DEF Next, Login, Register

----------------------------------------------------------------------------
(* What a step keeps when it leaves the state of a conjunct alone.         *)

\* Which challenges there were says what the new ones may be.
LEMMA StoredBefore ==
  ASSUME IInv, ChallengesKept
  PROVE  /\ \A c \in Challenges : (chal[c] = None \/ Stored(c))' => chal[c] = None \/ Stored(c)
         /\ \A a \in made : ForRegistration(a)' <=> ForRegistration(a)
         /\ \A a \in made : Stored(a.chal)' => Stored(a.chal)
<1>1. \A a \in made : a.chal \in Challenges /\ chal[a.chal] # None
  BY DEF IInv, Types, MadeHolds, Response
<1> QED BY <1>1 DEF ChallengesKept, Stored, ForRegistration

LEMMA MadeSame ==
  ASSUME IInv, ChallengesKept, DevicesKept, made' = made
  PROVE  MadeHolds'
<1>1. \A a \in made : a.chal \in Challenges /\ a.key \in Keys /\ chal[a.chal] # None /\ device[a.key] # None
  BY DEF IInv, Types, MadeHolds, Response
<1>2. \A a \in made : (chal[a.chal] # None /\ device[a.key] # None)'
  BY <1>1 DEF ChallengesKept, DevicesKept
<1>3. \A a \in made : ForRegistration(a)' <=> ForRegistration(a)
  BY StoredBefore
<1>4. MadeHolds
  BY DEF IInv
<1> HIDE DEF ForRegistration
<1> QED BY <1>2, <1>3, <1>4 DEF MadeHolds

LEMMA TakerSame ==
  ASSUME IInv, ChallengesKept, signIns' = signIns,
         \A q \in Requests, c \in Challenges : Took(q, c)' => Took(q, c)
  PROVE  OneTaker'
<1>1. \A c \in Challenges : (chal[c] = None \/ Stored(c))' => chal[c] = None \/ Stored(c)
  BY StoredBefore
<1>2. OneTaker
  BY DEF IInv
<1> QED BY <1>1, <1>2 DEF OneTaker

\* A request that stays where it is keeps what it holds.
LEMMA SignInSame ==
  ASSUME IInv, ChallengesKept, DevicesKept, NEW q \in Requests, req'[q] = req[q]
  PROVE  SignInHolds(q)'
<1>1. req[q].pc \in {"find", "user", "update", "record", "finish"} =>
        req[q].chal \in Challenges /\ req[q].said.key \in Keys
  BY Fields DEF IInv, Finding, SigningIn, Response
<1>2. SignInHolds(q)
  BY DEF IInv, SignInsHold
<1> QED BY <1>1, <1>2 DEF SignInHolds, ChallengesKept, DevicesKept

\* Only registrations and sign-ins move the counters; rows may go at any time.
LEMMA CountersSame ==
  ASSUME IInv, ChallengesKept, DevicesKept, made' = made, highest' = highest,
         \A k \in Keys : cred'[k] = cred[k] \/ cred'[k] = None,
         \A q \in Requests : req'[q].pc = "store" => req'[q] = req[q]
  PROVE  CountersHold'
<1>1. /\ \A a \in made : ForRegistration(a)' <=> ForRegistration(a)
      /\ \A a \in made : Stored(a.chal)' => Stored(a.chal)
  BY StoredBefore
<1>2. CountersHold /\ \A a \in made : a.key \in Keys
  BY DEF IInv, Types, Response
<1>3. (\A k \in Keys : cred[k] # None => cred[k].handle = cred[k].user /\ highest[k] = cred[k].counter)'
  BY <1>2 DEF CountersHold
<1>4. (\A k \in Keys : device[k] = None => cred[k] = None /\ highest[k] = 0)'
  BY <1>2 DEF CountersHold, DevicesKept
<1>5. (\A a \in made : ForRegistration(a) /\ Stored(a.chal) => OpenHolds(a))'
  BY <1>1, <1>2 DEF OpenHolds, CountersHold
<1>6. \A q \in Requests : (req[q].pc = "store")' => StoreHolds(q)'
  <2> SUFFICES ASSUME NEW q \in Requests, req'[q].pc = "store"
      PROVE  StoreHolds(q)'
    OBVIOUS
  <2>1. req'[q] = req[q] /\ req[q].pc = "store"
    OBVIOUS
  <2>2. StoreHolds(q)
    BY <1>2, <2>1 DEF CountersHold
  <2>3. (ForRegistration(req[q].said) /\ ~Stored(req[q].said.chal))'
    BY <1>1, <2>1, <2>2 DEF StoreHolds, ForRegistration, Stored
  <2> QED BY <1>2, <2>1, <2>2, <2>3 DEF StoreHolds
<1> QED BY <1>3, <1>4, <1>5, <1>6 DEF CountersHold

----------------------------------------------------------------------------
(* Each action keeps the invariant.                                        *)

Kept == MadeHolds /\ OneTaker /\ SignInsHold /\ CountersHold

\* Challenges that come and go, rows that are deleted, requests that end.
LEMMA QuietKeeps ==
  ASSUME IInv, ChallengesKept, DevicesKept, UNCHANGED <<made, signIns, highest>>,
         \A k \in Keys : cred'[k] = cred[k] \/ cred'[k] = None,
         \A q \in Requests : req'[q] = req[q] \/ req'[q] = Idle
  PROVE  Kept'
<1>1. MadeHolds'
  BY MadeSame
<1>2. \A q \in Requests, c \in Challenges : Took(q, c)' => Took(q, c)
  BY DEF Took, Idle
<1>3. OneTaker'
  BY <1>2, TakerSame
<1>4. ASSUME NEW q \in Requests PROVE SignInHolds(q)'
  <2>1. CASE req'[q] = req[q]
    BY <2>1, SignInSame
  <2>2. CASE req'[q] = Idle
    BY <2>2 DEF SignInHolds, Idle
  <2> QED BY <2>1, <2>2
<1>5. \A q \in Requests : req'[q].pc = "store" => req'[q] = req[q]
  BY DEF Idle
<1>6. CountersHold'
  BY <1>5, CountersSame
<1> QED BY <1>1, <1>3, <1>4, <1>6 DEF Kept, SignInsHold

\* A sign-in that moves on within its request.
LEMMA AdvanceKeeps ==
  ASSUME IInv, NEW q \in Requests, UNCHANGED <<chal, cred, device, made, signIns, highest>>,
         \A p \in Requests : p # q => req'[p] = req[p],
         req[q].pc \in {"find", "user", "update", "record", "finish"},
         req'[q].pc \in {"find", "user", "update", "record", "finish"},
         req'[q].chal = req[q].chal, SignInHolds(q)'
  PROVE  Kept'
<1>1. ChallengesKept /\ DevicesKept
  BY DEF ChallengesKept, DevicesKept
<1>2. MadeHolds'
  BY <1>1, MadeSame
<1>3. OneTaker'
  BY <1>1, TakerSame DEF Took
<1>4. SignInsHold'
  BY <1>1, SignInSame DEF SignInsHold
<1>5. \A p \in Requests : req'[p].pc = "store" => req'[p] = req[p]
  OBVIOUS
<1>6. CountersHold'
  BY <1>1, <1>5, CountersSame
<1> QED BY <1>2, <1>3, <1>4, <1>6 DEF Kept

\* The authenticator signs: a new response, made for no registration that is open.
LEMMA SignStep ==
  ASSUME IInv, NEW k \in Keys, NEW x \in Copies, NEW c \in Challenges, Sign(k, x, c)
  PROVE  Kept'
<1>1. Types /\ ChallengesKept /\ UNCHANGED <<chal, cred, req, signIns, highest>>
      /\ chal[c] # None /\ chal[c].purpose = "authentication"
  BY DEF Sign, IInv, ChallengesKept
<1>2. DevicesKept /\ device'[k] # None /\ \A o \in Keys : o # k => device'[o] = device[o]
  BY <1>1, SignKeeps
<1>3. PICK n \in Nat : made' = made \cup {[key |-> k, chal |-> c, count |-> n]}
  BY <1>1, SignKeeps
<1> DEFINE s == [key |-> k, chal |-> c, count |-> n]
<1>4. s.chal = c /\ s.key = k /\ ~ForRegistration(s) /\ made' = made \cup {s}
  BY <1>1, <1>3 DEF ForRegistration
<1> HIDE DEF s
<1>5. \A a : ForRegistration(a)' <=> ForRegistration(a)
  BY <1>1 DEF ForRegistration
<1>6. \A a \in made : a.key \in Keys /\ device'[a.key] # None
  BY <1>2 DEF IInv, Types, MadeHolds, DevicesKept, Response
<1>7. MadeHolds'
  <2>1. MadeHolds
    BY DEF IInv
  <2>2. (\A a \in made : chal[a.chal] # None /\ device[a.key] # None)'
    BY <1>1, <1>2, <1>4, <1>6, <2>1 DEF MadeHolds
  <2>3. \A a \in made' : ForRegistration(a) => a \in made
    BY <1>4
  <2> QED BY <1>5, <2>1, <2>2, <2>3 DEF MadeHolds
<1>8. OneTaker'
  BY <1>1, TakerSame DEF Took
<1>9. SignInsHold'
  BY <1>1, <1>2, SignInSame DEF SignInsHold
<1>10. CountersHold'
  <2>1. CountersHold /\ (\A d \in Challenges : Stored(d)' <=> Stored(d))
    BY <1>1 DEF IInv, Stored
  <2>2. (\A a \in made : ForRegistration(a) /\ Stored(a.chal) => OpenHolds(a))'
    <3>1. \A a \in made' : ForRegistration(a) /\ Stored(a.chal)' => a \in made /\ Stored(a.chal)
      BY <1>1, <1>4 DEF Stored
    <3> QED BY <1>1, <1>5, <2>1, <3>1 DEF OpenHolds, CountersHold
  <2>3. (\A q \in Requests : req[q].pc = "store" => StoreHolds(q))'
    BY <1>1, <1>4, <2>1 DEF StoreHolds, CountersHold, ForRegistration, Stored
  <2>4. (\A o \in Keys : device[o] = None => cred[o] = None /\ highest[o] = 0)'
    BY <1>1, <1>2, <2>1 DEF CountersHold
  <2> QED BY <1>1, <2>1, <2>2, <2>3, <2>4 DEF CountersHold
<1> QED BY <1>7, <1>8, <1>9, <1>10 DEF Kept

\* A new key has answered nothing before, so no row, counter or request knows it.
LEMMA MakeKeyStep ==
  ASSUME IInv, NEW k \in Keys, NEW c \in Challenges, NEW b \in BOOLEAN, MakeKey(k, c, b)
  PROVE  Kept'
<1> DEFINE s == [key |-> k, chal |-> c, count |-> 0]
<1>1. Types /\ ChallengesKept /\ UNCHANGED <<chal, cred, req, signIns, highest>>
      /\ chal[c] # None /\ device[k] = None /\ made' = made \cup {s}
  BY DEF MakeKey, IInv, ChallengesKept
<1>2. DevicesKept /\ device'[k] # None /\ \A o \in Keys : o # k => device'[o] = device[o]
  BY <1>1, MakeKeyKeeps
<1>3. s.chal = c /\ s.key = k /\ s.count = 0
  OBVIOUS
<1> HIDE DEF s
<1>4. \A a : ForRegistration(a)' <=> ForRegistration(a)
  BY <1>1 DEF ForRegistration
<1>5. \A a \in made : a.key \in Keys /\ a.key # k /\ device'[a.key] # None
  BY <1>1, <1>2 DEF IInv, Types, MadeHolds, DevicesKept, Response
<1>6. MadeHolds'
  <2>1. MadeHolds
    BY DEF IInv
  <2>2. (\A a \in made : chal[a.chal] # None /\ device[a.key] # None)'
    BY <1>1, <1>2, <1>3, <1>5, <2>1 DEF MadeHolds
  <2>3. (\A a \in made : ForRegistration(a) => a.count = 0)'
    BY <1>1, <1>3, <1>4, <2>1 DEF MadeHolds
  <2>4. (\A d, e \in made : ForRegistration(d) /\ ForRegistration(e) /\ d.key = e.key => d = e)'
    BY <1>1, <1>3, <1>4, <1>5, <2>1 DEF MadeHolds
  <2> QED BY <2>2, <2>3, <2>4 DEF MadeHolds
<1>7. OneTaker'
  BY <1>1, TakerSame DEF Took
<1>8. SignInsHold'
  BY <1>1, <1>2, SignInSame DEF SignInsHold
<1>9. CountersHold'
  <2>1. CountersHold /\ cred[k] = None /\ highest[k] = 0
    BY <1>1 DEF IInv, CountersHold
  <2>2. s \notin made
    BY <1>3, <1>5
  <2>3. (\A a \in made : ForRegistration(a) /\ Stored(a.chal) => OpenHolds(a))'
    <3>1. ASSUME NEW a \in made', ForRegistration(a), Stored(a.chal)
          PROVE  OpenHolds(a)
      <4>1. CASE a \in made
        BY <2>1, <3>1, <4>1 DEF CountersHold
      <4>2. CASE a = s
        BY <1>3, <2>1, <2>2, <4>2 DEF OpenHolds, StoreHolds, CountersHold
      <4> QED BY <1>1, <4>1, <4>2
    <3>2. \A a : Stored(a.chal)' <=> Stored(a.chal)
      BY <1>1 DEF Stored
    <3> QED BY <1>1, <1>4, <3>1, <3>2 DEF OpenHolds
  <2>4. (\A q \in Requests : req[q].pc = "store" => StoreHolds(q))'
    BY <1>1, <2>1 DEF StoreHolds, CountersHold, ForRegistration, Stored
  <2>5. (\A o \in Keys : device[o] = None => cred[o] = None /\ highest[o] = 0)'
    BY <1>1, <1>2, <2>1 DEF CountersHold
  <2> QED BY <1>1, <2>1, <2>3, <2>4, <2>5 DEF CountersHold
<1> QED BY <1>6, <1>7, <1>8, <1>9 DEF Kept

\* The request takes the challenge out of the table.
LEMMA LoginConsumeStep ==
  ASSUME IInv, NEW q \in Requests, NEW i \in Interactions, NEW c \in Challenges, NEW a \in made,
         LoginConsume(q, i, c, a)
  PROVE  Kept'
<1> DEFINE r == [pc |-> "find", inter |-> i, chal |-> c, said |-> a]
<1>1. Types /\ UNCHANGED <<cred, device, made, signIns, highest>> /\ req' = [req EXCEPT ![q] = r]
      /\ Stored(c) /\ chal[c].who = i /\ Consume(c) /\ req[q].pc = "idle"
  BY DEF LoginConsume, IInv, Consumable, Stored
<1>2. r.pc = "find" /\ r.inter = i /\ r.chal = c /\ r.said = a
  OBVIOUS
<1> HIDE DEF r
<1>3. req'[q] = r /\ \A p \in Requests : p # q => req'[p] = req[p]
  BY <1>1 DEF Types
<1>4. ChallengesKept /\ DevicesKept /\ chal'[c] # None /\ ~Stored(c)' /\ chal'[c].who = i
  BY <1>1, ConsumeKeeps DEF Stored, DevicesKept, ChallengesKept
<1>5. MadeHolds'
  BY <1>1, <1>4, MadeSame
<1>6. OneTaker'
  <2>1. OneTaker /\ signIns[c] = 0 /\ \A p \in Requests : ~Took(p, c)
    BY <1>1 DEF IInv, OneTaker
  <2>2. \A p \in Requests, d \in Challenges : Took(p, d)' => (p = q /\ d = c) \/ (p # q /\ Took(p, d))
    BY <1>2, <1>3 DEF Took
  <2>3. \A d \in Challenges : (chal[d] = None \/ Stored(d))' => d # c /\ (chal[d] = None \/ Stored(d))
    BY <1>4, StoredBefore
  <2>4. (\A d \in Challenges : chal[d] = None \/ Stored(d) =>
           signIns[d] = 0 /\ \A p \in Requests : ~Took(p, d))'
    BY <1>1, <2>1, <2>2, <2>3 DEF OneTaker
  <2>5. (\A o, p \in Requests, d \in Challenges : Took(o, d) =>
           signIns[d] = 0 /\ (Took(p, d) => p = o))'
    BY <1>1, <2>1, <2>2 DEF OneTaker
  <2> QED BY <1>1, <2>1, <2>4, <2>5 DEF OneTaker
<1>7. SignInsHold'
  <2>1. device[a.key] # None
    BY DEF IInv, MadeHolds
  <2>2. SignInHolds(q)'
    BY <1>1, <1>2, <1>3, <1>4, <2>1 DEF SignInHolds
  <2> QED BY <1>3, <1>4, <2>2, SignInSame DEF SignInsHold
<1>8. CountersHold'
  <2>1. \A p \in Requests : req'[p].pc = "store" => req'[p] = req[p]
    BY <1>2, <1>3
  <2> QED BY <1>1, <1>4, <2>1, CountersSame
<1> QED BY <1>5, <1>6, <1>7, <1>8 DEF Kept

\* The row that is read names one account twice, as the registration did.
LEMMA LoginFindStep ==
  ASSUME IInv, NEW q \in Requests, LoginFind(q)
  PROVE  Kept'
<1>1. Types /\ UNCHANGED <<chal, cred, device, made, signIns, highest>> /\ req[q].pc = "find"
      /\ ChallengesKept /\ DevicesKept
  BY DEF LoginFind, IInv, ChallengesKept, DevicesKept
<1>2. req[q] \in Finding
  BY <1>1, Fields
<1>3. CASE cred[req[q].said.key] = None
  <2>1. Done(q)
    BY <1>3 DEF LoginFind
  <2>2. \A p \in Requests : req'[p] = req[p] \/ req'[p] = Idle
    BY <1>1, <2>1 DEF Done, Types
  <2> QED BY <1>1, <2>2, QuietKeeps
<1>4. CASE cred[req[q].said.key] # None
  <2> DEFINE r == [pc |-> "user", inter |-> req[q].inter, chal |-> req[q].chal,
                   said |-> req[q].said, row |-> cred[req[q].said.key]]
  <2>1. req' = [req EXCEPT ![q] = r]
    BY <1>4 DEF LoginFind
  <2>2. r.pc = "user" /\ r.inter = req[q].inter /\ r.chal = req[q].chal /\ r.said = req[q].said
        /\ r.row = cred[req[q].said.key]
    OBVIOUS
  <2> HIDE DEF r
  <2>3. req'[q] = r /\ \A p \in Requests : p # q => req'[p] = req[p]
    BY <1>1, <2>1 DEF Types
  <2>4. r.row.handle = r.row.user
    BY <1>2, <1>4, <2>2 DEF IInv, CountersHold, Finding, Response
  <2>5. SignInHolds(q)
    BY DEF IInv, SignInsHold
  <2>6. SignInHolds(q)'
    BY <1>1, <2>2, <2>3, <2>4, <2>5 DEF SignInHolds
  <2> QED BY <1>1, <2>2, <2>3, <2>6, AdvanceKeeps
<1> QED BY <1>3, <1>4

\* A sign-in that only changes its place.
LEMMA MoveFields ==
  ASSUME Types, NEW q \in Requests, req[q].pc \in {"user", "update", "record"},
         NEW pc \in {"update", "record", "finish"}, req' = [req EXCEPT ![q].pc = pc]
  PROVE  /\ req'[q].pc = pc /\ req'[q].chal = req[q].chal /\ req'[q].inter = req[q].inter
         /\ req'[q].said = req[q].said /\ req'[q].row = req[q].row
         /\ \A p \in Requests : p # q => req'[p] = req[p]
<1>1. req[q] \in SigningIn
  BY Fields
<1> DEFINE r == [req[q] EXCEPT !.pc = pc]
<1>2. r.pc = pc /\ r.chal = req[q].chal /\ r.inter = req[q].inter /\ r.said = req[q].said /\ r.row = req[q].row
  BY <1>1 DEF SigningIn
<1>3. req' = [req EXCEPT ![q] = r]
  OBVIOUS
<1> HIDE DEF r
<1> QED BY <1>2, <1>3 DEF Types

\* verifyAuthentication binds the key to the row's account.
LEMMA LoginUserStep ==
  ASSUME IInv, NEW q \in Requests, LoginUser(q)
  PROVE  Kept'
<1>1. Types /\ UNCHANGED <<chal, cred, device, made, signIns, highest>> /\ req[q].pc = "user"
      /\ ChallengesKept /\ DevicesKept
  BY DEF LoginUser, IInv, ChallengesKept, DevicesKept
<1>2. CASE Done(q)
  <2>1. \A p \in Requests : req'[p] = req[p] \/ req'[p] = Idle
    BY <1>1, <1>2 DEF Done, Types
  <2> QED BY <1>1, <2>1, QuietKeeps
<1>3. CASE ~Done(q)
  <2>1. req' = [req EXCEPT ![q].pc = "update"] /\ device[req[q].said.key].user = req[q].row.handle
    BY <1>3 DEF LoginUser
  <2>2. /\ req'[q].pc = "update" /\ req'[q].chal = req[q].chal /\ req'[q].inter = req[q].inter
        /\ req'[q].said = req[q].said /\ req'[q].row = req[q].row
        /\ \A p \in Requests : p # q => req'[p] = req[p]
    BY <1>1, <2>1, MoveFields
  <2>3. SignInHolds(q)
    BY DEF IInv, SignInsHold
  <2>4. SignInHolds(q)'
    BY <1>1, <2>1, <2>2, <2>3 DEF SignInHolds
  <2> QED BY <1>1, <2>2, <2>4, AdvanceKeeps
<1> QED BY <1>2, <1>3

LEMMA LoginRecordStep ==
  ASSUME IInv, NEW q \in Requests, LoginRecord(q)
  PROVE  Kept'
<1>1. Types /\ UNCHANGED <<chal, cred, device, made, signIns, highest>> /\ req[q].pc = "record"
      /\ req' = [req EXCEPT ![q].pc = "finish"]
  BY DEF LoginRecord, IInv
<1>2. /\ req'[q].pc = "finish" /\ req'[q].chal = req[q].chal /\ req'[q].inter = req[q].inter
      /\ req'[q].said = req[q].said /\ req'[q].row = req[q].row
      /\ \A p \in Requests : p # q => req'[p] = req[p]
  BY <1>1, MoveFields
<1>3. SignInHolds(q)
  BY DEF IInv, SignInsHold
<1>4. SignInHolds(q)'
  BY <1>1, <1>2, <1>3 DEF SignInHolds
<1> QED BY <1>1, <1>2, <1>4, AdvanceKeeps

\* The one request that took the challenge signs in with it.
LEMMA LoginFinishStep ==
  ASSUME IInv, NEW q \in Requests, LoginFinish(q)
  PROVE  Kept'
<1>1. Types /\ UNCHANGED <<chal, cred, device, made, highest>> /\ req[q].pc = "finish" /\ Done(q)
      /\ signIns' = [signIns EXCEPT ![req[q].chal] = @ + 1] /\ ChallengesKept /\ DevicesKept
  BY DEF LoginFinish, IInv, ChallengesKept, DevicesKept
<1> DEFINE c == req[q].chal
<1>2. c \in Challenges /\ Took(q, c)
  BY <1>1, Fields DEF SigningIn, Took
<1>3. chal[c] # None
  BY <1>1 DEF IInv, SignInsHold, SignInHolds
<1> HIDE DEF c
<1>4. req'[q] = Idle /\ \A p \in Requests : p # q => req'[p] = req[p]
  BY <1>1 DEF Done, Types
<1>5. OneTaker /\ signIns[c] = 0 /\ (\A p \in Requests : Took(p, c) => p = q) /\ ~Stored(c)
  BY <1>2 DEF IInv, OneTaker
<1>6. signIns'[c] = 1 /\ \A d \in Challenges : d # c => signIns'[d] = signIns[d]
  BY <1>1, <1>2, <1>5 DEF Types, c
<1>7. \A p \in Requests, d \in Challenges : Took(p, d)' => d # c /\ Took(p, d)
  BY <1>4, <1>5 DEF Took, Idle
<1>8. OneTaker'
  <2>1. (\A d \in Challenges : signIns[d] <= 1)'
    BY <1>5, <1>6 DEF OneTaker
  <2>2. \A d \in Challenges : (chal[d] = None \/ Stored(d))' => d # c /\ (chal[d] = None \/ Stored(d))
    BY <1>1, <1>3, <1>5 DEF Stored
  <2>3. (\A d \in Challenges : chal[d] = None \/ Stored(d) =>
           signIns[d] = 0 /\ \A p \in Requests : ~Took(p, d))'
    BY <1>5, <1>6, <1>7, <2>2 DEF OneTaker
  <2>4. (\A o, p \in Requests, d \in Challenges : Took(o, d) =>
           signIns[d] = 0 /\ (Took(p, d) => p = o))'
    BY <1>5, <1>6, <1>7 DEF OneTaker
  <2> QED BY <2>1, <2>3, <2>4 DEF OneTaker
<1>9. MadeHolds'
  BY <1>1, MadeSame
<1>10. SignInsHold'
  <2>1. SignInHolds(q)'
    BY <1>4 DEF SignInHolds, Idle
  <2> QED BY <1>1, <1>4, <2>1, SignInSame DEF SignInsHold
<1>11. CountersHold'
  <2>1. \A p \in Requests : req'[p].pc = "store" => req'[p] = req[p]
    BY <1>4 DEF Idle
  <2> QED BY <1>1, <2>1, CountersSame
<1> QED BY <1>8, <1>9, <1>10, <1>11 DEF Kept

\* The counter read is still the row's, so what is accepted exceeds all before it.
LEMMA Accepted ==
  ASSUME IInv, NEW q \in Requests, LoginUpdate(q), ~Done(q)
  PROVE  /\ req[q] \in SigningIn /\ req' = [req EXCEPT ![q].pc = "record"]
         /\ cred[req[q].said.key] # None
         /\ Advances(highest[req[q].said.key], req[q].said.count)
         /\ cred' = [cred EXCEPT ![req[q].said.key].counter = req[q].said.count]
         /\ highest' = [highest EXCEPT ![req[q].said.key] = req[q].said.count]
<1>1. req[q] \in SigningIn
  BY Fields DEF IInv, LoginUpdate
<1> DEFINE k == req[q].said.key  n == req[q].said.count
<1>2. k \in Keys /\ n \in Nat
  BY <1>1 DEF SigningIn, Response
<1>3. /\ cred[k] # None /\ cred[k].counter = req[q].row.counter /\ Advances(req[q].row.counter, n)
      /\ cred' = [cred EXCEPT ![k].counter = n] /\ highest' = [highest EXCEPT ![k] = Larger(@, n)]
      /\ req' = [req EXCEPT ![q].pc = "record"]
  BY DEF LoginUpdate
<1> HIDE DEF k, n
<1>4. highest[k] = cred[k].counter /\ highest \in [Keys -> Nat]
  BY <1>2, <1>3 DEF IInv, CountersHold, Types
<1>5. Advances(highest[k], n)
  BY <1>3, <1>4
<1>6. Larger(highest[k], n) = n
  BY <1>2, <1>4, <1>5 DEF Larger, Advances
<1>7. highest' = [highest EXCEPT ![k] = n]
  BY <1>3, <1>6
<1> QED BY <1>1, <1>3, <1>5, <1>7 DEF k, n

LEMMA LoginUpdateStep ==
  ASSUME IInv, NEW q \in Requests, LoginUpdate(q)
  PROVE  Kept'
<1>1. Types /\ UNCHANGED <<chal, device, made, signIns>> /\ req[q].pc = "update"
      /\ ChallengesKept /\ DevicesKept
  BY DEF LoginUpdate, IInv, ChallengesKept, DevicesKept
<1>2. CASE Done(q)
  <2>1. \A p \in Requests : req'[p] = req[p] \/ req'[p] = Idle
    BY <1>1, <1>2 DEF Done, Types
  <2>2. req'[q] = Idle
    BY <1>1, <1>2 DEF Done, Types
  <2>3. req'[q].pc # "record"
    BY <2>2 DEF Idle
  <2>4. UNCHANGED <<cred, highest>>
    <3>1. ASSUME req' = [req EXCEPT ![q].pc = "record"] PROVE FALSE
      BY <1>1, <2>3, <3>1, MoveFields
    <3> QED BY <3>1 DEF LoginUpdate
  <2> QED BY <1>1, <2>1, <2>4, QuietKeeps
<1>3. CASE ~Done(q)
  <2> DEFINE k == req[q].said.key  n == req[q].said.count
  <2>1. /\ req[q] \in SigningIn /\ req' = [req EXCEPT ![q].pc = "record"] /\ cred[k] # None
        /\ cred' = [cred EXCEPT ![k].counter = n] /\ highest' = [highest EXCEPT ![k] = n]
    BY <1>3, Accepted
  <2>2. k \in Keys /\ n \in Nat
    BY <2>1 DEF SigningIn, Response
  <2>3. /\ req'[q].pc = "record" /\ req'[q].chal = req[q].chal /\ req'[q].inter = req[q].inter
        /\ req'[q].said = req[q].said /\ req'[q].row = req[q].row
        /\ \A p \in Requests : p # q => req'[p] = req[p]
    BY <1>1, <2>1, MoveFields
  <2> HIDE DEF k, n
  <2>4. /\ cred'[k].handle = cred[k].handle /\ cred'[k].user = cred[k].user /\ cred'[k].counter = n
        /\ highest'[k] = n
    <3>1. cred[k] \in CredentialRow
      BY <1>1, <2>1, <2>2 DEF Types
    <3> DEFINE r == [cred[k] EXCEPT !.counter = n]
    <3>2. r.handle = cred[k].handle /\ r.user = cred[k].user /\ r.counter = n
      BY <3>1 DEF CredentialRow
    <3>3. cred'[k] = r /\ highest'[k] = n
      BY <1>1, <2>1, <2>2 DEF Types
    <3> QED BY <3>2, <3>3
  <2>5. \A o \in Keys : o # k => cred'[o] = cred[o] /\ highest'[o] = highest[o]
    BY <1>1, <2>1, <2>2 DEF Types
  <2>6. MadeHolds' /\ OneTaker'
    BY <1>1, <2>3, MadeSame, TakerSame DEF Took
  <2>7. SignInsHold'
    <3>1. SignInHolds(q)
      BY DEF IInv, SignInsHold
    <3>2. SignInHolds(q)'
      BY <1>1, <2>3, <3>1 DEF SignInHolds
    <3> QED BY <1>1, <2>3, <3>2, SignInSame DEF SignInsHold
  <2>8. CountersHold'
    <3>1. CountersHold /\ \A a \in made : a.key \in Keys
      BY <1>1 DEF IInv, Types, Response
    <3>2. (\A o \in Keys : cred[o] # None => cred[o].handle = cred[o].user /\ highest[o] = cred[o].counter)'
      BY <2>1, <2>4, <2>5, <3>1 DEF CountersHold
    <3>3. (\A o \in Keys : device[o] = None => cred[o] = None /\ highest[o] = 0)'
      BY <1>1, <2>1, <2>5, <3>1 DEF CountersHold
    <3>4. /\ \A a : (ForRegistration(a)' <=> ForRegistration(a)) /\ (Stored(a.chal)' <=> Stored(a.chal))
          /\ \A p \in Requests : (req[p].pc = "store")' => req'[p] = req[p]
      BY <1>1, <2>3 DEF ForRegistration, Stored
    <3>5. (\A a \in made : ForRegistration(a) /\ Stored(a.chal) => OpenHolds(a))'
      <4>1. ASSUME NEW a \in made, ForRegistration(a), Stored(a.chal) PROVE a.key # k
        BY <2>1, <3>1, <4>1 DEF OpenHolds, CountersHold
      <4> QED BY <1>1, <2>5, <3>1, <3>4, <4>1 DEF OpenHolds, CountersHold
    <3>6. \A p \in Requests : (req[p].pc = "store")' => StoreHolds(p)'
      <4> SUFFICES ASSUME NEW p \in Requests, req'[p].pc = "store"
          PROVE  StoreHolds(p)'
        OBVIOUS
      <4>1. req'[p] = req[p] /\ req[p].pc = "store"
        BY <3>4
      <4>2. StoreHolds(p)
        BY <3>1, <4>1 DEF CountersHold
      <4>3. req[p].said.key # k /\ req[p].said.key \in Keys
        BY <2>1, <3>1, <4>2 DEF StoreHolds
      <4>4. (ForRegistration(req[p].said) /\ ~Stored(req[p].said.chal))'
        BY <1>1, <4>1, <4>2 DEF StoreHolds, ForRegistration, Stored
      <4> QED BY <1>1, <2>5, <3>4, <4>1, <4>2, <4>3, <4>4 DEF StoreHolds
    <3> QED BY <3>2, <3>3, <3>5, <3>6 DEF CountersHold
  <2> QED BY <2>6, <2>7, <2>8 DEF Kept
<1> QED BY <1>2, <1>3

\* The response of an open registration moves into the one request that stores it.
LEMMA RegisterConsumeStep ==
  ASSUME IInv, NEW q \in Requests, NEW u \in Users, NEW c \in Challenges, NEW a \in made,
         RegisterConsume(q, u, c, a)
  PROVE  Kept'
<1>1. Types /\ UNCHANGED <<cred, device, made, signIns, highest>> /\ req[q].pc = "idle" /\ Consume(c)
      /\ Stored(c) /\ chal[c].who = u /\ chal[c].purpose = "registration"
  BY DEF RegisterConsume, IInv, Consumable, Stored
<1>2. ChallengesKept /\ DevicesKept /\ ~Stored(c)'
  BY <1>1, ConsumeKeeps DEF Stored, DevicesKept
<1>3. CASE a.chal # c
  BY <1>1, <1>2, <1>3, QuietKeeps DEF RegisterConsume
<1>4. CASE a.chal = c
  <2> DEFINE r == [pc |-> "store", user |-> u, handle |-> chal[c].who, said |-> a]
  <2>1. req' = [req EXCEPT ![q] = r]
    BY <1>4 DEF RegisterConsume
  <2>2. r.pc = "store" /\ r.handle = r.user /\ r.said = a
    BY <1>1
  <2> HIDE DEF r
  <2>3. req'[q] = r /\ \A p \in Requests : p # q => req'[p] = req[p]
    BY <1>1, <2>1 DEF Types
  <2>4. MadeHolds'
    BY <1>1, <1>2, MadeSame
  <2>5. OneTaker'
    BY <1>1, <1>2, <2>2, <2>3, TakerSame DEF Took
  <2>6. SignInsHold'
    <3>1. SignInHolds(q)'
      BY <2>2, <2>3 DEF SignInHolds
    <3> QED BY <1>2, <2>3, <3>1, SignInSame DEF SignInsHold
  <2>7. CountersHold'
    <3>1. CountersHold /\ ForRegistration(a) /\ Stored(a.chal)
      BY <1>1, <1>4 DEF IInv, ForRegistration
    <3>2. OpenHolds(a)
      BY <3>1 DEF CountersHold
    <3>3. /\ \A b \in made : ForRegistration(b)' <=> ForRegistration(b)
          /\ \A b \in made : Stored(b.chal)' => Stored(b.chal) /\ b # a
      BY <1>2, <1>4, StoredBefore
    <3>4. (\A b \in made : ForRegistration(b) /\ Stored(b.chal) => OpenHolds(b))'
      <4>1. ASSUME NEW b \in made, ForRegistration(b)', Stored(b.chal)' PROVE OpenHolds(b)'
        <5>1. OpenHolds(b) /\ b # a
          BY <3>1, <3>3, <4>1 DEF CountersHold
        <5> QED BY <1>1, <2>2, <2>3, <5>1 DEF OpenHolds
      <4> QED BY <1>1, <4>1
    <3>5. ASSUME NEW p \in Requests, p # q, req[p].pc = "store" PROVE StoreHolds(p)' /\ req[p].said.key # a.key
      <4>1. StoreHolds(p)
        BY <3>1, <3>5 DEF CountersHold
      <4>2. req[p].said # a
        BY <3>2, <3>5 DEF OpenHolds
      <4>3. req[p].said.key # a.key
        BY <3>1, <4>1, <4>2 DEF IInv, MadeHolds, StoreHolds
      <4>4. (ForRegistration(req[p].said) /\ ~Stored(req[p].said.chal))'
        <5> DEFINE b == req[p].said
        <5>1. b \in made /\ req'[p].said = b /\ ForRegistration(b) /\ ~Stored(b.chal)
          BY <2>3, <3>5, <4>1 DEF StoreHolds
        <5>2. chal'[b.chal].purpose = "registration" /\ ~(chal'[b.chal] # None /\ chal'[b.chal].stored)
          BY <3>3, <5>1 DEF ForRegistration, Stored
        <5> QED BY <5>1, <5>2 DEF ForRegistration, Stored
      <4> QED BY <1>1, <2>2, <2>3, <3>5, <4>1, <4>3, <4>4 DEF StoreHolds
    <3>6. StoreHolds(q)'
      <4>1. (req[q].said \in made /\ cred[req[q].said.key] = None /\ highest[req[q].said.key] = 0
             /\ req[q].handle = req[q].user)'
        BY <1>1, <2>2, <2>3, <3>2 DEF OpenHolds
      <4>2. (ForRegistration(req[q].said) /\ ~Stored(req[q].said.chal))'
        <5>1. chal'[c].purpose = "registration" /\ ~(chal'[c] # None /\ chal'[c].stored)
          BY <1>1, <1>2 DEF ChallengesKept, Stored
        <5> QED BY <1>4, <2>2, <2>3, <5>1 DEF ForRegistration, Stored
      <4>3. (\A p \in Requests : req[p].pc = "store" /\ req[p].said.key = req[q].said.key => p = q)'
        BY <2>2, <2>3, <3>5
      <4> QED BY <4>1, <4>2, <4>3 DEF StoreHolds
    <3>7. (\A p \in Requests : req[p].pc = "store" => StoreHolds(p))'
      BY <2>3, <3>5, <3>6
    <3> QED BY <1>1, <3>1, <3>4, <3>7 DEF CountersHold
  <2> QED BY <2>4, <2>5, <2>6, <2>7 DEF Kept
<1> QED BY <1>3, <1>4

\* The row begins with the counter of the registration, 0, and so do the accepted counters.
LEMMA RegisterStoreStep ==
  ASSUME IInv, NEW q \in Requests, RegisterStore(q)
  PROVE  Kept'
<1>1. Types /\ UNCHANGED <<chal, device, made, signIns, highest>> /\ req[q].pc = "store" /\ Done(q)
      /\ ChallengesKept /\ DevicesKept
  BY DEF RegisterStore, IInv, ChallengesKept, DevicesKept
<1>2. req'[q] = Idle /\ \A p \in Requests : p # q => req'[p] = req[p]
  BY <1>1 DEF Done, Types
<1>3. \A p \in Requests : req'[p] = req[p] \/ req'[p] = Idle
  BY <1>2
<1>4. CASE UNCHANGED cred
  BY <1>1, <1>3, <1>4, QuietKeeps
<1>5. CASE ~UNCHANGED cred
  <2> DEFINE k == req[q].said.key
             r == [user |-> req[q].user, handle |-> req[q].handle, counter |-> req[q].said.count]
  <2>1. cred' = [cred EXCEPT ![k] = r] /\ req[q] \in Registering
    BY <1>1, <1>5, Fields DEF RegisterStore
  <2>2. CountersHold /\ StoreHolds(q)
    BY <1>1 DEF IInv, CountersHold
  <2>3. k \in Keys /\ device[k] # None /\ highest[k] = 0 /\ req[q].said.count = 0
        /\ ForRegistration(req[q].said) /\ ~Stored(req[q].said.chal)
    BY <2>1, <2>2 DEF IInv, MadeHolds, StoreHolds, Registering, Response
  <2>4. r.handle = r.user /\ r.counter = highest[k]
    BY <2>2, <2>3 DEF StoreHolds
  <2> HIDE DEF r
  <2>5. cred'[k] = r /\ \A o \in Keys : o # k => cred'[o] = cred[o]
    BY <1>1, <2>1, <2>3 DEF Types
  <2>6. MadeHolds'
    BY <1>1, MadeSame
  <2>7. OneTaker'
    BY <1>1, <1>3, TakerSame DEF Took, Idle
  <2>8. SignInsHold'
    <3>1. SignInHolds(q)'
      BY <1>2 DEF SignInHolds, Idle
    <3> QED BY <1>1, <1>2, <3>1, SignInSame DEF SignInsHold
  <2>9. CountersHold'
    <3>1. (\A o \in Keys : cred[o] # None => cred[o].handle = cred[o].user /\ highest[o] = cred[o].counter)'
      BY <1>1, <2>2, <2>4, <2>5 DEF CountersHold
    <3>2. (\A o \in Keys : device[o] = None => cred[o] = None /\ highest[o] = 0)'
      BY <1>1, <2>2, <2>3, <2>5 DEF CountersHold
    <3>3. /\ \A a : (ForRegistration(a)' <=> ForRegistration(a)) /\ (Stored(a.chal)' <=> Stored(a.chal))
          /\ \A p \in Requests : (req[p].pc = "store")' => p # q /\ req'[p] = req[p]
      BY <1>1, <1>2 DEF ForRegistration, Stored, Idle
    <3>4. (\A a \in made : ForRegistration(a) /\ Stored(a.chal) => OpenHolds(a))'
      <4>1. ASSUME NEW a \in made, ForRegistration(a), Stored(a.chal) PROVE OpenHolds(a)'
        <5>1. a # req[q].said
          BY <2>3, <4>1
        <5>2. a.key # k /\ a.key \in Keys
          BY <2>2, <2>3, <4>1, <5>1 DEF IInv, MadeHolds, StoreHolds, Types, Response
        <5>3. OpenHolds(a)
          BY <2>2, <4>1 DEF CountersHold
        <5> QED BY <1>1, <2>5, <3>3, <5>2, <5>3 DEF OpenHolds
      <4> QED BY <1>1, <3>3, <4>1
    <3>5. ASSUME NEW p \in Requests, req'[p].pc = "store" PROVE StoreHolds(p)'
      <4>1. p # q /\ req'[p] = req[p] /\ req[p].pc = "store"
        BY <3>3, <3>5
      <4>2. StoreHolds(p)
        BY <2>2, <4>1 DEF CountersHold
      <4>3. req[p].said.key # k
        BY <2>2, <4>1 DEF StoreHolds
      <4>4. req[p].said.key \in Keys
        BY <1>1, <4>2 DEF StoreHolds, Types, Response
      <4>5. (ForRegistration(req[p].said) /\ ~Stored(req[p].said.chal))'
        BY <1>1, <4>1, <4>2 DEF StoreHolds, ForRegistration, Stored
      <4> QED BY <1>1, <2>5, <3>3, <4>1, <4>2, <4>3, <4>4, <4>5 DEF StoreHolds
    <3> QED BY <3>1, <3>2, <3>4, <3>5 DEF CountersHold
  <2> QED BY <2>6, <2>7, <2>8, <2>9 DEF Kept
<1> QED BY <1>4, <1>5

----------------------------------------------------------------------------
(* The theorems.                                                           *)

\* The invariant is inductive.
LEMMA StepIInv == IInv /\ [Next]_vars => IInv'
<1> SUFFICES ASSUME IInv, [Next]_vars PROVE Kept'
  BY TypesStep DEF IInv, Kept
<1>1. Types
  BY DEF IInv
<1>2. CASE UNCHANGED vars
  BY <1>2, QuietKeeps DEF vars, ChallengesKept, DevicesKept
<1>3. ASSUME NEW c \in Challenges, NEW i \in Interactions, LoginOptions(i, c) PROVE Kept'
  BY <1>1, <1>3, CreateKeeps, QuietKeeps DEF LoginOptions, DevicesKept
<1>4. ASSUME NEW c \in Challenges, NEW u \in Users, RegistrationOptions(u, c) PROVE Kept'
  BY <1>1, <1>4, CreateKeeps, QuietKeeps DEF RegistrationOptions, DevicesKept
<1>5. ASSUME NEW c \in Challenges, Cleanup(c) PROVE Kept'
  BY <1>1, <1>5, ConsumeKeeps, QuietKeeps DEF Cleanup, DevicesKept
<1>6. ASSUME NEW k \in Keys, RemoveKey(k) PROVE Kept'
  BY <1>1, <1>6, QuietKeeps DEF RemoveKey, ChallengesKept, DevicesKept, Types
<1>7. ASSUME NEW q \in Requests, RequestFails(q) PROVE Kept'
  <2>1. \A p \in Requests : req'[p] = req[p] \/ req'[p] = Idle
    BY <1>1, <1>7 DEF RequestFails, Done, Types
  <2> QED BY <1>7, <2>1, QuietKeeps DEF RequestFails, ChallengesKept, DevicesKept
<1>8. ASSUME NEW u \in Users, NEW to \in {"enabled", "disabled", "gone"}, ChangeAccount(u, to) PROVE Kept'
  <2>1. ChallengesKept /\ \A k \in Keys : cred'[k] = cred[k] \/ cred'[k] = None
    BY <1>1, <1>8, DeleteKeeps
  <2> QED BY <1>8, <2>1, QuietKeeps DEF ChangeAccount, DevicesKept
<1>9. ASSUME NEW u \in Users, Lock(u) PROVE Kept'
  BY <1>9, QuietKeeps DEF Lock, ChallengesKept, DevicesKept
<1>10. CASE Tick
  BY <1>10, QuietKeeps DEF Tick, ChallengesKept, DevicesKept
<1>11. ASSUME NEW q \in Requests, Login(q) PROVE Kept'
  BY <1>11, LoginConsumeStep, LoginFindStep, LoginUserStep, LoginUpdateStep, LoginRecordStep,
     LoginFinishStep DEF Login
<1>12. ASSUME NEW q \in Requests, Register(q) PROVE Kept'
  BY <1>12, RegisterConsumeStep, RegisterStoreStep DEF Register
<1> QED BY <1>2, <1>3, <1>4, <1>5, <1>6, <1>7, <1>8, <1>9, <1>10, <1>11, <1>12, MakeKeyStep, SignStep
        DEF Next

\* The inductive invariant holds of every behaviour.
LEMMA Invariance == Spec => []IInv
BY InitIInv, StepIInv, PTL DEF Spec

\* A challenge signs in at most once: consumeWebAuthnChallenge deletes what it
\* returns, and the only request that has it finishes once.
THEOREM OneUse == Spec => []ChallengesAreOneUse
<1>1. IInv => ChallengesAreOneUse
  BY DEF IInv, OneTaker, ChallengesAreOneUse
<1> QED BY <1>1, Invariance, PTL

\* A finished sign-in is of the interaction its challenge was issued to, and of
\* the account its passkey was made for.
THEOREM Bound == Spec => []SignInsAreBound
<1>1. IInv => SignInsAreBound
  BY DEF IInv, SignInsHold, SignInHolds, SignInsAreBound
<1> QED BY <1>1, Invariance, PTL

\* updateWebAuthnCredentialCounter accepts a counter only above every one that
\* was accepted before it, or 0 from a key that never counts.
THEOREM Advancing == Spec => CountersAdvance
<1> DEFINE A == \A q \in Requests :
                  req[q].pc = "update" /\ req'[q].pc = "record" =>
                    \/ req[q].said.count > highest[req[q].said.key]
                    \/ req[q].said.count = 0 /\ highest[req[q].said.key] = 0
<1>1. ASSUME IInv, [Next]_vars, NEW q \in Requests, req[q].pc = "update", req'[q].pc = "record"
      PROVE  LoginUpdate(q) /\ ~Done(q)
  <2>1. Types /\ req'[q] # req[q] /\ req'[q] # Idle
    BY <1>1 DEF IInv, Idle
  <2>2. ~Done(q)
    BY <2>1 DEF Done, Types
  <2>3. ASSUME NEW p \in Requests, Login(p) \/ Register(p) \/ RequestFails(p) PROVE p = q
    <3>1. \A o \in Requests : o # p => req'[o] = req[o]
      <4>1. CASE \E i \in Interactions, c \in Challenges, a \in made : LoginConsume(p, i, c, a)
        BY <2>1, <4>1 DEF LoginConsume, Types
      <4>2. CASE LoginFind(p)
        BY <2>1, <4>2 DEF LoginFind, Done, Types
      <4>3. CASE LoginUser(p) \/ LoginUpdate(p) \/ LoginRecord(p) \/ LoginFinish(p)
        BY <2>1, <4>3 DEF LoginUser, LoginUpdate, LoginRecord, LoginFinish, Done, Types
      <4>4. CASE Register(p) \/ RequestFails(p)
        BY <2>1, <4>4 DEF Register, RegisterConsume, RegisterStore, RequestFails, Done, Types
      <4> QED BY <2>3, <4>1, <4>2, <4>3, <4>4 DEF Login
    <3> QED BY <2>1, <3>1
  <2>4. Login(q) \/ Register(q) \/ RequestFails(q)
    <3>1. CASE \E p \in Requests : Login(p) \/ Register(p) \/ RequestFails(p)
      BY <2>3, <3>1
    <3>2. CASE UNCHANGED vars
      BY <2>1, <3>2 DEF vars
    <3>3. CASE UNCHANGED req
      BY <2>1, <3>3
    <3> QED BY <1>1, <3>1, <3>2, <3>3 DEF Next, LoginOptions, RegistrationOptions, MakeKey, Sign,
               Cleanup, RemoveKey, Lock, ChangeAccount, Tick
  <2>5. ~RequestFails(q)
    BY <2>2 DEF RequestFails
  <2> QED BY <1>1, <2>2, <2>4, <2>5 DEF Login, Register, LoginConsume, LoginFind, LoginUser, LoginRecord,
             LoginFinish, RegisterConsume, RegisterStore
<1>2. IInv /\ [Next]_vars => [A]_vars
  <2>1. ASSUME IInv, [Next]_vars, NEW q \in Requests, req[q].pc = "update", req'[q].pc = "record"
        PROVE  \/ req[q].said.count > highest[req[q].said.key]
               \/ req[q].said.count = 0 /\ highest[req[q].said.key] = 0
    BY <1>1, <2>1, Accepted DEF Advances
  <2> QED BY <2>1
<1>3. Spec => [][A]_vars
  BY <1>2, Invariance, PTL DEF Spec
<1> QED BY <1>3 DEF CountersAdvance
============================================================================
