------------------------- MODULE FederationProofs -------------------------
(***************************************************************************)
(* Proofs about Federation, for any number of interactions, flows,         *)
(* answers, handles and requests: a flow signs in once, where it started   *)
(* and for the subject the upstream provider named; and a completion       *)
(* handle is claimed only while its account is as it was at issue.         *)
(***************************************************************************)
EXTENDS Federation, TLAPS

Presented == {"token", "lookup", "remove", "response", "assertion", "consume"}
Served == {"resolve", "record", "issue"}

\* Where a request alone may go on with its flow: it has consumed the state.
Holding == {"token"} \cup Served

FlowTypes == flow \in [Flows -> FlowRow \cup {None}]
AnswerTypes == answer \in [Answers -> AnswerRow \cup {None}]
HandleTypes == handle \in [Handles -> HandleRow \cup {None}]
ReqRow ==
  [pc : {"idle"}]
  \cup [pc : Presented, flow : Flows, answer : Answers]
  \cup [pc : {"resolve"}, flow : Flows, sub : Subjects]
  \cup [pc : {"record", "issue"}, flow : Flows, sub : Subjects, user : Users]
  \cup [pc : {"claim", "finish"}, inter : Interactions, key : Handles, payload : HandleRow]
ReqTypes == req \in [Requests -> ReqRow]
OutcomeTypes ==
  outcome \in [Interactions ->
    [status : {"open", "closed"}]
    \cup [status : {"login"}, user : Users, sub : Subjects, flow : Flows]]
AccountTypes ==
  /\ standing \in [Users -> {"fresh", "enabled", "disabled", "deleted"}]
  /\ version \in [Users -> Nat]
ClockTypes == now \in Nat /\ signIns \in [Flows -> Nat]

Types ==
  /\ FlowTypes /\ AnswerTypes /\ HandleTypes /\ ReqTypes
  /\ OutcomeTypes /\ AccountTypes /\ ClockTypes

\* The upstream provider authenticated s for flow f.
Vouched(f, s) == \E r \in Answers : answer[r] # None /\ answer[r].flow = f /\ answer[r].sub = s

\* What a completion read of a handle and what is stored agree on.
SameHandle(p, h) ==
  /\ p.flow = h.flow /\ p.inter = h.inter /\ p.sub = h.sub
  /\ p.user = h.user /\ p.version = h.version

\* What a request holds is backed by what is stored.
Backed(q) ==
  /\ req[q].pc \in Presented =>
       /\ flow[req[q].flow] # None /\ answer[req[q].answer] # None
       /\ req[q].pc # "token" => answer[req[q].answer].flow = req[q].flow
  /\ req[q].pc \in Holding => flow[req[q].flow] # None /\ flow[req[q].flow].used
  /\ req[q].pc \in Served => Vouched(req[q].flow, req[q].sub)
  /\ req[q].pc \in {"claim", "finish"} =>
       handle[req[q].key] # None /\ SameHandle(req[q].payload, handle[req[q].key])
  /\ req[q].pc = "finish" =>
       handle[req[q].key].used /\ req[q].payload.inter = req[q].inter

RequestsHold == \A q \in Requests : Backed(q)

\* A handle is of a consumed flow, of its interaction and a subject it vouches for.
HandlesHold ==
  \A h \in Handles : handle[h] # None =>
    /\ flow[handle[h].flow] # None /\ flow[handle[h].flow].used
    /\ handle[h].inter = flow[handle[h].flow].inter
    /\ Vouched(handle[h].flow, handle[h].sub)

\* A flow is in one hand: a request, then a handle, then the request that claimed it.
OneHolder ==
  \A q, o \in Requests :
    req[q].pc \in Holding /\ req[o].pc \in Holding /\ req[q].flow = req[o].flow => q = o
HeldOrHandled ==
  \A q \in Requests, h \in Handles :
    req[q].pc \in Holding /\ handle[h] # None => handle[h].flow # req[q].flow
OneHandle ==
  \A h, g \in Handles :
    handle[h] # None /\ handle[g] # None /\ handle[h].flow = handle[g].flow => h = g
OneClaimer ==
  \A q, o \in Requests :
    req[q].pc = "finish" /\ req[o].pc = "finish" /\ req[q].key = req[o].key => q = o
ClaimedOrSignedIn ==
  \A q \in Requests : req[q].pc = "finish" => signIns[req[q].payload.flow] = 0
SignedInOnce ==
  \A f \in Flows :
    /\ signIns[f] <= 1
    /\ signIns[f] > 0 => \E h \in Handles : handle[h] # None /\ handle[h].used /\ handle[h].flow = f

OneHand ==
  OneHolder /\ HeldOrHandled /\ OneHandle /\ OneClaimer /\ ClaimedOrSignedIn /\ SignedInOnce

\* A login result is of a flow of its interaction, and of its subject.
ResultsHold ==
  \A i \in Interactions : outcome[i].status = "login" =>
    /\ flow[outcome[i].flow] # None /\ flow[outcome[i].flow].inter = i
    /\ Vouched(outcome[i].flow, outcome[i].sub)

\* A handle that has not expired has its account as it was at issue.
CurrentHolds ==
  \A h \in Handles : handle[h] # None /\ handle[h].exp > now =>
    standing[handle[h].user] = "enabled" /\ version[handle[h].user] = handle[h].version

IInv == Types /\ RequestsHold /\ HandlesHold /\ OneHand /\ ResultsHold /\ CurrentHolds

----------------------------------------------------------------------------
(* What the steps do to the flows, the answers and the handles             *)

\* Stored states keep their interaction and are consumed for good.
FlowsGrow ==
  \A f \in Flows : flow[f] # None =>
    flow'[f] # None /\ flow'[f].inter = flow[f].inter /\ (flow[f].used => flow'[f].used)

AnswersGrow == \A r \in Answers : answer[r] # None => answer'[r] = answer[r]

\* Handles keep what they name, and are used up for good.
HandlesGrow ==
  \A h \in Handles : handle[h] # None =>
    handle'[h] # None /\ SameHandle(handle'[h], handle[h]) /\ (handle[h].used => handle'[h].used)

\* An assignment to a field of a stored row.
LEMMA FlowRows ==
  ASSUME NEW row \in FlowRow
  PROVE  /\ row # None
         /\ [row EXCEPT !.used = TRUE] \in FlowRow /\ [row EXCEPT !.used = TRUE].used
         /\ [row EXCEPT !.used = TRUE].inter = row.inter
         /\ [row EXCEPT !.asked = FALSE] \in FlowRow
         /\ [row EXCEPT !.asked = FALSE].inter = row.inter
         /\ [row EXCEPT !.asked = FALSE].used = row.used
BY NoneAssumption DEF FlowRow

LEMMA HandleRows ==
  ASSUME NEW row \in HandleRow
  PROVE  /\ row # None
         /\ [row EXCEPT !.used = TRUE] \in HandleRow /\ [row EXCEPT !.used = TRUE].used
         /\ SameHandle([row EXCEPT !.used = TRUE], row) /\ [row EXCEPT !.used = TRUE].exp = row.exp
         /\ [row EXCEPT !.exp = 0] \in HandleRow /\ [row EXCEPT !.exp = 0].used = row.used
         /\ SameHandle([row EXCEPT !.exp = 0], row) /\ [row EXCEPT !.exp = 0].exp = 0
BY NoneAssumption DEF HandleRow, SameHandle

\* The steps that leave a flow as it is, or consume it, or take its request id.
LEMMA FlowMarked ==
  ASSUME FlowTypes, NEW f \in Flows, flow[f] # None,
         flow' = [flow EXCEPT ![f].used = TRUE] \/ flow' = [flow EXCEPT ![f].asked = FALSE]
  PROVE  FlowTypes' /\ FlowsGrow /\ \A e \in Flows : flow'[e].used /\ ~flow[e].used => e = f
<1>1. flow[f] \in FlowRow /\ \A e \in Flows : flow[e] # None => flow[e] \in FlowRow
  BY DEF FlowTypes
<1>2. flow'[f] \in {[flow[f] EXCEPT !.used = TRUE], [flow[f] EXCEPT !.asked = FALSE]}
  BY DEF FlowTypes
<1>3. \A e \in Flows : e # f => flow'[e] = flow[e]
  BY DEF FlowTypes
<1>4. /\ flow'[f] \in FlowRow /\ flow'[f] # None /\ flow'[f].inter = flow[f].inter
      /\ flow[f].used => flow'[f].used
  <2>1. CASE flow'[f] = [flow[f] EXCEPT !.used = TRUE]
    BY <1>1, <2>1, FlowRows
  <2>2. CASE flow'[f] = [flow[f] EXCEPT !.asked = FALSE]
    BY <1>1, <2>2, FlowRows
  <2> QED BY <1>2, <2>1, <2>2
<1>5. flow' = [e \in Flows |-> flow'[e]]
  BY DEF FlowTypes
<1>6. FlowTypes'
  BY <1>3, <1>4, <1>5 DEF FlowTypes
<1>7. FlowsGrow
  BY <1>3, <1>4 DEF FlowsGrow
<1> QED BY <1>3, <1>6, <1>7

\* A new flow.
LEMMA FlowStarted ==
  ASSUME FlowTypes, ClockTypes, NEW f \in Flows, flow[f] = None, NEW i \in Interactions,
         NEW state \in {OidcState(i), SamlState(i)},
         flow' = [flow EXCEPT ![f] = state]
  PROVE  FlowTypes' /\ FlowsGrow /\ \A e \in Flows : flow[e] # None => flow'[e] = flow[e]
<1>1. now + RequestTtl \in Nat
  BY FederationAssumption DEF ClockTypes
<1>2. state \in FlowRow
  <2>1. OidcState(i) \in FlowRow
    BY <1>1 DEF FlowRow, OidcState
  <2>2. SamlState(i) \in FlowRow
    BY <1>1 DEF FlowRow, SamlState
  <2> QED BY <2>1, <2>2
<1>3. \A e \in Flows : flow[e] # None => flow'[e] = flow[e]
  BY DEF FlowTypes
<1>4. FlowTypes'
  BY <1>2 DEF FlowTypes
<1> QED BY <1>3, <1>4 DEF FlowsGrow

LEMMA HandleMarked ==
  ASSUME HandleTypes, NEW h \in Handles, handle[h] # None,
         handle' = [handle EXCEPT ![h].used = TRUE]
  PROVE  /\ HandleTypes' /\ HandlesGrow /\ handle'[h] # None /\ handle'[h].used
         /\ handle'[h].exp = handle[h].exp
         /\ \A g \in Handles : g # h => handle'[g] = handle[g]
<1>1. handle[h] \in HandleRow
  BY DEF HandleTypes
<1>2. handle'[h] = [handle[h] EXCEPT !.used = TRUE] /\ \A g \in Handles : g # h => handle'[g] = handle[g]
  BY DEF HandleTypes
<1>3. /\ handle'[h] \in HandleRow /\ handle'[h] # None /\ handle'[h].used
      /\ SameHandle(handle'[h], handle[h]) /\ handle'[h].exp = handle[h].exp
  BY <1>1, <1>2, HandleRows
<1>4. HandleTypes'
  BY <1>1, HandleRows DEF HandleTypes
<1>5. HandlesGrow
  <2> SUFFICES ASSUME NEW g \in Handles, handle[g] # None
               PROVE  /\ handle'[g] # None /\ SameHandle(handle'[g], handle[g])
                      /\ handle[g].used => handle'[g].used
    BY DEF HandlesGrow
  <2>1. CASE g = h
    BY <1>3, <2>1
  <2>2. CASE g # h
    BY <1>2, <2>2 DEF SameHandle
  <2> QED BY <2>1, <2>2
<1> QED BY <1>2, <1>3, <1>4, <1>5

\* The handles of one account have expired.
LEMMA HandlesDropped ==
  ASSUME HandleTypes, NEW u \in Users,
         handle' = [h \in Handles |->
           IF handle[h] # None /\ handle[h].user = u
             THEN [handle[h] EXCEPT !.exp = 0] ELSE handle[h]]
  PROVE  /\ HandleTypes' /\ HandlesGrow
         /\ \A h \in Handles : handle[h] = None => handle'[h] = None
         /\ \A h \in Handles : handle[h] # None =>
              (handle'[h] = handle[h] /\ handle[h].user # u) \/ handle'[h].exp = 0
<1>1. \A h \in Handles : handle[h] # None => handle[h] \in HandleRow
  BY DEF HandleTypes
<1>2. ASSUME NEW h \in Handles, handle[h] # None
      PROVE  /\ handle'[h] \in HandleRow /\ handle'[h] # None /\ SameHandle(handle'[h], handle[h])
             /\ handle[h].used => handle'[h].used
             /\ (handle'[h] = handle[h] /\ handle[h].user # u) \/ handle'[h].exp = 0
  <2>1. handle[h] \in HandleRow
    BY <1>1, <1>2
  <2>2. CASE handle[h].user = u
    <3>1. handle'[h] = [handle[h] EXCEPT !.exp = 0]
      BY <1>2, <2>2
    <3> QED BY <2>1, <3>1, HandleRows
  <2>3. CASE handle[h].user # u
    <3>1. handle'[h] = handle[h]
      BY <2>3
    <3> QED BY <2>1, <2>3, <3>1, HandleRows DEF SameHandle
  <2> QED BY <2>2, <2>3
<1>3. \A h \in Handles : handle[h] = None => handle'[h] = None
  OBVIOUS
<1>4. HandleTypes'
  <2>1. \A h \in Handles : handle'[h] \in HandleRow \cup {None}
    BY <1>2, <1>3
  <2> QED BY <2>1 DEF HandleTypes
<1> QED BY <1>2, <1>3, <1>4 DEF HandlesGrow

----------------------------------------------------------------------------
(* What a step keeps of the parts of the invariant                         *)

\* The fields a request has, by where it is.
LEMMA ReqFields ==
  ASSUME ReqTypes, NEW q \in Requests
  PROVE  /\ req[q].pc \in Presented => req[q].flow \in Flows /\ req[q].answer \in Answers
         /\ req[q].pc \in Served => req[q].flow \in Flows /\ req[q].sub \in Subjects
         /\ req[q].pc \in Holding => req[q].flow \in Flows
         /\ req[q].pc \in {"record", "issue"} => req[q].user \in Users
         /\ req[q].pc \in {"claim", "finish"} =>
              req[q].inter \in Interactions /\ req[q].key \in Handles /\ req[q].payload \in HandleRow
BY DEF ReqTypes, ReqRow, Presented, Served, Holding

LEMMA VouchedStays ==
  ASSUME AnswersGrow, NEW f, NEW s, Vouched(f, s)
  PROVE  Vouched(f, s)'
<1>1. PICK r \in Answers : answer[r] # None /\ answer[r].flow = f /\ answer[r].sub = s
  BY DEF Vouched
<1>2. answer'[r] = answer[r]
  BY <1>1 DEF AnswersGrow
<1> QED BY <1>1, <1>2 DEF Vouched

\* A request that does not move stays backed.
LEMMA BackedStays ==
  ASSUME ReqTypes, FlowsGrow, AnswersGrow, HandlesGrow,
         NEW q \in Requests, Backed(q), req'[q] = req[q]
  PROVE  Backed(q)'
<1>1. req[q].pc \in Presented =>
        /\ flow'[req[q].flow] # None /\ answer'[req[q].answer] # None
        /\ req[q].pc # "token" => answer'[req[q].answer].flow = req[q].flow
  <2> SUFFICES ASSUME req[q].pc \in Presented
               PROVE  /\ flow'[req[q].flow] # None /\ answer'[req[q].answer] # None
                      /\ req[q].pc # "token" => answer'[req[q].answer].flow = req[q].flow
    OBVIOUS
  <2>1. req[q].flow \in Flows /\ req[q].answer \in Answers
    BY ReqFields
  <2> QED BY <2>1 DEF Backed, FlowsGrow, AnswersGrow
<1>2. req[q].pc \in Holding => flow'[req[q].flow] # None /\ flow'[req[q].flow].used
  BY ReqFields DEF Backed, FlowsGrow
<1>3. req[q].pc \in Served => Vouched(req[q].flow, req[q].sub)'
  <2>1. req[q].pc \in Served => \E r \in Answers :
          answer'[r] # None /\ answer'[r].flow = req[q].flow /\ answer'[r].sub = req[q].sub
    BY DEF Backed, Vouched, AnswersGrow
  <2> QED BY <2>1 DEF Vouched
<1>4. req[q].pc \in {"claim", "finish"} =>
        handle'[req[q].key] # None /\ SameHandle(req[q].payload, handle'[req[q].key])
  BY ReqFields DEF Backed, HandlesGrow, SameHandle
<1>5. req[q].pc = "finish" => handle'[req[q].key].used /\ req[q].payload.inter = req[q].inter
  BY ReqFields DEF Backed, HandlesGrow
<1> QED BY <1>1, <1>2, <1>3, <1>4, <1>5 DEF Backed, Vouched, SameHandle

\* Steps that issue no handle.
LEMMA HandlesStay ==
  ASSUME HandleTypes, HandlesHold, FlowsGrow, AnswersGrow, HandlesGrow,
         \A h \in Handles : handle[h] = None => handle'[h] = None
  PROVE  HandlesHold'
<1> SUFFICES ASSUME NEW h \in Handles, handle'[h] # None
             PROVE  /\ flow'[handle'[h].flow] # None /\ flow'[handle'[h].flow].used
                    /\ handle'[h].inter = flow'[handle'[h].flow].inter
                    /\ \E r \in Answers : /\ answer'[r] # None /\ answer'[r].flow = handle'[h].flow
                                          /\ answer'[r].sub = handle'[h].sub
  BY DEF HandlesHold, Vouched
<1>1. handle[h] # None /\ SameHandle(handle'[h], handle[h])
  BY DEF HandlesGrow
<1>2. handle[h].flow \in Flows
  BY <1>1 DEF HandleTypes, HandleRow
<1>3. /\ flow[handle[h].flow] # None /\ flow[handle[h].flow].used
      /\ handle[h].inter = flow[handle[h].flow].inter
      /\ \E r \in Answers : answer[r] # None /\ answer[r].flow = handle[h].flow /\ answer[r].sub = handle[h].sub
  BY <1>1 DEF HandlesHold, Vouched
<1>4. \E r \in Answers : answer'[r] # None /\ answer'[r].flow = handle[h].flow /\ answer'[r].sub = handle[h].sub
  BY <1>3 DEF AnswersGrow
<1> QED BY <1>1, <1>2, <1>3, <1>4 DEF FlowsGrow, SameHandle

\* Steps that store no login result.
LEMMA ResultsStay ==
  ASSUME OutcomeTypes, ResultsHold, FlowsGrow, AnswersGrow,
         \A i \in Interactions : outcome'[i].status = "login" => outcome'[i] = outcome[i]
  PROVE  ResultsHold'
<1> SUFFICES ASSUME NEW i \in Interactions, outcome'[i].status = "login"
             PROVE  /\ flow'[outcome'[i].flow] # None /\ flow'[outcome'[i].flow].inter = i
                    /\ \E r \in Answers : /\ answer'[r] # None /\ answer'[r].flow = outcome'[i].flow
                                          /\ answer'[r].sub = outcome'[i].sub
  BY DEF ResultsHold, Vouched
<1>1. outcome'[i] = outcome[i] /\ outcome[i].flow \in Flows
  BY DEF OutcomeTypes
<1>2. /\ flow[outcome[i].flow] # None /\ flow[outcome[i].flow].inter = i
      /\ \E r \in Answers : answer[r] # None /\ answer[r].flow = outcome[i].flow /\ answer[r].sub = outcome[i].sub
  BY <1>1 DEF ResultsHold, Vouched
<1>3. \E r \in Answers : answer'[r] # None /\ answer'[r].flow = outcome[i].flow /\ answer'[r].sub = outcome[i].sub
  BY <1>2 DEF AnswersGrow
<1> QED BY <1>1, <1>2, <1>3 DEF FlowsGrow

\* Steps by which no request comes to hold a flow or to have claimed a handle.
NoNewHand ==
  \A q \in Requests :
    /\ req'[q].pc \in Holding => req[q].pc \in Holding /\ req'[q].flow = req[q].flow
    /\ req'[q].pc = "finish" =>
         req[q].pc = "finish" /\ req'[q].key = req[q].key /\ req'[q].payload = req[q].payload

LEMMA OneHandStays ==
  ASSUME OneHand, HandlesGrow, NoNewHand, signIns' = signIns,
         \A h \in Handles : handle[h] = None => handle'[h] = None
  PROVE  OneHand'
<1>1. \A h \in Handles : handle'[h] # None =>
        /\ handle[h] # None /\ handle'[h].flow = handle[h].flow
        /\ handle[h].used => handle'[h].used
  BY DEF HandlesGrow, SameHandle
<1>2. OneHolder'
  BY DEF OneHand, OneHolder, NoNewHand
<1>3. HeldOrHandled'
  BY <1>1 DEF OneHand, HeldOrHandled, NoNewHand
<1>4. OneHandle'
  BY <1>1 DEF OneHand, OneHandle
<1>5. OneClaimer'
  BY DEF OneHand, OneClaimer, NoNewHand
<1>6. ClaimedOrSignedIn'
  BY DEF OneHand, ClaimedOrSignedIn, NoNewHand
<1>7. SignedInOnce'
  <2> SUFFICES ASSUME NEW f \in Flows
               PROVE  /\ signIns'[f] <= 1
                      /\ signIns'[f] > 0 => \E h \in Handles :
                           handle'[h] # None /\ handle'[h].used /\ handle'[h].flow = f
    BY DEF SignedInOnce
  <2>1. /\ signIns[f] <= 1
        /\ signIns[f] > 0 => \E h \in Handles : handle[h] # None /\ handle[h].used /\ handle[h].flow = f
    BY DEF OneHand, SignedInOnce
  <2>2. \A h \in Handles : handle[h] # None /\ handle[h].used /\ handle[h].flow = f =>
          handle'[h] # None /\ handle'[h].used /\ handle'[h].flow = f
    BY DEF HandlesGrow, SameHandle
  <2> QED BY <2>1, <2>2
<1> QED BY <1>2, <1>3, <1>4, <1>5, <1>6, <1>7 DEF OneHand

\* Steps that change no enabled account and renew no handle.
LEMMA CurrentStays ==
  ASSUME HandleTypes, CurrentHolds, version' = version,
         \A u \in Users : standing[u] = "enabled" => standing'[u] = "enabled",
         \A h \in Handles : handle'[h] # None /\ handle'[h].exp > now' =>
           /\ handle[h] # None /\ handle[h].exp > now
           /\ handle'[h].user = handle[h].user /\ handle'[h].version = handle[h].version
  PROVE  CurrentHolds'
<1> SUFFICES ASSUME NEW h \in Handles, handle'[h] # None, handle'[h].exp > now'
             PROVE  /\ standing'[handle'[h].user] = "enabled"
                    /\ version'[handle'[h].user] = handle'[h].version
  BY DEF CurrentHolds
<1>1. /\ handle[h] # None /\ handle[h].exp > now
      /\ handle'[h].user = handle[h].user /\ handle'[h].version = handle[h].version
  OBVIOUS
<1>2. handle[h].user \in Users
  BY <1>1 DEF HandleTypes, HandleRow
<1> QED BY <1>1, <1>2 DEF CurrentHolds

\* Handles no step has touched, or only marked as used.
HandlesOld ==
  /\ HandlesGrow
  /\ \A h \in Handles : handle[h] = None => handle'[h] = None
  /\ \A h \in Handles : handle[h] # None => handle'[h].exp = handle[h].exp

LEMMA Untouched ==
  /\ flow' = flow => FlowsGrow /\ (FlowTypes => FlowTypes')
  /\ answer' = answer => AnswersGrow /\ (AnswerTypes => AnswerTypes')
  /\ handle' = handle => HandlesOld /\ (HandleTypes => HandleTypes')
  /\ outcome' = outcome /\ OutcomeTypes => OutcomeTypes'
  /\ standing' = standing /\ version' = version /\ AccountTypes => AccountTypes'
  /\ now' = now /\ signIns' = signIns /\ ClockTypes => ClockTypes'
  /\ req' = req /\ ReqTypes => ReqTypes'
BY DEF FlowsGrow, FlowTypes, AnswersGrow, AnswerTypes, HandlesOld, HandlesGrow, HandleTypes, SameHandle,
       OutcomeTypes, AccountTypes, ClockTypes, ReqTypes

\* A step of everyone but the requests: it issues no handle and ends no account.
LEMMA StoreMoves ==
  ASSUME IInv, FlowTypes', FlowsGrow, AnswerTypes', AnswersGrow, HandleTypes', HandlesOld,
         OutcomeTypes', AccountTypes', ClockTypes', req' = req, signIns' = signIns,
         version' = version, now' >= now,
         \A u \in Users : standing[u] = "enabled" => standing'[u] = "enabled",
         \A i \in Interactions : outcome'[i].status = "login" => outcome'[i] = outcome[i]
  PROVE  IInv'
<1>1. Types /\ Types'
  BY Untouched DEF IInv, Types
<1>2. RequestsHold'
  BY <1>1, BackedStays DEF IInv, RequestsHold, Types, HandlesOld
<1>3. HandlesHold'
  BY <1>1, HandlesStay DEF IInv, Types, HandlesOld
<1>4. OneHand'
  <2>1. NoNewHand
    BY DEF NoNewHand
  <2> QED BY <2>1, OneHandStays DEF IInv, HandlesOld
<1>5. ResultsHold'
  BY <1>1, ResultsStay DEF IInv, Types
<1>6. CurrentHolds'
  <2>1. ASSUME NEW h \in Handles, handle'[h] # None, handle'[h].exp > now'
        PROVE  /\ handle[h] # None /\ handle[h].exp > now
               /\ handle'[h].user = handle[h].user /\ handle'[h].version = handle[h].version
    <3>1. handle[h] # None /\ handle'[h].exp = handle[h].exp /\ SameHandle(handle'[h], handle[h])
      BY <2>1 DEF HandlesOld, HandlesGrow
    <3>2. handle[h].exp \in Nat /\ now \in Nat /\ now' \in Nat
      BY <1>1, <3>1 DEF Types, HandleTypes, HandleRow, ClockTypes
    <3> QED BY <2>1, <3>1, <3>2 DEF SameHandle
  <2> QED BY <1>1, <2>1, CurrentStays DEF IInv, Types
<1> QED BY <1>1, <1>2, <1>3, <1>4, <1>5, <1>6 DEF IInv

\* A step of a request that goes on with the flow it holds, consumes one that
\* nobody has consumed, or holds none.
LEMMA RequestMoves ==
  ASSUME IInv, NEW q \in Requests, NEW r \in ReqRow, req' = [req EXCEPT ![q] = r], Backed(q)',
         FlowTypes', FlowsGrow, HandleTypes', HandlesOld, AccountTypes',
         UNCHANGED <<answer, outcome, version, now, signIns>>,
         \A u \in Users : standing[u] = "enabled" => standing'[u] = "enabled",
         r.pc \in Holding =>
           \/ req[q].pc \in Holding /\ r.flow = req[q].flow
           \/ ~flow[r.flow].used,
         r.pc # "finish"
  PROVE  IInv'
<1>1. Types /\ Types'
  BY Untouched DEF IInv, Types, ReqTypes
<1>2. req'[q] = r /\ \A o \in Requests : o # q => req'[o] = req[o]
  BY <1>1 DEF Types, ReqTypes
<1>3. RequestsHold'
  <2>1. \A o \in Requests : o # q => Backed(o)'
    BY <1>1, <1>2, Untouched, BackedStays DEF IInv, RequestsHold, Types, HandlesOld
  <2> QED BY <2>1 DEF RequestsHold
<1>4. HandlesHold'
  BY <1>1, Untouched, HandlesStay DEF IInv, Types, HandlesOld
<1>5. ResultsHold'
  BY <1>1, Untouched, ResultsStay DEF IInv, Types
<1>6. CurrentHolds'
  <2>1. ASSUME NEW h \in Handles, handle'[h] # None, handle'[h].exp > now'
        PROVE  /\ handle[h] # None /\ handle[h].exp > now
               /\ handle'[h].user = handle[h].user /\ handle'[h].version = handle[h].version
    BY <2>1 DEF HandlesOld, HandlesGrow, SameHandle
  <2> QED BY <1>1, <2>1, CurrentStays DEF IInv, Types
<1>7. OneHand'
  <2>1. \A h \in Handles : handle'[h] # None => handle[h] # None /\ handle'[h].flow = handle[h].flow
    BY DEF HandlesOld, HandlesGrow, SameHandle
  <2>2. \A o \in Requests : req[o].pc \in Holding => flow[req[o].flow].used
    BY DEF IInv, RequestsHold, Backed
  <2>3. \A h \in Handles : handle[h] # None => flow[handle[h].flow].used
    BY DEF IInv, HandlesHold
  <2>4. ASSUME NEW o \in Requests, o # q, req[o].pc \in Holding, r.pc \in Holding
        PROVE  req[o].flow # r.flow
    BY <2>2, <2>4 DEF IInv, OneHand, OneHolder
  <2>5. ASSUME NEW h \in Handles, handle[h] # None, r.pc \in Holding
        PROVE  handle[h].flow # r.flow
    BY <2>3, <2>5 DEF IInv, OneHand, HeldOrHandled
  <2>6. OneHolder'
    BY <1>2, <2>4 DEF IInv, OneHand, OneHolder
  <2>7. HeldOrHandled'
    BY <1>2, <2>1, <2>5 DEF IInv, OneHand, HeldOrHandled
  <2>8. OneHandle'
    BY <2>1 DEF IInv, OneHand, OneHandle
  <2>9. \A o \in Requests : req'[o].pc = "finish" => req[o].pc = "finish" /\ req'[o] = req[o]
    BY <1>2
  <2>10. OneClaimer' /\ ClaimedOrSignedIn'
    BY <2>9 DEF IInv, OneHand, OneClaimer, ClaimedOrSignedIn
  <2>11. SignedInOnce'
    <3>1. \A h \in Handles : handle[h] # None /\ handle[h].used =>
            handle'[h] # None /\ handle'[h].used /\ handle'[h].flow = handle[h].flow
      BY DEF HandlesOld, HandlesGrow, SameHandle
    <3> QED BY <3>1 DEF IInv, OneHand, SignedInOnce
  <2> QED BY <2>6, <2>7, <2>8, <2>10, <2>11 DEF OneHand
<1> QED BY <1>1, <1>3, <1>4, <1>5, <1>6, <1>7 DEF IInv

----------------------------------------------------------------------------
(* The steps of everyone but the requests                                  *)

LEMMA InitiateKeeps ==
  ASSUME IInv, NEW i \in Interactions, NEW f \in Flows,
         Initiate(i, f, OidcState(i)) \/ Initiate(i, f, SamlState(i))
  PROVE  IInv'
<1>1. PICK state \in {OidcState(i), SamlState(i)} : Initiate(i, f, state)
  OBVIOUS
<1>2. /\ flow[f] = None /\ flow' = [flow EXCEPT ![f] = state]
      /\ answer' = answer /\ handle' = handle /\ req' = req /\ outcome' = outcome
      /\ standing' = standing /\ version' = version /\ now' = now /\ signIns' = signIns
  BY <1>1 DEF Initiate, linkVars
<1>3. FlowTypes' /\ FlowsGrow
  BY <1>2, FlowStarted DEF IInv, Types
<1>4. now' >= now
  BY <1>2 DEF IInv, Types, ClockTypes
<1> QED BY <1>2, <1>3, <1>4, Untouched, StoreMoves DEF IInv, Types

LEMMA AnswerKeeps ==
  ASSUME IInv, NEW a \in Answers, NEW f \in Flows, NEW s \in Subjects, Answer(a, f, s)
  PROVE  IInv'
<1>1. /\ answer[a] = None
      /\ answer' = [answer EXCEPT ![a] = [flow |-> f, sub |-> s, until |-> now + AnswerTtl]]
      /\ flow' = flow /\ handle' = handle /\ req' = req /\ outcome' = outcome
      /\ standing' = standing /\ version' = version /\ now' = now /\ signIns' = signIns
  BY DEF Answer, linkVars
<1>2. now + AnswerTtl \in Nat /\ now' >= now
  BY <1>1, FederationAssumption DEF IInv, Types, ClockTypes
<1>3. AnswerTypes' /\ AnswersGrow
  BY <1>1, <1>2 DEF IInv, Types, AnswerTypes, AnswersGrow, AnswerRow
<1> QED BY <1>1, <1>2, <1>3, Untouched, StoreMoves DEF IInv, Types

LEMMA ResumeKeeps ==
  ASSUME IInv, NEW i \in Interactions, Resume(i)
  PROVE  IInv'
<1>1. /\ outcome' = [outcome EXCEPT ![i] = [status |-> "closed"]]
      /\ flow' = flow /\ answer' = answer /\ handle' = handle /\ req' = req
      /\ standing' = standing /\ version' = version /\ now' = now /\ signIns' = signIns
  BY DEF Resume, linkVars
<1>2. OutcomeTypes'
  BY <1>1 DEF IInv, Types, OutcomeTypes
<1>3. \A j \in Interactions : outcome'[j].status = "login" => outcome'[j] = outcome[j]
  BY <1>1 DEF IInv, Types, OutcomeTypes
<1>4. now' >= now
  BY <1>1 DEF IInv, Types, ClockTypes
<1> QED BY <1>1, <1>2, <1>3, <1>4, Untouched, StoreMoves DEF IInv, Types

\* A handle marked as used is an old one.
LEMMA MarkedIsOld ==
  ASSUME HandleTypes, NEW h \in Handles, handle[h] # None,
         handle' = [handle EXCEPT ![h].used = TRUE]
  PROVE  HandleTypes' /\ HandlesOld
<1>1. /\ HandleTypes' /\ HandlesGrow /\ handle'[h].exp = handle[h].exp
      /\ \A g \in Handles : g # h => handle'[g] = handle[g]
  BY HandleMarked
<1> QED BY <1>1 DEF HandlesOld

LEMMA MisdirectedKeeps ==
  ASSUME IInv, Misdirected
  PROVE  IInv'
<1>1. /\ answer' = answer /\ req' = req /\ outcome' = outcome
      /\ standing' = standing /\ version' = version /\ now' = now /\ signIns' = signIns
  BY DEF Misdirected, linkVars
<1>2. now' >= now
  BY <1>1 DEF IInv, Types, ClockTypes
<1>3. CASE \E f \in Flows : Pending(f) /\ flow' = [flow EXCEPT ![f].used = TRUE] /\ handle' = handle
  <2>1. FlowTypes' /\ FlowsGrow
    BY <1>3, FlowMarked DEF IInv, Types, Pending
  <2> QED BY <1>1, <1>2, <1>3, <2>1, Untouched, StoreMoves DEF IInv, Types
<1>4. CASE \E h \in Handles : Visible(h) /\ handle' = [handle EXCEPT ![h].used = TRUE] /\ flow' = flow
  <2>1. HandleTypes' /\ HandlesOld
    BY <1>4, MarkedIsOld DEF IInv, Types, Visible
  <2> QED BY <1>1, <1>2, <1>4, <2>1, Untouched, StoreMoves DEF IInv, Types
<1> QED BY <1>3, <1>4 DEF Misdirected

\* Links, locks, claims and the clock.
LEMMA SurroundingsKeep ==
  ASSUME IInv,
         AdminLinks \/ CleanupClaims \/ Tick \/ (\E u \in Users : LockAccount(u)) \/ UNCHANGED vars
  PROVE  IInv'
<1>1. /\ flow' = flow /\ answer' = answer /\ handle' = handle /\ req' = req /\ outcome' = outcome
      /\ version' = version /\ signIns' = signIns
  BY DEF AdminLinks, CleanupClaims, Tick, LockAccount, vars, rest, linkVars
<1>2. now' \in Nat /\ now' >= now
  BY DEF AdminLinks, CleanupClaims, Tick, LockAccount, vars, rest, linkVars, IInv, Types, ClockTypes
<1>3. ClockTypes'
  BY <1>1, <1>2 DEF IInv, Types, ClockTypes
<1>4. /\ AccountTypes'
      /\ \A u \in Users : standing[u] = "enabled" => standing'[u] = "enabled"
  <2>1. standing' = standing \/ \E u \in Users : standing' = [standing EXCEPT ![u] = "enabled"]
    BY DEF AdminLinks, CleanupClaims, Tick, LockAccount, vars, rest, linkVars,
           LinkAccount, UnlinkAccount, CreateAccount
  <2> QED BY <1>1, <2>1 DEF IInv, Types, AccountTypes
<1> QED BY <1>1, <1>2, <1>3, <1>4, Untouched, StoreMoves DEF IInv, Types

\* mutateAccountSecurity and deleteAccount expire the handles of the account they
\* change, so the ones that are left are of accounts that did not change.
LEMMA SecureKeeps ==
  ASSUME IInv, NEW u \in Users, NEW to \in {"enabled", "disabled", "deleted"}, Secure(u, to)
  PROVE  IInv'
<1>1. /\ flow' = flow /\ answer' = answer /\ req' = req /\ outcome' = outcome
      /\ now' = now /\ signIns' = signIns
      /\ standing' = [standing EXCEPT ![u] = to] /\ version' = [version EXCEPT ![u] = @ + 1]
  BY DEF Secure, ChangeStanding
<1>2. /\ HandleTypes' /\ HandlesGrow
      /\ \A h \in Handles : handle[h] = None => handle'[h] = None
      /\ \A h \in Handles : handle[h] # None =>
           (handle'[h] = handle[h] /\ handle[h].user # u) \/ handle'[h].exp = 0
  BY HandlesDropped DEF Secure, IInv, Types
<1>3. /\ AccountTypes'
      /\ \A v \in Users : v # u => standing'[v] = standing[v] /\ version'[v] = version[v]
  BY <1>1 DEF IInv, Types, AccountTypes
<1>4. Types'
  BY <1>1, <1>2, <1>3, Untouched DEF IInv, Types
<1>5. RequestsHold'
  BY <1>1, <1>2, Untouched, BackedStays DEF IInv, Types, RequestsHold
<1>6. HandlesHold'
  BY <1>1, <1>2, Untouched, HandlesStay DEF IInv, Types
<1>7. OneHand'
  BY <1>1, <1>2, OneHandStays DEF IInv, NoNewHand
<1>8. ResultsHold'
  BY <1>1, Untouched, ResultsStay DEF IInv, Types
<1>9. CurrentHolds'
  <2> SUFFICES ASSUME NEW h \in Handles, handle'[h] # None, handle'[h].exp > now'
               PROVE  /\ standing'[handle'[h].user] = "enabled"
                      /\ version'[handle'[h].user] = handle'[h].version
    BY DEF CurrentHolds
  <2>1. now \in Nat
    BY DEF IInv, Types, ClockTypes
  <2>2. handle[h] # None /\ handle'[h] = handle[h] /\ handle[h].user # u
    BY <1>1, <1>2, <2>1
  <2>3. handle[h].user \in Users
    BY <2>2 DEF IInv, Types, HandleTypes, HandleRow
  <2>4. standing[handle[h].user] = "enabled" /\ version[handle[h].user] = handle[h].version
    BY <1>1, <2>2 DEF IInv, CurrentHolds
  <2> QED BY <1>3, <2>2, <2>3, <2>4
<1> QED BY <1>4, <1>5, <1>6, <1>7, <1>8, <1>9 DEF IInv

----------------------------------------------------------------------------
(* The steps of the requests                                               *)

Calm ==
  /\ answer' = answer /\ outcome' = outcome /\ version' = version /\ now' = now
  /\ signIns' = signIns

\* A request ends: it failed, or lost a race.
LEMMA DoneKeeps ==
  ASSUME IInv, NEW q \in Requests, Done(q), Calm, flow' = flow, HandleTypes', HandlesOld,
         standing' = standing
  PROVE  IInv'
<1>1. Idle \in ReqRow /\ Idle.pc = "idle"
  BY DEF Idle, ReqRow
<1>2. req' = [req EXCEPT ![q] = Idle] /\ req'[q] = Idle
  BY DEF Done, IInv, Types, ReqTypes
<1>3. Backed(q)'
  BY <1>1, <1>2 DEF Backed, Presented, Holding, Served
<1>4. Idle.pc \notin Holding /\ Idle.pc # "finish"
  BY <1>1 DEF Holding, Served
<1>5. FlowTypes' /\ FlowsGrow /\ AccountTypes'
  BY Untouched DEF Calm, IInv, Types
<1> QED BY <1>1, <1>2, <1>3, <1>4, <1>5, RequestMoves DEF Calm

LEMMA RequestFailsKeeps ==
  ASSUME IInv, NEW q \in Requests, RequestFails(q)
  PROVE  IInv'
<1>1. Calm /\ Done(q) /\ flow' = flow /\ handle' = handle /\ standing' = standing
  BY DEF RequestFails, Calm, linkVars
<1> QED BY <1>1, Untouched, DoneKeeps DEF IInv, Types

LEMMA OidcConsumeKeeps ==
  ASSUME IInv, NEW q \in Requests, NEW f \in Flows, NEW a \in Answers, OidcConsume(q, f, a)
  PROVE  IInv'
<1> DEFINE r == [pc |-> "token", flow |-> f, answer |-> a]
<1>1. /\ Calm /\ handle' = handle /\ standing' = standing /\ answer[a] # None
      /\ flow[f] # None /\ ~flow[f].used /\ flow' = [flow EXCEPT ![f].used = TRUE]
      /\ req' = [req EXCEPT ![q] = r]
  BY DEF OidcConsume, Calm, linkVars, Pending
<1>2. r \in ReqRow /\ r.pc = "token" /\ r.flow = f /\ r.answer = a
  BY DEF ReqRow, Presented
<1> HIDE DEF r
<1>3. FlowTypes' /\ FlowsGrow
  BY <1>1, FlowMarked DEF IInv, Types
<1>4. flow'[f] # None /\ flow'[f].used
  <2>1. flow[f] \in FlowRow /\ flow'[f] = [flow[f] EXCEPT !.used = TRUE]
    BY <1>1 DEF IInv, Types, FlowTypes
  <2> QED BY <2>1, FlowRows
<1>5. req'[q] = r
  BY <1>1 DEF IInv, Types, ReqTypes
<1>6. Backed(q)'
  BY <1>1, <1>2, <1>4, <1>5 DEF Calm, Backed, Served
<1> QED BY <1>1, <1>2, <1>3, <1>6, Untouched, RequestMoves DEF IInv, Types, Calm

\* What a broker hands over: the flow is consumed, and the answer vouches for the subject.
LEMMA AuthenticatedKeeps ==
  ASSUME IInv, NEW q \in Requests, NEW a \in Answers, req[q].pc \in Presented, req[q].answer = a,
         answer[a] # None, answer[a].flow = req[q].flow,
         req' = [req EXCEPT ![q] = Authenticated(q, answer[a].sub)],
         Calm, handle' = handle, standing' = standing, FlowTypes', FlowsGrow,
         flow'[req[q].flow] # None, flow'[req[q].flow].used,
         req[q].pc = "token" \/ ~flow[req[q].flow].used
  PROVE  IInv'
<1> DEFINE r == [pc |-> "resolve", flow |-> req[q].flow, sub |-> answer[a].sub]
<1>1. req[q].flow \in Flows /\ answer[a].sub \in Subjects
  BY ReqFields DEF IInv, Types, AnswerTypes, AnswerRow
<1>2. r \in ReqRow /\ r.pc = "resolve" /\ r.flow = req[q].flow /\ r.sub = answer[a].sub
  BY <1>1 DEF ReqRow
<1>3. req' = [req EXCEPT ![q] = r]
  BY DEF Authenticated
<1> HIDE DEF r
<1>4. req'[q] = r
  BY <1>3 DEF IInv, Types, ReqTypes
<1>5. Backed(q)'
  <2>1. \E x \in Answers : answer'[x] # None /\ answer'[x].flow = r.flow /\ answer'[x].sub = r.sub
    BY <1>2 DEF Calm
  <2> QED BY <1>2, <1>4, <2>1 DEF Backed, Vouched, Presented
<1>6. r.pc \in Holding =>
        (req[q].pc \in Holding /\ r.flow = req[q].flow) \/ ~flow[r.flow].used
  BY <1>2 DEF Holding
<1> QED BY <1>2, <1>3, <1>5, <1>6, Untouched, RequestMoves DEF IInv, Types, Calm

LEMMA OidcTokenKeeps ==
  ASSUME IInv, NEW q \in Requests, OidcToken(q)
  PROVE  IInv'
<1>1. Calm /\ flow' = flow /\ handle' = handle /\ standing' = standing /\ req[q].pc = "token"
  BY DEF OidcToken, Calm, linkVars
<1>2. CASE answer[req[q].answer].flow = req[q].flow
  <2>1. /\ flow[req[q].flow] # None /\ flow[req[q].flow].used /\ answer[req[q].answer] # None
        /\ req[q].answer \in Answers /\ req[q].pc \in Presented
    BY <1>1, ReqFields DEF IInv, Types, RequestsHold, Backed, Presented, Holding
  <2>2. req' = [req EXCEPT ![q] = Authenticated(q, answer[req[q].answer].sub)]
    BY <1>2 DEF OidcToken, OidcProfile
  <2>3. FlowTypes' /\ FlowsGrow /\ flow'[req[q].flow] # None /\ flow'[req[q].flow].used
    BY <1>1, <2>1, Untouched DEF IInv, Types
  <2> QED BY <1>1, <1>2, <2>1, <2>2, <2>3, AuthenticatedKeeps
<1>3. CASE answer[req[q].answer].flow # req[q].flow
  <2>1. Done(q)
    BY <1>3 DEF OidcToken
  <2> QED BY <1>1, <2>1, Untouched, DoneKeeps DEF IInv, Types
<1> QED BY <1>2, <1>3

LEMMA SamlConsumeKeeps ==
  ASSUME IInv, NEW q \in Requests, SamlConsume(q)
  PROVE  IInv'
<1>1. Calm /\ handle' = handle /\ standing' = standing /\ req[q].pc = "consume"
  BY DEF SamlConsume, Calm, linkVars
<1>2. CASE Pending(req[q].flow)
  <2>1. /\ flow[req[q].flow] # None /\ answer[req[q].answer] # None
        /\ answer[req[q].answer].flow = req[q].flow
        /\ req[q].answer \in Answers /\ req[q].flow \in Flows /\ req[q].pc \in Presented
    BY <1>1, ReqFields DEF IInv, Types, RequestsHold, Backed, Presented
  <2>2. /\ flow' = [flow EXCEPT ![req[q].flow].used = TRUE] /\ ~flow[req[q].flow].used
        /\ req' = [req EXCEPT ![q] = Authenticated(q, answer[req[q].answer].sub)]
    BY <1>2 DEF SamlConsume, SamlIdentity, Pending
  <2>3. FlowTypes' /\ FlowsGrow
    BY <2>1, <2>2, FlowMarked DEF IInv, Types
  <2>4. flow'[req[q].flow] # None /\ flow'[req[q].flow].used
    <3>1. flow[req[q].flow] \in FlowRow /\ flow'[req[q].flow] = [flow[req[q].flow] EXCEPT !.used = TRUE]
      BY <2>1, <2>2 DEF IInv, Types, FlowTypes
    <3> QED BY <3>1, FlowRows
  <2> QED BY <1>1, <2>1, <2>2, <2>3, <2>4, AuthenticatedKeeps
<1>3. CASE ~Pending(req[q].flow)
  <2>1. Done(q) /\ flow' = flow
    BY <1>3 DEF SamlConsume
  <2> QED BY <1>1, <2>1, Untouched, DoneKeeps DEF IInv, Types
<1> QED BY <1>2, <1>3

\* A SAML request on its way to the claim of its RelayState.
LEMMA PresentedMoves ==
  ASSUME IInv, NEW q \in Requests, NEW f \in Flows, NEW a \in Answers,
         NEW pc \in Presented, pc # "token",
         flow[f] # None, answer[a] # None, answer[a].flow = f,
         req' = [req EXCEPT ![q] = [pc |-> pc, flow |-> f, answer |-> a]],
         Calm, handle' = handle, standing' = standing, FlowTypes', FlowsGrow
  PROVE  IInv'
<1> DEFINE r == [pc |-> pc, flow |-> f, answer |-> a]
<1>1. r \in ReqRow /\ r.pc = pc /\ r.flow = f /\ r.answer = a
  BY DEF ReqRow
<1>2. req' = [req EXCEPT ![q] = r]
  OBVIOUS
<1> HIDE DEF r
<1>3. req'[q] = r
  BY <1>2 DEF IInv, Types, ReqTypes
<1>4. flow'[f] # None
  BY DEF FlowsGrow
<1>5. pc \notin Holding /\ pc \notin Served /\ pc \notin {"claim", "finish"}
  BY DEF Presented, Holding, Served
<1>6. Backed(q)'
  BY <1>1, <1>3, <1>4, <1>5 DEF Backed, Calm
<1> QED BY <1>1, <1>2, <1>5, <1>6, Untouched, RequestMoves DEF IInv, Types, Calm

LEMMA SamlPendingKeeps ==
  ASSUME IInv, NEW q \in Requests, NEW f \in Flows, NEW a \in Answers, SamlPending(q, f, a)
  PROVE  IInv'
<1>1. /\ Calm /\ flow' = flow /\ handle' = handle /\ standing' = standing
      /\ flow[f] # None /\ answer[a] # None /\ answer[a].flow = f
      /\ req' = [req EXCEPT ![q] = [pc |-> "lookup", flow |-> f, answer |-> a]]
  BY DEF SamlPending, Calm, linkVars, Pending, InResponseTo
<1>2. "lookup" \in Presented
  BY DEF Presented
<1> QED BY <1>1, <1>2, Untouched, PresentedMoves DEF IInv, Types

\* The next place of a SAML request: it keeps its flow and its answer.
LEMMA NextPlace ==
  ASSUME IInv, NEW q \in Requests, req[q].pc \in Presented, req[q].pc # "token",
         NEW pc, req' = [req EXCEPT ![q].pc = pc]
  PROVE  \E f \in Flows, a \in Answers :
           /\ flow[f] # None /\ answer[a] # None /\ answer[a].flow = f
           /\ req' = [req EXCEPT ![q] = [pc |-> pc, flow |-> f, answer |-> a]]
<1>1. /\ req[q].flow \in Flows /\ req[q].answer \in Answers
      /\ flow[req[q].flow] # None /\ answer[req[q].answer] # None
      /\ answer[req[q].answer].flow = req[q].flow
  BY ReqFields DEF IInv, Types, RequestsHold, Backed
<1>2. req[q] \in [pc : Presented, flow : Flows, answer : Answers]
  BY DEF IInv, Types, ReqTypes, ReqRow, Presented
<1>3. [req[q] EXCEPT !.pc = pc] = [pc |-> pc, flow |-> req[q].flow, answer |-> req[q].answer]
  BY <1>2
<1>4. req' = [req EXCEPT ![q] = [pc |-> pc, flow |-> req[q].flow, answer |-> req[q].answer]]
  BY <1>3
<1> QED BY <1>1, <1>4, Zenon

LEMMA PlaceMoves ==
  ASSUME IInv, NEW q \in Requests, NEW pc \in Presented, pc # "token",
         \E f \in Flows, a \in Answers :
           /\ flow[f] # None /\ answer[a] # None /\ answer[a].flow = f
           /\ req' = [req EXCEPT ![q] = [pc |-> pc, flow |-> f, answer |-> a]],
         Calm, handle' = handle, standing' = standing, FlowTypes', FlowsGrow
  PROVE  IInv'
<1>1. PICK f \in Flows, a \in Answers :
        /\ flow[f] # None /\ answer[a] # None /\ answer[a].flow = f
        /\ req' = [req EXCEPT ![q] = [pc |-> pc, flow |-> f, answer |-> a]]
  OBVIOUS
<1> QED BY <1>1, PresentedMoves

LEMMA SamlStepsKeep ==
  ASSUME IInv, NEW q \in Requests,
         \/ SamlLookup(q) \/ SamlRemove(q)
         \/ SamlClaim(q, "response", "assertion") \/ SamlClaim(q, "assertion", "consume")
  PROVE  IInv'
<1> DEFINE Moves(pc) ==
      \E f \in Flows, a \in Answers :
        /\ flow[f] # None /\ answer[a] # None /\ answer[a].flow = f
        /\ req' = [req EXCEPT ![q] = [pc |-> pc, flow |-> f, answer |-> a]]
<1>0. \A pc \in {"lookup", "remove", "response", "assertion", "consume"} : pc \in Presented /\ pc # "token"
  BY DEF Presented
<1>1. CASE SamlLookup(q)
  <2>1. /\ Calm /\ flow' = flow /\ handle' = handle /\ standing' = standing
        /\ req[q].pc = "lookup" /\ req' = [req EXCEPT ![q].pc = "remove"]
    BY <1>1 DEF SamlLookup, Calm, linkVars
  <2>2. Moves("remove")
    BY <1>0, <2>1, NextPlace
  <2>3. Calm /\ handle' = handle /\ standing' = standing /\ FlowTypes' /\ FlowsGrow
    BY <2>1, Untouched DEF IInv, Types
  <2> QED BY <1>0, <2>2, <2>3, PlaceMoves
<1>2. CASE SamlRemove(q)
  <2>1. /\ Calm /\ handle' = handle /\ standing' = standing
        /\ flow' = [flow EXCEPT ![req[q].flow].asked = FALSE]
        /\ req[q].pc = "remove" /\ req' = [req EXCEPT ![q].pc = "response"]
    BY <1>2 DEF SamlRemove, Calm, linkVars
  <2>2. Moves("response")
    BY <1>0, <2>1, NextPlace
  <2>3. req[q].flow \in Flows /\ flow[req[q].flow] # None
    BY <1>0, <2>1, ReqFields DEF IInv, Types, RequestsHold, Backed
  <2>4. Calm /\ handle' = handle /\ standing' = standing /\ FlowTypes' /\ FlowsGrow
    BY <2>1, <2>3, FlowMarked DEF IInv, Types
  <2> QED BY <1>0, <2>2, <2>4, PlaceMoves
<1>3. ASSUME NEW x \in {"response", "assertion"}, NEW next \in {"assertion", "consume"},
             SamlClaim(q, x, next)
      PROVE  IInv'
  <2>1. /\ Calm /\ flow' = flow /\ handle' = handle /\ standing' = standing /\ req[q].pc = x
        /\ req' = [req EXCEPT ![q].pc = next] \/ Done(q)
    BY <1>3 DEF SamlClaim, Calm, linkVars
  <2>2. Calm /\ handle' = handle /\ standing' = standing /\ FlowTypes' /\ FlowsGrow
    BY <2>1, Untouched DEF IInv, Types
  <2>3. CASE Done(q)
    BY <2>1, <2>3, Untouched, DoneKeeps DEF IInv, Types
  <2>4. CASE ~Done(q)
    <3>1. Moves(next)
      BY <1>0, <2>1, <2>4, NextPlace
    <3> QED BY <1>0, <2>2, <3>1, PlaceMoves
  <2> QED BY <2>3, <2>4
<1> QED BY <1>1, <1>2, <1>3

\* completeCallback keeps the flow and the subject it was given.
LEMMA ServedMoves ==
  ASSUME IInv, NEW q \in Requests, req[q].pc \in Served, NEW pc \in {"record", "issue"}, NEW u \in Users,
         req' = [req EXCEPT ![q] =
           [pc |-> pc, flow |-> req[q].flow, sub |-> req[q].sub, user |-> u]],
         Calm, flow' = flow, handle' = handle, AccountTypes',
         \A v \in Users : standing[v] = "enabled" => standing'[v] = "enabled"
  PROVE  IInv'
<1> DEFINE r == [pc |-> pc, flow |-> req[q].flow, sub |-> req[q].sub, user |-> u]
<1>1. /\ req[q].flow \in Flows /\ req[q].sub \in Subjects /\ req[q].pc \in Holding
      /\ flow[req[q].flow] # None /\ flow[req[q].flow].used
  BY ReqFields DEF IInv, Types, RequestsHold, Backed, Holding
<1>2. \E x \in Answers : answer[x] # None /\ answer[x].flow = req[q].flow /\ answer[x].sub = req[q].sub
  BY DEF IInv, RequestsHold, Backed, Vouched
<1>3. r \in ReqRow /\ r.pc = pc /\ r.flow = req[q].flow /\ r.sub = req[q].sub
  BY <1>1 DEF ReqRow
<1>4. req' = [req EXCEPT ![q] = r]
  OBVIOUS
<1> HIDE DEF r
<1>5. req'[q] = r
  BY <1>4 DEF IInv, Types, ReqTypes
<1>6. pc \notin Presented /\ pc \notin {"claim", "finish"}
  BY DEF Presented
<1>7. Backed(q)'
  BY <1>1, <1>2, <1>3, <1>5, <1>6 DEF Backed, Vouched, Calm
<1> QED BY <1>1, <1>3, <1>4, <1>6, <1>7, Untouched, RequestMoves DEF IInv, Types, Calm

LEMMA ResolveKeeps ==
  ASSUME IInv, NEW q \in Requests, NEW u \in Users, Resolve(q, u)
  PROVE  IInv'
<1>1. /\ Calm /\ flow' = flow /\ handle' = handle /\ req[q].pc \in Served
      /\ req' = [req EXCEPT ![q] =
           [pc |-> "record", flow |-> req[q].flow, sub |-> req[q].sub, user |-> u]]
  BY DEF Resolve, Calm, Served
<1>2. standing' = standing \/ standing' = [standing EXCEPT ![u] = "enabled"]
  BY DEF Resolve, CreateLinked, linkVars
<1>3. AccountTypes' /\ \A v \in Users : standing[v] = "enabled" => standing'[v] = "enabled"
  BY <1>1, <1>2 DEF IInv, Types, AccountTypes, Calm
<1> QED BY <1>1, <1>3, ServedMoves

LEMMA RecordKeeps ==
  ASSUME IInv, NEW q \in Requests, Record(q)
  PROVE  IInv'
<1>1. /\ Calm /\ flow' = flow /\ handle' = handle /\ standing' = standing
      /\ req[q].pc = "record" /\ req' = [req EXCEPT ![q].pc = "issue"]
  BY DEF Record, Calm, linkVars
<1>2. req[q] \in [pc : {"record", "issue"}, flow : Flows, sub : Subjects, user : Users]
  BY <1>1 DEF IInv, Types, ReqTypes, ReqRow, Presented
<1>3. [req[q] EXCEPT !.pc = "issue"] =
        [pc |-> "issue", flow |-> req[q].flow, sub |-> req[q].sub, user |-> req[q].user]
  BY <1>2
<1>4. req' = [req EXCEPT ![q] =
        [pc |-> "issue", flow |-> req[q].flow, sub |-> req[q].sub, user |-> req[q].user]]
  BY <1>1, <1>3
<1>5. req[q].user \in Users /\ req[q].pc \in Served
  BY <1>1, <1>2 DEF Served
<1> QED BY <1>1, <1>4, <1>5, Untouched, ServedMoves DEF IInv, Types, Calm

LEMMA CompleteFindKeeps ==
  ASSUME IInv, NEW q \in Requests, NEW i \in Interactions, NEW h \in Handles, CompleteFind(q, i, h)
  PROVE  IInv'
<1> DEFINE r == [pc |-> "claim", inter |-> i, key |-> h, payload |-> handle[h]]
<1>1. /\ Calm /\ flow' = flow /\ handle' = handle /\ standing' = standing /\ handle[h] # None
      /\ req' = [req EXCEPT ![q] = r]
  BY DEF CompleteFind, Calm, linkVars, Visible
<1>2. handle[h] \in HandleRow
  BY <1>1 DEF IInv, Types, HandleTypes
<1>3. r \in ReqRow /\ r.pc = "claim" /\ r.key = h /\ r.payload = handle[h]
  BY <1>2 DEF ReqRow
<1> HIDE DEF r
<1>4. req'[q] = r
  BY <1>1 DEF IInv, Types, ReqTypes
<1>5. Backed(q)'
  BY <1>1, <1>3, <1>4 DEF Backed, SameHandle, Presented, Holding, Served
<1>6. r.pc \notin Holding /\ r.pc # "finish"
  BY <1>3 DEF Holding, Served
<1> QED BY <1>1, <1>3, <1>5, <1>6, Untouched, RequestMoves DEF IInv, Types, Calm

\* The handle takes the flow over from the request that issues it.
LEMMA IssueKeeps ==
  ASSUME IInv, NEW q \in Requests, NEW h \in Handles, Issue(q, h)
  PROVE  IInv'
<1> DEFINE row == [flow |-> req[q].flow, inter |-> flow[req[q].flow].inter, sub |-> req[q].sub,
                   user |-> req[q].user, version |-> version[req[q].user],
                   exp |-> now + HandleTtl, used |-> FALSE]
<1>1. /\ Calm /\ flow' = flow /\ standing' = standing /\ Done(q)
      /\ req[q].pc = "issue" /\ handle[h] = None /\ standing[req[q].user] = "enabled"
      /\ handle' = [handle EXCEPT ![h] = row]
  BY DEF Issue, Calm, linkVars
<1>2. /\ req[q].pc \in Holding /\ req[q].pc \in Served
      /\ req[q].flow \in Flows /\ req[q].sub \in Subjects /\ req[q].user \in Users
      /\ flow[req[q].flow] # None /\ flow[req[q].flow].used
      /\ \E r \in Answers : answer[r] # None /\ answer[r].flow = req[q].flow /\ answer[r].sub = req[q].sub
  <2>1. req[q].pc \in Holding /\ req[q].pc \in Served
    BY <1>1 DEF Holding, Served
  <2>2. req[q].flow \in Flows /\ req[q].sub \in Subjects /\ req[q].user \in Users
    BY <1>1, <2>1, ReqFields DEF IInv, Types
  <2> QED BY <2>1, <2>2 DEF IInv, RequestsHold, Backed, Vouched
<1>3. row \in HandleRow
  <2>1. flow[req[q].flow].inter \in Interactions
    BY <1>2 DEF IInv, Types, FlowTypes, FlowRow
  <2>2. now + HandleTtl \in Nat /\ version[req[q].user] \in Nat
    BY <1>2, FederationAssumption DEF IInv, Types, ClockTypes, AccountTypes
  <2> QED BY <1>2, <2>1, <2>2 DEF HandleRow
<1>4. /\ row.flow = req[q].flow /\ row.inter = flow[req[q].flow].inter /\ row.sub = req[q].sub
      /\ row.user = req[q].user /\ row.version = version[req[q].user]
  OBVIOUS
<1> HIDE DEF row
<1>5. /\ handle'[h] = row /\ row # None
      /\ \A g \in Handles : g # h => handle'[g] = handle[g]
  BY <1>1, <1>3, HandleRows DEF IInv, Types, HandleTypes
<1>6. HandlesGrow
  BY <1>1, <1>5 DEF HandlesGrow, SameHandle
<1>7. req'[q] = Idle /\ req'[q].pc = "idle" /\ \A o \in Requests : o # q => req'[o] = req[o]
  BY <1>1 DEF Done, Idle, IInv, Types, ReqTypes
<1>8. Types'
  <2>1. HandleTypes'
    BY <1>1, <1>3 DEF IInv, Types, HandleTypes
  <2>2. ReqTypes'
    BY <1>1 DEF Done, Idle, IInv, Types, ReqTypes, ReqRow
  <2> QED BY <1>1, <2>1, <2>2, Untouched DEF IInv, Types, Calm
<1>9. RequestsHold'
  <2>1. Backed(q)'
    BY <1>7 DEF Backed, Presented, Holding, Served
  <2>2. \A o \in Requests : o # q => Backed(o)'
    BY <1>1, <1>6, <1>7, Untouched, BackedStays DEF IInv, Types, RequestsHold, Calm
  <2> QED BY <2>1, <2>2 DEF RequestsHold
<1>10. HandlesHold'
  <2> SUFFICES ASSUME NEW g \in Handles, handle'[g] # None
               PROVE  /\ flow'[handle'[g].flow] # None /\ flow'[handle'[g].flow].used
                      /\ handle'[g].inter = flow'[handle'[g].flow].inter
                      /\ \E r \in Answers : /\ answer'[r] # None /\ answer'[r].flow = handle'[g].flow
                                            /\ answer'[r].sub = handle'[g].sub
    BY DEF HandlesHold, Vouched
  <2>1. CASE g = h
    BY <1>1, <1>2, <1>4, <1>5, <2>1 DEF Calm
  <2>2. CASE g # h
    BY <1>1, <1>5, <2>2 DEF IInv, HandlesHold, Vouched, Calm
  <2> QED BY <2>1, <2>2
<1>11. OneHand'
  <2>1. \A o \in Requests : req'[o].pc \in Holding \cup {"finish"} => o # q /\ req'[o] = req[o]
    BY <1>7 DEF Holding, Served
  <2>2. OneHolder' /\ OneClaimer' /\ ClaimedOrSignedIn'
    BY <1>1, <2>1 DEF IInv, OneHand, OneHolder, OneClaimer, ClaimedOrSignedIn, Calm
  <2>3. HeldOrHandled'
    <3> SUFFICES ASSUME NEW o \in Requests, NEW g \in Handles,
                        req'[o].pc \in Holding, handle'[g] # None
                 PROVE  handle'[g].flow # req'[o].flow
      BY DEF HeldOrHandled
    <3>1. o # q /\ req'[o] = req[o]
      BY <2>1
    <3>2. CASE g = h
      BY <1>2, <1>4, <1>5, <3>1, <3>2 DEF IInv, OneHand, OneHolder
    <3>3. CASE g # h
      BY <1>5, <3>1, <3>3 DEF IInv, OneHand, HeldOrHandled
    <3> QED BY <3>2, <3>3
  <2>4. OneHandle'
    <3>1. \A g \in Handles : g # h /\ handle[g] # None => handle[g].flow # row.flow
      BY <1>2, <1>4 DEF IInv, OneHand, HeldOrHandled
    <3> QED BY <1>5, <3>1 DEF IInv, OneHand, OneHandle
  <2>5. SignedInOnce'
    <3>1. \A g \in Handles : handle[g] # None => handle'[g] = handle[g]
      BY <1>1, <1>5
    <3> QED BY <1>1, <3>1 DEF IInv, OneHand, SignedInOnce, Calm
  <2> QED BY <2>2, <2>3, <2>4, <2>5 DEF OneHand
<1>12. ResultsHold'
  BY <1>1, Untouched, ResultsStay DEF IInv, Types, Calm
<1>13. CurrentHolds'
  <2> SUFFICES ASSUME NEW g \in Handles, handle'[g] # None, handle'[g].exp > now'
               PROVE  /\ standing'[handle'[g].user] = "enabled"
                      /\ version'[handle'[g].user] = handle'[g].version
    BY DEF CurrentHolds
  <2>1. CASE g = h
    BY <1>1, <1>4, <1>5, <2>1 DEF Calm
  <2>2. CASE g # h
    BY <1>1, <1>5, <2>2 DEF IInv, CurrentHolds, Calm
  <2> QED BY <2>1, <2>2
<1> QED BY <1>8, <1>9, <1>10, <1>11, <1>12, <1>13 DEF IInv

\* The claim of a handle: whoever finds it unused is the only one to go on.
LEMMA CompleteConsumeKeeps ==
  ASSUME IInv, NEW q \in Requests, CompleteConsume(q)
  PROVE  IInv'
<1> DEFINE h == req[q].key
<1>1. Calm /\ flow' = flow /\ standing' = standing /\ req[q].pc = "claim"
  BY DEF CompleteConsume, Calm, linkVars
<1>2. /\ h \in Handles /\ handle[h] # None /\ req[q].payload \in HandleRow
      /\ SameHandle(req[q].payload, handle[h])
      /\ req[q] \in [pc : {"claim", "finish"}, inter : Interactions, key : Handles, payload : HandleRow]
  <2>1. h \in Handles /\ req[q].payload \in HandleRow
    BY <1>1, ReqFields DEF IInv, Types
  <2>2. handle[h] # None /\ SameHandle(req[q].payload, handle[h])
    BY <1>1 DEF IInv, RequestsHold, Backed
  <2>3. req[q] \in [pc : {"claim", "finish"}, inter : Interactions, key : Handles, payload : HandleRow]
    BY <1>1 DEF IInv, Types, ReqTypes, ReqRow, Presented
  <2> QED BY <2>1, <2>2, <2>3
<1>3. CASE Done(q)
  <2>1. handle' = handle \/ handle' = [handle EXCEPT ![h].used = TRUE]
    BY <1>1 DEF CompleteConsume
  <2>2. HandleTypes' /\ HandlesOld
    BY <1>2, <2>1, MarkedIsOld, Untouched DEF IInv, Types
  <2> QED BY <1>1, <1>3, <2>2, DoneKeeps
<1>4. CASE ~Done(q)
  <2>1. /\ ~handle[h].used /\ handle' = [handle EXCEPT ![h].used = TRUE]
        /\ req[q].payload.inter = req[q].inter /\ req' = [req EXCEPT ![q].pc = "finish"]
    BY <1>4 DEF CompleteConsume
  <2> DEFINE r == [req[q] EXCEPT !.pc = "finish"]
  <2>2. /\ r \in [pc : {"claim", "finish"}, inter : Interactions, key : Handles, payload : HandleRow]
        /\ r.pc = "finish" /\ r.key = h /\ r.payload = req[q].payload /\ r.inter = req[q].inter
    BY <1>2
  <2>3. req' = [req EXCEPT ![q] = r]
    BY <2>1
  <2> HIDE DEF r, h
  <2>4. req'[q] = r /\ \A o \in Requests : o # q => req'[o] = req[o]
    BY <2>3 DEF IInv, Types, ReqTypes
  <2>5. HandleTypes' /\ HandlesOld /\ handle'[h].used
    BY <1>2, <2>1, MarkedIsOld, HandleMarked DEF IInv, Types
  <2>6. ReqTypes'
    BY <2>2, <2>3 DEF IInv, Types, ReqTypes, ReqRow
  <2>7. Types'
    BY <1>1, <2>5, <2>6, Untouched DEF IInv, Types, Calm
  <2>8. RequestsHold'
    <3>1. handle'[h] # None /\ SameHandle(r.payload, handle'[h])
      BY <1>2, <2>2, <2>5 DEF HandlesOld, HandlesGrow, SameHandle
    <3>2. Backed(q)'
      BY <2>1, <2>2, <2>4, <2>5, <3>1 DEF Backed, Presented, Holding, Served, SameHandle
    <3>3. \A o \in Requests : o # q => Backed(o)'
      BY <1>1, <2>4, <2>5, Untouched, BackedStays DEF IInv, Types, RequestsHold, Calm, HandlesOld
    <3> QED BY <3>2, <3>3 DEF RequestsHold
  <2>9. HandlesHold'
    BY <1>1, <2>5, Untouched, HandlesStay DEF IInv, Types, Calm, HandlesOld
  <2>10. ResultsHold'
    BY <1>1, Untouched, ResultsStay DEF IInv, Types, Calm
  <2>11. CurrentHolds'
    <3>1. ASSUME NEW g \in Handles, handle'[g] # None, handle'[g].exp > now'
          PROVE  /\ handle[g] # None /\ handle[g].exp > now
                 /\ handle'[g].user = handle[g].user /\ handle'[g].version = handle[g].version
      BY <1>1, <2>5, <3>1 DEF HandlesOld, HandlesGrow, SameHandle, Calm
    <3> QED BY <1>1, <3>1, CurrentStays DEF IInv, Types, Calm
  <2>12. OneHand'
    <3>1. \A g \in Handles : handle'[g] # None => handle[g] # None /\ handle'[g].flow = handle[g].flow
      BY <2>5 DEF HandlesOld, HandlesGrow, SameHandle
    <3>2. \A o \in Requests : req'[o].pc \in Holding => o # q /\ req'[o] = req[o]
      BY <2>2, <2>4 DEF Holding, Served
    <3>3. OneHolder' /\ HeldOrHandled' /\ OneHandle'
      BY <3>1, <3>2 DEF IInv, OneHand, OneHolder, HeldOrHandled, OneHandle
    <3>4. \A o \in Requests : req[o].pc = "finish" => req[o].key # h
      BY <2>1 DEF IInv, RequestsHold, Backed
    <3>5. OneClaimer'
      BY <2>2, <2>4, <3>4 DEF IInv, OneHand, OneClaimer
    <3>6. signIns[handle[h].flow] = 0
      <4>1. handle[h].flow \in Flows /\ signIns[handle[h].flow] \in Nat
        BY <1>2 DEF IInv, Types, HandleTypes, HandleRow, ClockTypes
      <4>2. ~(signIns[handle[h].flow] > 0)
        BY <1>2, <2>1, <4>1 DEF IInv, OneHand, SignedInOnce, OneHandle
      <4> QED BY <4>1, <4>2
    <3>7. ClaimedOrSignedIn'
      BY <1>1, <1>2, <2>2, <2>4, <3>6 DEF IInv, OneHand, ClaimedOrSignedIn, SameHandle, Calm
    <3>8. SignedInOnce'
      <4>1. \A g \in Handles : handle[g] # None /\ handle[g].used =>
              handle'[g] # None /\ handle'[g].used /\ handle'[g].flow = handle[g].flow
        BY <2>5 DEF HandlesOld, HandlesGrow, SameHandle
      <4> QED BY <1>1, <4>1 DEF IInv, OneHand, SignedInOnce, Calm
    <3> QED BY <3>3, <3>5, <3>7, <3>8 DEF OneHand
  <2> QED BY <2>7, <2>8, <2>9, <2>10, <2>11, <2>12 DEF IInv
<1> QED BY <1>3, <1>4

\* The login result.
LEMMA CompleteFinishKeeps ==
  ASSUME IInv, NEW q \in Requests, CompleteFinish(q)
  PROVE  IInv'
<1> DEFINE p == req[q].payload
           i == req[q].inter
           h == req[q].key
           result == [status |-> "login", user |-> p.user, sub |-> p.sub, flow |-> p.flow]
<1>1. /\ flow' = flow /\ answer' = answer /\ handle' = handle /\ standing' = standing
      /\ version' = version /\ now' = now /\ Done(q) /\ req[q].pc = "finish"
      /\ outcome' = [outcome EXCEPT ![i] = result]
      /\ signIns' = [signIns EXCEPT ![p.flow] = @ + 1]
  BY DEF CompleteFinish, linkVars
<1>2. i \in Interactions /\ h \in Handles /\ p \in HandleRow
  BY <1>1, ReqFields DEF IInv, Types
<1>3. /\ handle[h] # None /\ SameHandle(p, handle[h]) /\ handle[h].used /\ p.inter = i
  BY <1>1 DEF IInv, RequestsHold, Backed
<1>4. p.flow \in Flows /\ p.sub \in Subjects /\ p.user \in Users
  BY <1>2 DEF HandleRow
<1>5. /\ result \in [status : {"login"}, user : Users, sub : Subjects, flow : Flows]
      /\ result.status = "login" /\ result.flow = p.flow /\ result.sub = p.sub
  BY <1>4
<1> HIDE DEF result, p, i, h
<1>6. signIns[p.flow] = 0
  BY <1>1 DEF IInv, OneHand, ClaimedOrSignedIn, p
<1>7. signIns'[p.flow] = 1 /\ \A f \in Flows : f # p.flow => signIns'[f] = signIns[f]
  BY <1>1, <1>4, <1>6 DEF IInv, Types, ClockTypes
<1>8. outcome'[i] = result /\ \A j \in Interactions : j # i => outcome'[j] = outcome[j]
  BY <1>1, <1>2 DEF IInv, Types, OutcomeTypes
<1>9. req'[q].pc = "idle" /\ \A o \in Requests : o # q => req'[o] = req[o]
  BY <1>1 DEF Done, Idle, IInv, Types, ReqTypes
<1>10. Types'
  <2>1. ReqTypes'
    BY <1>1 DEF Done, Idle, IInv, Types, ReqTypes, ReqRow
  <2>2. OutcomeTypes'
    BY <1>1, <1>2, <1>5 DEF IInv, Types, OutcomeTypes
  <2>3. ClockTypes'
    BY <1>1, <1>4 DEF IInv, Types, ClockTypes
  <2> QED BY <1>1, <2>1, <2>2, <2>3, Untouched DEF IInv, Types
<1>11. RequestsHold'
  <2>1. Backed(q)'
    BY <1>9 DEF Backed, Presented, Holding, Served
  <2>2. \A o \in Requests : o # q => Backed(o)'
    BY <1>1, <1>9, Untouched, BackedStays DEF IInv, Types, RequestsHold, HandlesOld
  <2> QED BY <2>1, <2>2 DEF RequestsHold
<1>12. HandlesHold' /\ CurrentHolds'
  BY <1>1 DEF IInv, HandlesHold, CurrentHolds, Vouched
<1>13. ResultsHold'
  <2> SUFFICES ASSUME NEW j \in Interactions, outcome'[j].status = "login"
               PROVE  /\ flow[outcome'[j].flow] # None /\ flow[outcome'[j].flow].inter = j
                      /\ Vouched(outcome'[j].flow, outcome'[j].sub)
    BY <1>1 DEF ResultsHold, Vouched
  <2>1. CASE j = i
    BY <1>2, <1>3, <1>5, <1>8, <2>1 DEF IInv, HandlesHold, SameHandle
  <2>2. CASE j # i
    BY <1>8, <2>2 DEF IInv, ResultsHold
  <2> QED BY <2>1, <2>2
<1>14. OneHand'
  <2>1. \A o \in Requests : req'[o].pc \in Holding \cup {"finish"} => o # q /\ req'[o] = req[o]
    BY <1>9 DEF Holding, Served
  <2>2. OneHolder' /\ OneClaimer' /\ HeldOrHandled' /\ OneHandle'
    BY <1>1, <2>1 DEF IInv, OneHand, OneHolder, OneClaimer, HeldOrHandled, OneHandle
  <2>3. ClaimedOrSignedIn'
    <3> SUFFICES ASSUME NEW o \in Requests, req'[o].pc = "finish"
                 PROVE  signIns'[req'[o].payload.flow] = 0
      BY DEF ClaimedOrSignedIn
    <3>1. o # q /\ req'[o] = req[o] /\ req[o].pc = "finish"
      BY <2>1
    <3>2. req[o].key \in Handles /\ req[o].payload \in HandleRow
      BY <3>1, ReqFields DEF IInv, Types
    <3>3. handle[req[o].key] # None /\ SameHandle(req[o].payload, handle[req[o].key])
      BY <3>1 DEF IInv, RequestsHold, Backed
    <3>4. req[o].key # h
      BY <1>1, <3>1 DEF IInv, OneHand, OneClaimer, h
    <3>5. handle[req[o].key].flow # handle[h].flow
      BY <1>2, <1>3, <3>2, <3>3, <3>4 DEF IInv, OneHand, OneHandle
    <3>6. req[o].payload.flow # p.flow /\ req[o].payload.flow \in Flows
      BY <1>3, <3>2, <3>3, <3>5 DEF SameHandle, HandleRow
    <3>7. signIns[req[o].payload.flow] = 0
      BY <3>1 DEF IInv, OneHand, ClaimedOrSignedIn
    <3> QED BY <1>7, <3>1, <3>6, <3>7
  <2>4. SignedInOnce'
    <3>1. \A f \in Flows : f # p.flow =>
            /\ signIns'[f] <= 1
            /\ signIns'[f] > 0 => \E g \in Handles : handle'[g] # None /\ handle'[g].used /\ handle'[g].flow = f
      BY <1>1, <1>7 DEF IInv, OneHand, SignedInOnce
    <3>2. /\ signIns'[p.flow] <= 1
          /\ \E g \in Handles : handle'[g] # None /\ handle'[g].used /\ handle'[g].flow = p.flow
      BY <1>1, <1>2, <1>3, <1>7 DEF SameHandle
    <3> QED BY <3>1, <3>2 DEF SignedInOnce
  <2> QED BY <2>2, <2>3, <2>4 DEF OneHand
<1> QED BY <1>10, <1>11, <1>12, <1>13, <1>14 DEF IInv

----------------------------------------------------------------------------
(* The invariant and the theorems                                          *)

LEMMA Initially == Init => IInv
<1> SUFFICES ASSUME Init
             PROVE  IInv
  OBVIOUS
<1>1. /\ \A q \in Requests : req[q] = Idle /\ req[q].pc = "idle"
      /\ \A h \in Handles : handle[h] = None
      /\ \A i \in Interactions : outcome[i].status = "open"
      /\ \A f \in Flows : signIns[f] = 0
  BY DEF Init, Idle
<1>2. Types
  BY DEF Init, Types, FlowTypes, AnswerTypes, HandleTypes, ReqTypes, ReqRow, Idle, OutcomeTypes,
         AccountTypes, ClockTypes
<1>3. RequestsHold
  BY <1>1 DEF RequestsHold, Backed, Presented, Holding, Served
<1>4. HandlesHold /\ CurrentHolds /\ ResultsHold
  BY <1>1 DEF HandlesHold, CurrentHolds, ResultsHold
<1>5. OneHand
  BY <1>1 DEF OneHand, OneHolder, HeldOrHandled, OneHandle, OneClaimer, ClaimedOrSignedIn,
              SignedInOnce, Holding, Served
<1> QED BY <1>2, <1>3, <1>4, <1>5 DEF IInv

LEMMA Inductive == IInv /\ [Next]_vars => IInv'
<1> SUFFICES ASSUME IInv, [Next]_vars
             PROVE  IInv'
  OBVIOUS
<1>1. ASSUME NEW q \in Requests, Callback(q) PROVE IInv'
  BY <1>1, OidcConsumeKeeps, OidcTokenKeeps DEF Callback
<1>2. ASSUME NEW q \in Requests, AssertionConsumer(q) PROVE IInv'
  BY <1>2, SamlPendingKeeps, SamlStepsKeep, SamlConsumeKeeps DEF AssertionConsumer
<1>3. ASSUME NEW q \in Requests, CompleteCallback(q) PROVE IInv'
  BY <1>3, ResolveKeeps, RecordKeeps, IssueKeeps DEF CompleteCallback
<1>4. ASSUME NEW q \in Requests, Complete(q) PROVE IInv'
  BY <1>4, CompleteFindKeeps, CompleteConsumeKeeps, CompleteFinishKeeps DEF Complete
<1>5. ASSUME NEW q \in Requests, RequestFails(q) PROVE IInv'
  BY <1>5, RequestFailsKeeps
<1>6. CASE \E i \in Interactions, f \in Flows :
             Initiate(i, f, OidcState(i)) \/ Initiate(i, f, SamlState(i))
  BY <1>6, InitiateKeeps
<1>7. CASE \E r \in Answers, f \in Flows, s \in Subjects : Answer(r, f, s)
  BY <1>7, AnswerKeeps
<1>8. CASE \E i \in Interactions : Resume(i)
  BY <1>8, ResumeKeeps
<1>9. CASE Misdirected
  BY <1>9, MisdirectedKeeps
<1>10. CASE \E u \in Users, to \in {"enabled", "disabled", "deleted"} : Secure(u, to)
  BY <1>10, SecureKeeps
<1>11. CASE AdminLinks \/ CleanupClaims \/ Tick \/ (\E u \in Users : LockAccount(u)) \/ UNCHANGED vars
  BY <1>11, SurroundingsKeep
<1> QED BY <1>1, <1>2, <1>3, <1>4, <1>5, <1>6, <1>7, <1>8, <1>9, <1>10, <1>11 DEF Next

\* A flow signs in at most once, in the interaction that started it and for the
\* subject its upstream answer named, whatever callbacks and completions overlap: the
\* state is consumed once, one handle is issued for it, and the handle is claimed once
\* (consume in federation/state-store.js and adapters/postgres.js).
THEOREM SignInsAreBound == Spec => []SignInsBelong
<1>1. IInv => SignInsBelong
  <2> SUFFICES ASSUME IInv
               PROVE  SignInsBelong
    OBVIOUS
  <2>1. \A f \in Flows : signIns[f] <= 1
    BY DEF IInv, OneHand, SignedInOnce
  <2>2. \A i \in Interactions : outcome[i].status = "login" =>
          /\ flow[outcome[i].flow].inter = i
          /\ \E r \in Answers : answer[r] # None /\ answer[r].flow = outcome[i].flow
                                                 /\ answer[r].sub = outcome[i].sub
    BY DEF IInv, ResultsHold, Vouched
  <2> QED BY <2>1, <2>2 DEF SignInsBelong
<1> QED BY <1>1, Initially, Inductive, PTL DEF Spec

\* Only the claim of a handle that has not expired takes a completion to its end.
LEMMA ClaimIsLive ==
  ASSUME ReqTypes, Next, NEW q \in Requests, req[q].pc = "claim", req'[q].pc = "finish"
  PROVE  handle[req[q].key] # None /\ handle[req[q].key].exp > now
<1>1. req' # req
  OBVIOUS
<1>2. PICK o \in Requests :
        Callback(o) \/ AssertionConsumer(o) \/ CompleteCallback(o) \/ Complete(o) \/ RequestFails(o)
  BY <1>1 DEF Next, Initiate, Answer, Resume, Misdirected, AdminLinks, CleanupClaims, Tick, Secure,
              LockAccount, rest
<1>3. ASSUME Done(o)
      PROVE  FALSE
  <2>1. req' = [req EXCEPT ![o] = [pc |-> "idle"]]
    BY <1>3 DEF Done, Idle
  <2>2. req'[q] = req[q] \/ req'[q] = [pc |-> "idle"]
    BY <2>1 DEF ReqTypes
  <2> QED BY <2>2
<1>4. o = q
  <2> SUFFICES ASSUME o # q
               PROVE  req'[q] = req[q]
    OBVIOUS
  <2>1. CASE Callback(o)
    BY <2>1 DEF Callback, OidcConsume, OidcToken, Done, ReqTypes
  <2>2. CASE AssertionConsumer(o)
    BY <2>2 DEF AssertionConsumer, SamlPending, SamlLookup, SamlRemove, SamlClaim, SamlConsume,
                Done, ReqTypes
  <2>3. CASE CompleteCallback(o)
    BY <2>3 DEF CompleteCallback, Resolve, Record, Issue, Done, ReqTypes
  <2>4. CASE Complete(o)
    BY <2>4 DEF Complete, CompleteFind, CompleteConsume, CompleteFinish, Done, ReqTypes
  <2>5. CASE RequestFails(o)
    BY <2>5 DEF RequestFails, Done, ReqTypes
  <2> QED BY <1>2, <2>1, <2>2, <2>3, <2>4, <2>5
<1>5. CompleteConsume(q)
  <2>1. ~Callback(q) /\ ~AssertionConsumer(q) /\ ~CompleteCallback(q)
    BY DEF Callback, OidcConsume, OidcToken, AssertionConsumer, SamlPending, SamlLookup, SamlRemove,
           SamlClaim, SamlConsume, CompleteCallback, Resolve, Record, Issue
  <2>2. ~RequestFails(q)
    BY <1>3, <1>4 DEF RequestFails
  <2> QED BY <1>2, <1>4, <2>1, <2>2 DEF Complete, CompleteFind, CompleteFinish
<1> QED BY <1>3, <1>4, <1>5 DEF CompleteConsume

\* A handle is claimed only while its account is enabled and at the version it was
\* issued at: every security change drops the handles of its account in the same
\* transaction, so the claim needs no look at the account.
THEOREM ClaimsAreCurrent == Spec => ClaimedWhileCurrent
<1> DEFINE Claims ==
      \A q \in Requests :
        req[q].pc = "claim" /\ req'[q].pc = "finish" =>
          LET p == req[q].payload IN
          standing[p.user] = "enabled" /\ version[p.user] = p.version
<1>1. ASSUME IInv, [Next]_vars PROVE [Claims]_vars
  <2> SUFFICES ASSUME NEW q \in Requests, req[q].pc = "claim", req'[q].pc = "finish", Next
               PROVE  LET p == req[q].payload IN
                      standing[p.user] = "enabled" /\ version[p.user] = p.version
    BY <1>1
  <2>1. req[q].key \in Handles /\ req[q].payload \in HandleRow
    BY <1>1, ReqFields DEF IInv, Types
  <2>2. handle[req[q].key] # None /\ SameHandle(req[q].payload, handle[req[q].key])
    BY <1>1 DEF IInv, RequestsHold, Backed
  <2>3. handle[req[q].key].exp > now
    BY <1>1, ClaimIsLive DEF IInv, Types
  <2> QED BY <1>1, <2>1, <2>2, <2>3 DEF IInv, CurrentHolds, SameHandle
<1> QED BY <1>1, Initially, Inductive, PTL DEF Spec, ClaimedWhileCurrent
============================================================================
