---------------------------- MODULE AuditWriter ----------------------------
(***************************************************************************)
(* The bounded writer of protocol audit events                             *)
(* (src/src/observability/audit-writer.js), fed by the providers of every  *)
(* realm and closed by the shutdown of the application (src/src/app.js).   *)
(*                                                                         *)
(* A step is one synchronous run of the event loop: a call of enqueue,     *)
(* flush or close, or one callback of the promise chain #execute builds    *)
(* (call write, catch, finally).  Callbacks of different writes, and calls,*)
(* interleave between steps.                                               *)
(***************************************************************************)
EXTENDS Integers, Sequences, FiniteSets, Functions

CONSTANTS Events,        \* events the providers emit, each once
          SampleKeys,    \* sampling keys of error events
          KeyOf,         \* KeyOf[e]: the event's sampling key, Undefined if unsampled
          Flushers,      \* callers of flush()
          Capacity,      \* maxQueue
          Concurrency,   \* concurrency
          MaxSampleKeys, \* maxSampleKeys
          Window,        \* sampleWindowMs
          MaxTime,       \* bound on the clock
          Undefined      \* undefined

ASSUME WriterAssumption ==
  /\ Capacity \in Nat /\ Concurrency \in Nat \ {0} /\ MaxSampleKeys \in Nat \ {0}
  /\ Window \in Nat \ {0} /\ MaxTime \in Nat
  /\ KeyOf \in [Events -> SampleKeys \cup {Undefined}]
  /\ Undefined \notin Events /\ Undefined \notin SampleKeys

VARIABLES items, head, tail, length, \* FixedQueue
          active,    \* worker slots in use
          accepting, \* #accepting
          samples,   \* #samples: key -> expiry
          jobs,      \* writes whose microtask is scheduled, in order
          stage,     \* stage[e]: where event e is
          failures,  \* counts.writeFailures
          pending,   \* #flushPromise is set
          flusher,   \* flusher[w]: the events flush() promised w, or out / done
          closer,    \* the await of close() in the application's shutdown
          auditPool, \* the database pool behind write
          now,
          accepted, started, \* events in the order accepted, in the order written (history)
          promised   \* promised[k]: end of the window of the last accepted event (history)

queueVars == <<items, head, tail, length>>
writerHistory == <<accepted, started, promised>>
writerVars == <<queueVars, active, accepting, samples, jobs, stage, failures, pending, flusher,
          closer, auditPool, now, writerHistory>>

WriterInit ==
  /\ items = [i \in 0..(Capacity - 1) |-> Undefined] /\ head = 0 /\ tail = 0 /\ length = 0
  /\ active = 0 /\ accepting = TRUE
  /\ samples = << >>
  /\ jobs = << >>
  /\ stage = [e \in Events |-> "new"]
  /\ failures = 0 /\ pending = FALSE
  /\ flusher = [w \in Flushers |-> [at |-> "out", owed |-> {}]]
  /\ closer = "open" /\ auditPool = "open"
  /\ now = 0
  /\ accepted = << >> /\ started = << >>
  /\ promised = [k \in SampleKeys |-> 0]

----------------------------------------------------------------------------
(* FixedQueue                                                              *)

Push(e) ==
  /\ items' = [items EXCEPT ![tail] = e]
  /\ tail' = (tail + 1) % Capacity
  /\ length' = length + 1
  /\ UNCHANGED head

\* Position i of the queue, counted from 1.
Slot(i) == (head + i - 1) % Capacity
Queued == [i \in 1..length |-> items[Slot(i)]]

\* Mutant: the ring's head does not advance.
ShiftInPlace(n) ==
  /\ items' = [j \in DOMAIN items |-> IF \E i \in 1..n : j = Slot(i) THEN Undefined ELSE items[j]]
  /\ length' = length - n
  /\ UNCHANGED <<head, tail>>

\* n calls of shift.
Shift(n) ==
  /\ items' = [j \in DOMAIN items |-> IF \E i \in 1..n : j = Slot(i) THEN Undefined ELSE items[j]]
  /\ head' = IF n = 0 THEN head ELSE (head + n) % Capacity
  /\ length' = length - n
  /\ UNCHANGED tail

----------------------------------------------------------------------------
(* enqueue                                                                 *)

\* #pruneSamples
Pruned == Restrict(samples, {k \in DOMAIN samples : samples[k] > now})

\* #rememberSample on the pruned map: a full map first loses a key of the
\* earliest expiry.
Remembered(m, k) ==
  LET Set(S) == [j \in S \cup {k} |-> IF j = k THEN now + Window ELSE m[j]]
      earliest == {j \in DOMAIN m : \A l \in DOMAIN m : m[j] <= m[l]}
  IN IF k \notin DOMAIN m /\ Cardinality(DOMAIN m) >= MaxSampleKeys
       THEN {Set(DOMAIN m \ {j}) : j \in earliest}
       ELSE {Set(DOMAIN m)}

Drop(e) == stage' = [stage EXCEPT ![e] = "dropped"]

\* A call after close().
EnqueueClosed(e) ==
  /\ stage[e] = "new" /\ ~accepting
  /\ Drop(e)
  /\ UNCHANGED <<queueVars, active, accepting, samples, jobs, failures, pending, flusher,
                 closer, auditPool, now, writerHistory>>

\* A repeat inside its key's window.
EnqueueSampled(e) ==
  /\ stage[e] = "new" /\ accepting
  /\ KeyOf[e] # Undefined /\ KeyOf[e] \in DOMAIN Pruned
  /\ samples' = Pruned
  /\ stage' = [stage EXCEPT ![e] = "sampled"]
  /\ UNCHANGED <<queueVars, active, accepting, jobs, failures, pending, flusher, closer,
                 auditPool, now, writerHistory>>

\* A free worker slot, else the queue, else the event is shed.
Place(e) ==
  \/ /\ active < Concurrency
     /\ active' = active + 1
     /\ jobs' = Append(jobs, e)
     /\ stage' = [stage EXCEPT ![e] = "running"]
     /\ UNCHANGED queueVars
  \/ /\ active >= Concurrency /\ length # Capacity
     /\ Push(e)
     /\ stage' = [stage EXCEPT ![e] = "queued"]
     /\ UNCHANGED <<active, jobs>>
  \/ /\ active >= Concurrency /\ length = Capacity
     /\ Drop(e)
     /\ UNCHANGED <<queueVars, active, jobs>>

\* Mutant: the window opens before the event is known to be accepted.
EnqueueEager(e) ==
  LET k == KeyOf[e]
      m == IF k = Undefined THEN samples ELSE Pruned
  IN
  /\ stage[e] = "new" /\ accepting
  /\ k # Undefined => k \notin DOMAIN m
  /\ Place(e)
  /\ IF k = Undefined THEN UNCHANGED samples ELSE samples' \in Remembered(m, k)
  /\ IF stage'[e] = "dropped"
       THEN UNCHANGED writerHistory
       ELSE /\ promised' = IF k = Undefined THEN promised ELSE [promised EXCEPT ![k] = now + Window]
            /\ accepted' = Append(accepted, e)
            /\ UNCHANGED started
  /\ UNCHANGED <<accepting, failures, pending, flusher, closer, auditPool, now>>

\* An event that is no repeat; only if it is accepted does it open a window.
EnqueueFresh(e) ==
  LET k == KeyOf[e]
      m == IF k = Undefined THEN samples ELSE Pruned
  IN
  /\ stage[e] = "new" /\ accepting
  /\ k # Undefined => k \notin DOMAIN m
  /\ Place(e)
  /\ IF stage'[e] = "dropped"
       THEN samples' = m /\ UNCHANGED writerHistory
       ELSE /\ IF k = Undefined THEN UNCHANGED <<samples, promised>>
               ELSE /\ samples' \in Remembered(m, k)
                    /\ promised' = [promised EXCEPT ![k] = now + Window]
            /\ accepted' = Append(accepted, e)
            /\ UNCHANGED started
  /\ UNCHANGED <<accepting, failures, pending, flusher, closer, auditPool, now>>

----------------------------------------------------------------------------
(* #execute and #drain                                                     *)

\* The scheduled microtask calls write.
StartWrite ==
  LET e == Head(jobs) IN
  /\ jobs # << >>
  /\ jobs' = Tail(jobs)
  /\ stage' = [stage EXCEPT ![e] = "writing"]
  /\ started' = Append(started, e)
  /\ UNCHANGED <<queueVars, active, accepting, samples, failures, pending, flusher, closer,
                 auditPool, now, accepted, promised>>

\* write settles, or throws; the catch callback counts a failure.
Settle(e) ==
  /\ stage[e] = "writing"
  /\ \E result \in {"settled", "rejected"} : stage' = [stage EXCEPT ![e] = result]
  /\ UNCHANGED <<queueVars, active, accepting, samples, jobs, failures, pending, flusher,
                 closer, auditPool, now, writerHistory>>

Catch(e) ==
  /\ stage[e] = "rejected"
  /\ stage' = [stage EXCEPT ![e] = "settled"]
  /\ failures' = failures + 1
  /\ UNCHANGED <<queueVars, active, accepting, samples, jobs, pending, flusher, closer, auditPool,
                 now, writerHistory>>

\* resolve() of the shared flush promise: its waiters go on.
Release ==
  /\ pending' = FALSE
  /\ flusher' = [w \in Flushers |-> IF flusher[w].at = "waiting"
                                      THEN [flusher[w] EXCEPT !.at = "done"] ELSE flusher[w]]
  /\ closer' = IF closer = "waiting" THEN "closed" ELSE closer

\* How many queued events #drain starts with one slot given back.
Startable ==
  LET free == Concurrency - (active - 1) IN IF length < free THEN length ELSE free

\* The finally callback gives the slot back and drains; an idle writer resolves
\* its flush promise.
Finish(e) ==
  LET out == SubSeq(Queued, 1, Startable) IN
  /\ stage[e] = "settled"
  /\ active' = active - 1 + Startable
  /\ Shift(Startable)
  /\ jobs' = jobs \o out
  /\ stage' = [f \in Events |-> IF f = e THEN "done"
                                ELSE IF f \in Range(out) THEN "running" ELSE stage[f]]
  /\ IF active' = 0 /\ length' = 0 /\ pending THEN Release ELSE UNCHANGED <<pending, flusher, closer>>
  /\ UNCHANGED <<accepting, samples, failures, auditPool, now, writerHistory>>

----------------------------------------------------------------------------
(* flush, close and the shutdown of the application                        *)

\* Mutant: an empty queue counts as idle.
IdleQueue == length = 0

Idle == active = 0 /\ length = 0
Unfinished == {e \in Events : stage[e] \in {"queued", "running", "writing", "rejected", "settled"}}

Flush(w) ==
  /\ flusher[w].at = "out"
  /\ flusher' = [flusher EXCEPT ![w] = [at |-> IF Idle THEN "done" ELSE "waiting",
                                        owed |-> Unfinished]]
  /\ pending' = (pending \/ ~Idle)
  /\ UNCHANGED <<queueVars, active, accepting, samples, jobs, stage, failures, closer, auditPool,
                 now, writerHistory>>

\* Mutant: close() waits for a promise nobody resolves.
CloseWithoutFlush ==
  /\ closer = "open"
  /\ accepting' = FALSE
  /\ closer' = IF Idle THEN "closed" ELSE "waiting"
  /\ UNCHANGED <<queueVars, active, samples, jobs, stage, failures, pending, flusher, auditPool, now,
                 writerHistory>>

\* close() of the application awaits close() of the writer.
CloseWriter ==
  /\ closer = "open"
  /\ accepting' = FALSE
  /\ closer' = IF Idle THEN "closed" ELSE "waiting"
  /\ pending' = (pending \/ ~Idle)
  /\ UNCHANGED <<queueVars, active, samples, jobs, stage, failures, flusher, auditPool, now,
                 writerHistory>>

\* ... and then ends the pool (data.close).
PoolEnd ==
  /\ closer = "closed" /\ auditPool = "open"
  /\ auditPool' = "ended"
  /\ UNCHANGED <<queueVars, active, accepting, samples, jobs, stage, failures, pending, flusher,
                 closer, now, writerHistory>>

Tick ==
  /\ now < MaxTime /\ now' = now + 1
  /\ UNCHANGED <<queueVars, active, accepting, samples, jobs, stage, failures, pending, flusher,
                 closer, auditPool, writerHistory>>

Enqueue(e) == EnqueueClosed(e) \/ EnqueueSampled(e) \/ EnqueueFresh(e)

WriterNext ==
  \/ \E e \in Events : Enqueue(e) \/ Settle(e) \/ Catch(e) \/ Finish(e)
  \/ StartWrite
  \/ \E w \in Flushers : Flush(w)
  \/ CloseWriter \/ PoolEnd \/ Tick

WriterSpec == WriterInit /\ [][WriterNext]_writerVars

\* Microtasks run, and a database write settles one way or the other.
Fairness ==
  /\ WF_writerVars(StartWrite)
  /\ \A e \in Events :
       WF_writerVars(Settle(e)) /\ WF_writerVars(Catch(e)) /\ WF_writerVars(Finish(e))

FairWriterSpec == WriterSpec /\ Fairness

----------------------------------------------------------------------------
(* Properties                                                              *)

Stages == {"new", "dropped", "sampled", "queued", "running", "writing", "rejected", "settled",
           "done"}

\* The variables have their types.
TypeOK ==
  /\ items \in [0..(Capacity - 1) -> Events \cup {Undefined}]
  /\ head \in Nat /\ tail \in Nat /\ length \in 0..Capacity
  /\ active \in 0..Concurrency /\ accepting \in BOOLEAN
  /\ DOMAIN samples \subseteq SampleKeys /\ \A k \in DOMAIN samples : samples[k] \in Nat
  /\ jobs \in Seq(Events) /\ accepted \in Seq(Events) /\ started \in Seq(Events)
  /\ stage \in [Events -> Stages]
  /\ failures \in Nat /\ pending \in BOOLEAN
  /\ flusher \in [Flushers -> [at : {"out", "waiting", "done"}, owed : SUBSET Events]]
  /\ closer \in {"open", "waiting", "closed"} /\ auditPool \in {"open", "ended"}
  /\ now \in Nat /\ promised \in [SampleKeys -> Nat]

\* Nothing accepted is lost, duplicated or overtaken: the accepted events, in
\* their order, are those written, those scheduled and those in the ring.
InOrder == accepted = started \o jobs \o Queued

\* flush() and close() resolve only when all that was accepted before the call has
\* been settled, and so the shutdown never ends the pool under a write.
SettledBeforeDone ==
  /\ \A w \in Flushers : flusher[w].at = "done" => \A e \in flusher[w].owed : stage[e] = "done"
  /\ auditPool = "ended" => Unfinished = {} /\ ~accepting

\* An event is suppressed as a repeat only within the window of an event of its
\* key that was accepted; one that was shed opens no window.
OnlyRepeatsAreSampled ==
  [][\A e \in Events : EnqueueSampled(e) => promised[KeyOf[e]] > now]_writerVars

\* close() resolves: once the writer stops accepting, what it holds drains.
CloseEnds == ~accepting ~> closer = "closed"
============================================================================
