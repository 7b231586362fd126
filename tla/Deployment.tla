----------------------------- MODULE Deployment -----------------------------
(***************************************************************************)
(* A deployment of several releases over one database: the migration jobs  *)
(* of src/scripts/migrate.mjs, and the life of an AuthMe process from its  *)
(* start (src/src/app.js, src/src/db.js, src/src/migrations.js) over its   *)
(* periodic cleanup to its shutdown (src/src/index.js).                    *)
(*                                                                         *)
(* Jobs and processes interleave at every statement; either may die at any *)
(* point, and a process is started again.                                  *)
(***************************************************************************)
EXTENDS Naturals, Sequences, FiniteSets

CONSTANTS Releases,
          Manifest,    \* Manifest[r]: the migrations of r in order: [name, sum] records
          Jobs, Processes,
          MaxRequests, \* bound on the requests a process serves at once
          BatchSize,   \* rows a cleanup statement deletes at most (5000)
          MaxBatches,  \* statements of one kind in one cleanup (20)
          MaxExpired,  \* bound on the rows that expire
          None

Kinds == {"records", "audit"}  \* expired artifacts, then old audit events
Slots == {1, 2}                \* room for two cleanups of a process

Entries(r) == {Manifest[r][n] : n \in 1..Len(Manifest[r])}

ASSUME DeploymentAssumption ==
  /\ Releases # {} /\ None \notin Jobs
  /\ \A r \in Releases : Len(Manifest[r]) \in Nat /\ DOMAIN Manifest[r] = 1..Len(Manifest[r])
  /\ \A r \in Releases : \A m, n \in DOMAIN Manifest[r] :
       Manifest[r][m].name = Manifest[r][n].name => m = n
  /\ BatchSize \in Nat \ {0} /\ MaxBatches \in Nat \ {0}
  /\ MaxRequests \in Nat /\ MaxExpired \in Nat

\* A release adds its migrations behind the numbered ones it found: two releases
\* that share one share everything before it.  The jobs do not check this.
ASSUME AppendAssumption ==
  \A q, r \in Releases : \A m \in DOMAIN Manifest[q], n \in DOMAIN Manifest[r] :
    Manifest[q][m] = Manifest[r][n] =>
      m = n /\ \A k \in 1..m : Manifest[q][k] = Manifest[r][k]

VARIABLES history,  \* the rows of schema_migrations
          lock,     \* the job that holds the advisory lock
          job,      \* job[j]: a migration job and where it is
          proc,     \* proc[p]: where a process is, and its release
          pool,     \* processes whose connection pool is open
          inflight, \* inflight[p]: requests it is serving
          running,  \* running[p]: the cleanupRunning flag
          drain,    \* drain[p][s]: a cleanup of p, by kind and statement
          garbage,  \* garbage[k]: rows of kind k to delete
          expired   \* rows that have expired so far

jobVars == <<history, lock, job>>
procVars == <<proc, pool, inflight>>
drainVars == <<running, drain, garbage>>
vars == <<jobVars, procVars, drainVars, expired>>

Off == [kind |-> None, batch |-> 0]
Quiet == [s \in Slots |-> Off]
Down == [pc |-> "down", release |-> None]

Init ==
  /\ history = {} /\ lock = None
  /\ job = [j \in Jobs |-> [pc |-> "idle"]]
  /\ proc = [p \in Processes |-> Down] /\ pool = {}
  /\ inflight = [p \in Processes |-> 0]
  /\ running = [p \in Processes |-> FALSE]
  /\ drain = [p \in Processes |-> Quiet]
  /\ garbage = [k \in Kinds |-> 0] /\ expired = 0

----------------------------------------------------------------------------
(* Migration jobs                                                          *)

Goto(j, pc) == job' = [job EXCEPT ![j].pc = pc]

\* Mutant: the jobs do not exclude each other.
JobLockShared(j, r) ==
  /\ job[j].pc = "idle"
  /\ lock' = j
  /\ job' = [job EXCEPT ![j] = [pc |-> "verify", release |-> r, at |-> 1]]
  /\ UNCHANGED <<history, procVars, drainVars, expired>>

\* pg_advisory_lock
JobLock(j, r) ==
  /\ job[j].pc = "idle" /\ lock = None
  /\ lock' = j
  /\ job' = [job EXCEPT ![j] = [pc |-> "verify", release |-> r, at |-> 1]]
  /\ UNCHANGED <<history, procVars, drainVars, expired>>

\* verifyMigrationHistory: nothing modified, nothing unknown.
JobVerify(j) ==
  /\ job[j].pc = "verify"
  /\ Goto(j, IF history \subseteq Entries(job[j].release) THEN "look" ELSE "unlock")
  /\ UNCHANGED <<history, lock, procVars, drainVars, expired>>

\* The next migration: applied already, modified, or to be run.  After the last
\* one verifyMigrationState changes nothing.
JobLook(j) ==
  LET r == job[j].release  n == job[j].at IN
  /\ job[j].pc = "look"
  /\ IF n > Len(Manifest[r])
       THEN Goto(j, "unlock")
       ELSE LET same == {e \in history : e.name = Manifest[r][n].name} IN
            IF same = {} THEN Goto(j, "run")
            ELSE IF same = {Manifest[r][n]} THEN job' = [job EXCEPT ![j].at = n + 1]
            ELSE Goto(j, "unlock")
  /\ UNCHANGED <<history, lock, procVars, drainVars, expired>>

\* BEGIN, the SQL, the row of schema_migrations (its name is the key), COMMIT.
JobRun(j) ==
  LET e == Manifest[job[j].release][job[j].at] IN
  /\ job[j].pc = "run" /\ \A o \in history : o.name # e.name
  /\ history' = history \cup {e}
  /\ job' = [job EXCEPT ![j] = [pc |-> "look", release |-> @.release, at |-> @.at + 1]]
  /\ UNCHANGED <<lock, procVars, drainVars, expired>>

\* The SQL fails and is rolled back.
JobFails(j) ==
  /\ job[j].pc = "run"
  /\ Goto(j, "unlock")
  /\ UNCHANGED <<history, lock, procVars, drainVars, expired>>

\* pg_advisory_unlock; PostgreSQL does the same for a job that died.
JobEnds(j) ==
  /\ job[j].pc # "idle"
  /\ lock' = IF lock = j THEN None ELSE lock
  /\ job' = [job EXCEPT ![j] = [pc |-> "idle"]]
  /\ UNCHANGED <<history, procVars, drainVars, expired>>

----------------------------------------------------------------------------
(* The start of a process                                                  *)

Move(p, pc) == proc' = [proc EXCEPT ![p].pc = pc]

\* The pool is created; store.ready tries it.
Open(p, r) ==
  /\ proc[p].pc = "down"
  /\ proc' = [proc EXCEPT ![p] = [pc |-> "opened", release |-> r]]
  /\ pool' = pool \cup {p}
  /\ UNCHANGED <<jobVars, inflight, drainVars, expired>>

\* verifyMigrationState: exactly the migrations of this release.  Otherwise the
\* start fails (Die).
CheckSchema(p) ==
  /\ proc[p].pc = "opened"
  /\ history = Entries(proc[p].release)
  /\ Move(p, "starting")
  /\ UNCHANGED <<jobVars, pool, inflight, drainVars, expired>>

\* Realms, rate limits, keys and providers; then the first cleanup is awaited.
StartCleanup(p) ==
  /\ proc[p].pc = "starting"
  /\ Move(p, "cleaning")
  /\ drain' = [drain EXCEPT ![p][1] = [kind |-> "records", batch |-> 1]]
  /\ UNCHANGED <<jobVars, pool, inflight, running, garbage, expired>>

\* ready: the server listens.
Serve(p) ==
  /\ proc[p].pc = "cleaning" /\ drain[p] = Quiet
  /\ Move(p, "serving")
  /\ UNCHANGED <<jobVars, pool, inflight, drainVars, expired>>

----------------------------------------------------------------------------
(* Cleanup                                                                 *)

\* setInterval, until close clears it.
Timer(p) ==
  /\ proc[p].pc \in {"serving", "stopping"} /\ ~running[p]
  /\ running' = [running EXCEPT ![p] = TRUE]
  /\ \E s \in Slots :
       /\ drain[p][s] = Off
       /\ drain' = [drain EXCEPT ![p][s] = [kind |-> "records", batch |-> 1]]
  /\ UNCHANGED <<jobVars, procVars, garbage, expired>>

Least(m, n) == IF m < n THEN m ELSE n

\* What follows a statement that deleted n rows: a full batch is followed by
\* another one up to the limit, then comes the other kind, then the end.
After(d, n) ==
  IF n = BatchSize /\ d.batch < MaxBatches THEN [d EXCEPT !.batch = @ + 1]
  ELSE IF d.kind = "records" THEN [kind |-> "audit", batch |-> 1]
  ELSE Off

\* cleanupExpired or cleanupAudit: one batch.
DrainBatch(p, s) ==
  LET d == drain[p][s] IN
  /\ d # Off /\ p \in pool
  /\ LET n == Least(BatchSize, garbage[d.kind])  next == After(d, n) IN
       /\ garbage' = [garbage EXCEPT ![d.kind] = @ - n]
       /\ drain' = [drain EXCEPT ![p][s] = next]
       /\ running' = [running EXCEPT ![p] = IF next = Off THEN FALSE ELSE @]
  /\ UNCHANGED <<jobVars, procVars, expired>>

\* Mutant: the flag is reset after a success only.
DrainFailsForever(p, s) ==
  /\ drain[p][s] # Off /\ proc[p].pc # "cleaning"
  /\ drain' = [drain EXCEPT ![p][s] = Off]
  /\ UNCHANGED <<jobVars, procVars, running, garbage, expired>>

\* The statement fails, always once the pool has ended: logged, and the flag reset.
\* In a start the failure ends the process (Die).
DrainFails(p, s) ==
  /\ drain[p][s] # Off /\ proc[p].pc # "cleaning"
  /\ drain' = [drain EXCEPT ![p][s] = Off]
  /\ running' = [running EXCEPT ![p] = FALSE]
  /\ UNCHANGED <<jobVars, procVars, garbage, expired>>

Expire(k) ==
  /\ expired < MaxExpired
  /\ expired' = expired + 1
  /\ garbage' = [garbage EXCEPT ![k] = @ + 1]
  /\ UNCHANGED <<jobVars, procVars, running, drain>>

----------------------------------------------------------------------------
(* Requests and shutdown                                                   *)

Arrive(p) ==
  /\ proc[p].pc = "serving" /\ inflight[p] < MaxRequests
  /\ inflight' = [inflight EXCEPT ![p] = @ + 1]
  /\ UNCHANGED <<jobVars, proc, pool, drainVars, expired>>

Respond(p) ==
  /\ inflight[p] > 0
  /\ inflight' = [inflight EXCEPT ![p] = @ - 1]
  /\ UNCHANGED <<jobVars, proc, pool, drainVars, expired>>

\* SIGTERM: the server takes no more requests; a second signal changes nothing.
Signal(p) ==
  /\ proc[p].pc = "serving"
  /\ Move(p, "stopping")
  /\ UNCHANGED <<jobVars, pool, inflight, drainVars, expired>>

\* Mutant: the runtime is closed without waiting for the server.
ServerClosedAtOnce(p) ==
  /\ proc[p].pc = "stopping"
  /\ Move(p, "closing")
  /\ UNCHANGED <<jobVars, pool, inflight, drainVars, expired>>

\* server.close has answered: runtime.close begins and clears the timer.
ServerClosed(p) ==
  /\ proc[p].pc = "stopping" /\ inflight[p] = 0
  /\ Move(p, "closing")
  /\ UNCHANGED <<jobVars, pool, inflight, drainVars, expired>>

\* The audit writer and the rate limits are closed, then the pool; or one of
\* them fails and the rest of close is skipped.
Close(p) ==
  /\ proc[p].pc = "closing"
  /\ \/ pool' = pool \ {p} /\ Move(p, "closed")
     \/ UNCHANGED pool /\ Move(p, "unclosed")
  /\ UNCHANGED <<jobVars, inflight, drainVars, expired>>

Gone(p) ==
  /\ proc' = [proc EXCEPT ![p] = Down]
  /\ pool' = pool \ {p}
  /\ inflight' = [inflight EXCEPT ![p] = 0]
  /\ running' = [running EXCEPT ![p] = FALSE]
  /\ drain' = [drain EXCEPT ![p] = Quiet]
  /\ UNCHANGED <<jobVars, garbage, expired>>

\* Nothing is left to do.
Exit(p) == proc[p].pc = "closed" /\ drain[p] = Quiet /\ Gone(p)

\* Mutant: no timer forces the exit.
ForcedNever(p) == FALSE /\ Gone(p)

\* 15 seconds after the signal.
Forced(p) == proc[p].pc \in {"stopping", "closing", "unclosed"} /\ Gone(p)

\* A start that fails closes what it opened; an uncaught error or a crash ends
\* the process.
Die(p) == proc[p].pc # "down" /\ Gone(p)

Next ==
  \/ \E j \in Jobs :
       \/ \E r \in Releases : JobLock(j, r)
       \/ JobVerify(j) \/ JobLook(j) \/ JobRun(j) \/ JobFails(j) \/ JobEnds(j)
  \/ \E p \in Processes :
       \/ \E r \in Releases : Open(p, r)
       \/ CheckSchema(p) \/ StartCleanup(p) \/ Serve(p) \/ Timer(p)
       \/ \E s \in Slots : DrainBatch(p, s) \/ DrainFails(p, s)
       \/ Arrive(p) \/ Respond(p) \/ Signal(p) \/ ServerClosed(p) \/ Close(p)
       \/ Exit(p) \/ Forced(p) \/ Die(p)
  \/ \E k \in Kinds : Expire(k)

Spec == Init /\ [][Next]_vars

\* Timers fire, statements end, and a statement tried again and again is not
\* refused every time.  Requests may hang; nobody has to migrate.
FairSpec ==
  /\ Spec
  /\ \A p \in Processes :
       /\ WF_vars(Timer(p)) /\ WF_vars(Forced(p)) /\ WF_vars(Exit(p))
       /\ WF_vars(\E s \in Slots : DrainBatch(p, s) \/ DrainFails(p, s))
       /\ \A k \in Kinds : SF_vars(\E s \in Slots : drain[p][s].kind = k /\ DrainBatch(p, s))

----------------------------------------------------------------------------
(* Properties                                                              *)

\* Whatever jobs of whatever releases overlap, fail and die, the migrations
\* applied are the first ones of one release.
OneHistory ==
  \E r \in Releases : \E n \in 0..Len(Manifest[r]) :
    history = {Manifest[r][m] : m \in 1..n}

\* A process that serves has every migration of its release under it, also after
\* a job of a later release has run; no request is served without the pool; and no
\* two cleanups of a process overlap, the one of its start included.
ProcessesAreSound ==
  \A p \in Processes :
    /\ proc[p].pc \in {"serving", "stopping"} => Entries(proc[p].release) \subseteq history
    /\ inflight[p] > 0 => p \in pool
    /\ Cardinality({s \in Slots : drain[p][s] # Off}) <= 1

\* Expired rows are deleted as long as a process serves, although single
\* cleanups fail, are cut off at their limit, or end with their process.
GarbageIsCollected ==
  \A k \in Kinds : garbage[k] > 0 ~> garbage[k] = 0 \/ \A p \in Processes : proc[p].pc # "serving"

\* A process told to stop does, although requests hang and closing fails.
ShutdownEnds == \A p \in Processes : proc[p].pc = "stopping" ~> proc[p].pc = "down"
============================================================================
