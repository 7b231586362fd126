------------------------- MODULE DeploymentProofs -------------------------
(***************************************************************************)
(* Proofs about Deployment, for any releases, jobs and processes: the      *)
(* migrations applied belong to one release and are its first ones, and a  *)
(* process that serves has its schema, its pool and one cleanup at a time. *)
(* Then about AuditWriter, which the shutdown of a process closes: order,  *)
(* nothing lost, all settled before the pool ends.                         *)
(***************************************************************************)
EXTENDS Deployment, AuditWriter, FiniteSetTheorems, SequenceTheorems, TLAPS

\* A job past the lock holds it, so there is one at most.
LockHolds == \A j \in Jobs : job[j].pc # "idle" => lock = j

JobTypes ==
  /\ job \in [Jobs -> [pc : {"idle"}]
                      \cup [pc : {"verify", "look", "run", "unlock"}, release : Releases, at : Nat]]
  /\ lock \in Jobs \cup {None}

\* What a job past the verification has seen: only migrations of its release, and
\* every one before the one it is at; one it runs is not there by name.
VerifiedHolds ==
  \A j \in Jobs :
    /\ job[j].pc = "verify" => job[j].at = 1
    /\ job[j].pc \in {"look", "run"} =>
         /\ history \subseteq Entries(job[j].release)
         /\ job[j].at \in 1..(Len(Manifest[job[j].release]) + 1)
         /\ \A m \in 1..(job[j].at - 1) : Manifest[job[j].release][m] \in history
         /\ job[j].pc = "run" =>
              /\ job[j].at <= Len(Manifest[job[j].release])
              /\ \A o \in history : o.name # Manifest[job[j].release][job[j].at].name

\* The migrations applied are some release's.
HistoryHolds == \E r \in Releases : history \subseteq Entries(r)

JobInv == JobTypes /\ LockHolds /\ VerifiedHolds /\ HistoryHolds

Pcs == {"down", "opened", "starting", "cleaning", "serving", "stopping",
        "closing", "closed", "unclosed"}

ProcTypes ==
  /\ proc \in [Processes -> [pc : Pcs, release : Releases \cup {None}]]
  /\ pool \subseteq Processes
  /\ inflight \in [Processes -> Nat]
  /\ running \in [Processes -> BOOLEAN]
  /\ drain \in [Processes -> [Slots -> [kind : Kinds \cup {None}, batch : Nat]]]

\* A process past its schema check has every migration of its release under it.
SchemaHolds ==
  \A p \in Processes :
    proc[p].pc \in {"starting", "cleaning", "serving", "stopping"} =>
      Entries(proc[p].release) \subseteq history

\* The pool is open from the start to the end of close, and requests are there
\* only before close begins.
PoolHolds ==
  \A p \in Processes :
    /\ proc[p].pc \notin {"down", "closed", "unclosed"} => p \in pool
    /\ inflight[p] > 0 => proc[p].pc \in {"serving", "stopping"}

\* One cleanup at most: the one of the start in the first slot and without the
\* flag, later ones only with the flag.
CleanupHolds ==
  \A p \in Processes :
    /\ drain[p][1] = Off \/ drain[p][2] = Off
    /\ proc[p].pc \in {"down", "opened", "starting"} => drain[p][1] = Off /\ ~running[p]
    /\ proc[p].pc = "cleaning" => ~running[p]
    /\ proc[p].pc \in {"down", "opened", "starting", "cleaning"} => drain[p][2] = Off
    /\ proc[p].pc # "cleaning" /\ ~running[p] => drain[p][1] = Off /\ drain[p][2] = Off

ProcInv == ProcTypes /\ SchemaHolds /\ PoolHolds /\ CleanupHolds

----------------------------------------------------------------------------
(* Operators                                                               *)

\* The migrations of a release, by position.
LEMMA EntriesByPosition ==
  ASSUME NEW r \in Releases
  PROVE  /\ \A n \in 1..Len(Manifest[r]) : Manifest[r][n] \in Entries(r)
         /\ \A e \in Entries(r) : \E n \in 1..Len(Manifest[r]) : e = Manifest[r][n]
BY DeploymentAssumption DEF Entries

\* Two migrations of a release with one name are one.
LEMMA NamesAreKeys ==
  ASSUME NEW r \in Releases, NEW n \in 1..Len(Manifest[r]), NEW e \in Entries(r),
         e.name = Manifest[r][n].name
  PROVE  e = Manifest[r][n]
BY EntriesByPosition, DeploymentAssumption

\* Releases that share a migration share everything before it.
LEMMA SharedPrefix ==
  ASSUME NEW q \in Releases, NEW r \in Releases,
         NEW m \in DOMAIN Manifest[q], NEW n \in DOMAIN Manifest[r],
         Manifest[q][m] = Manifest[r][n]
  PROVE  m = n /\ \A k \in 1..m : Manifest[q][k] = Manifest[r][k]
BY AppendAssumption

----------------------------------------------------------------------------
(* Migration jobs                                                          *)

\* A step of a job keeps what holds of the jobs: only the holder of the lock moves
\* past the verification, so what it saw of the history stays true.
LEMMA JobInitially == Init => JobInv
BY DeploymentAssumption, SMTT(30) DEF Init, JobInv, JobTypes, LockHolds, VerifiedHolds, HistoryHolds

\* Steps that leave the history, the lock and the jobs alone.
LEMMA JobUntouched ==
  ASSUME JobInv, UNCHANGED jobVars
  PROVE  JobInv'
<1>1. history' = history /\ lock' = lock /\ job' = job
  BY DEF jobVars
<1> QED BY <1>1 DEF JobInv, JobTypes, LockHolds, VerifiedHolds, HistoryHolds, Entries

LEMMA JobLocks ==
  ASSUME JobInv, NEW j \in Jobs, NEW r \in Releases, JobLock(j, r)
  PROVE  JobInv'
<1>1. history' = history /\ lock = None /\ lock' = j /\ job[j].pc = "idle"
  BY DEF JobLock
<1>2. job'[j] = [pc |-> "verify", release |-> r, at |-> 1] /\ \A o \in Jobs : o # j => job'[o] = job[o]
  BY DEF JobLock, JobInv, JobTypes
<1>3. \A o \in Jobs : job[o].pc = "idle"
  BY <1>1, DeploymentAssumption DEF JobInv, LockHolds
<1>4. JobTypes'
  BY <1>1 DEF JobLock, JobInv, JobTypes
<1> QED BY <1>1, <1>2, <1>3, <1>4 DEF JobInv, LockHolds, VerifiedHolds, HistoryHolds

\* A step of the holder of the lock on itself only.
LEMMA HolderMoves ==
  ASSUME JobInv, NEW j \in Jobs, job[j].pc # "idle", lock' = lock,
         history' = history,
         NEW pc \in {"look", "run", "unlock"}, NEW at \in Nat,
         job' = [job EXCEPT ![j] = [pc |-> pc, release |-> job[j].release, at |-> at]],
         pc \in {"look", "run"} =>
           /\ history \subseteq Entries(job[j].release)
           /\ at \in 1..(Len(Manifest[job[j].release]) + 1)
           /\ \A m \in 1..(at - 1) : Manifest[job[j].release][m] \in history
           /\ pc = "run" =>
                /\ at <= Len(Manifest[job[j].release])
                /\ \A o \in history : o.name # Manifest[job[j].release][at].name
  PROVE  JobInv'
<1>1. lock = j /\ job[j].release \in Releases
  BY DEF JobInv, LockHolds, JobTypes
<1>2. /\ job'[j].pc = pc /\ job'[j].release = job[j].release /\ job'[j].at = at
      /\ \A o \in Jobs : o # j => job'[o] = job[o]
  BY DEF JobInv, JobTypes
<1>3. \A o \in Jobs : o # j => job[o].pc = "idle"
  BY <1>1 DEF JobInv, LockHolds
<1>4. JobTypes'
  BY <1>1 DEF JobInv, JobTypes
<1>5. LockHolds'
  BY <1>1, <1>2, <1>3 DEF LockHolds
<1>6. VerifiedHolds'
  BY <1>1, <1>2, <1>3 DEF VerifiedHolds
<1> QED BY <1>4, <1>5, <1>6 DEF JobInv, HistoryHolds

LEMMA GotoIsAssignment ==
  ASSUME JobTypes, NEW j \in Jobs, job[j].pc # "idle", NEW pc, Goto(j, pc)
  PROVE  /\ job' = [job EXCEPT ![j] = [pc |-> pc, release |-> job[j].release, at |-> job[j].at]]
         /\ job[j].at \in Nat
<1>1. job[j] \in [pc : {"verify", "look", "run", "unlock"}, release : Releases, at : Nat]
  BY DEF JobTypes
<1>2. [job[j] EXCEPT !.pc = pc] = [pc |-> pc, release |-> job[j].release, at |-> job[j].at]
  BY <1>1
<1>3. job' = [job EXCEPT ![j] = [job[j] EXCEPT !.pc = pc]]
  BY DEF Goto
<1> QED BY <1>1, <1>2, <1>3

LEMMA JobVerifies ==
  ASSUME JobInv, NEW j \in Jobs, JobVerify(j)
  PROVE  JobInv'
<1> DEFINE pc == IF history \subseteq Entries(job[j].release) THEN "look" ELSE "unlock"
<1>1. job[j].pc = "verify" /\ history' = history /\ lock' = lock /\ Goto(j, pc)
  BY DEF JobVerify
<1>2. JobTypes /\ job[j].release \in Releases /\ job[j].at = 1
  BY <1>1 DEF JobInv, JobTypes, VerifiedHolds
<1>3. job' = [job EXCEPT ![j] = [pc |-> pc, release |-> job[j].release, at |-> 1]]
  BY <1>1, <1>2, GotoIsAssignment
<1>4. Len(Manifest[job[j].release]) \in Nat
  BY <1>2, DeploymentAssumption
<1>5. pc \in {"look", "unlock"} /\ (pc = "look" => history \subseteq Entries(job[j].release))
  OBVIOUS
<1>6. 1 \in 1..(Len(Manifest[job[j].release]) + 1) /\ 1..(1 - 1) = {}
  BY <1>4
<1> HIDE DEF pc
<1>7. CASE pc = "look"
  BY <1>1, <1>3, <1>5, <1>6, <1>7, HolderMoves
<1>8. CASE pc = "unlock"
  BY <1>1, <1>3, <1>8, HolderMoves
<1> QED BY <1>5, <1>7, <1>8

LEMMA JobLooks ==
  ASSUME JobInv, NEW j \in Jobs, JobLook(j)
  PROVE  JobInv'
<1> DEFINE r == job[j].release
           n == job[j].at
           same == {e \in history : e.name = Manifest[r][n].name}
<1>1. job[j].pc = "look" /\ history' = history /\ lock' = lock
  BY DEF JobLook
<1>2. JobTypes /\ r \in Releases /\ n \in Nat
  BY <1>1 DEF JobInv, JobTypes
<1>3. /\ history \subseteq Entries(r) /\ n \in 1..(Len(Manifest[r]) + 1)
      /\ \A m \in 1..(n - 1) : Manifest[r][m] \in history
  BY <1>1 DEF JobInv, VerifiedHolds
<1>4. Len(Manifest[r]) \in Nat
  BY <1>2, DeploymentAssumption
<1>5. CASE Goto(j, "unlock")
  <2>1. job' = [job EXCEPT ![j] = [pc |-> "unlock", release |-> r, at |-> n]]
    BY <1>1, <1>2, <1>5, GotoIsAssignment
  <2> QED BY <1>1, <1>2, <2>1, HolderMoves
<1>6. CASE n <= Len(Manifest[r]) /\ same = {} /\ Goto(j, "run")
  <2>1. job' = [job EXCEPT ![j] = [pc |-> "run", release |-> r, at |-> n]]
    BY <1>1, <1>2, <1>6, GotoIsAssignment
  <2>2. \A o \in history : o.name # Manifest[r][n].name
    BY <1>6
  <2> QED BY <1>1, <1>2, <1>3, <1>6, <2>1, <2>2, HolderMoves
<1>7. CASE n <= Len(Manifest[r]) /\ same = {Manifest[r][n]} /\ job' = [job EXCEPT ![j].at = n + 1]
  <2>1. job[j] \in [pc : {"verify", "look", "run", "unlock"}, release : Releases, at : Nat]
    BY <1>1 DEF JobInv, JobTypes
  <2>2. [job[j] EXCEPT !.at = n + 1] = [pc |-> "look", release |-> r, at |-> n + 1]
    BY <1>1, <2>1
  <2>3. job' = [job EXCEPT ![j] = [pc |-> "look", release |-> r, at |-> n + 1]]
    BY <1>7, <2>2
  <2>4. Manifest[r][n] \in history
    BY <1>7
  <2>5. \A m \in 1..n : m = n \/ m \in 1..(n - 1)
    BY <1>2
  <2>6. n + 1 \in Nat /\ n + 1 \in 1..(Len(Manifest[r]) + 1) /\ (n + 1) - 1 = n
    BY <1>2, <1>4, <1>7
  <2>7. \A m \in 1..n : Manifest[r][m] \in history
    BY <1>3, <2>4, <2>5
  <2>8. \A m \in 1..((n + 1) - 1) : Manifest[r][m] \in history
    BY <2>6, <2>7
  <2> QED BY <1>1, <1>3, <2>3, <2>6, <2>8, HolderMoves
<1>8. ~(n > Len(Manifest[r])) => n <= Len(Manifest[r])
  BY <1>2, <1>4
<1> QED BY <1>5, <1>6, <1>7, <1>8 DEF JobLook

LEMMA JobFailsOrEnds ==
  ASSUME JobInv, NEW j \in Jobs, JobFails(j) \/ JobEnds(j)
  PROVE  JobInv'
<1>1. CASE JobFails(j)
  <2>1. job[j].pc = "run" /\ history' = history /\ lock' = lock /\ Goto(j, "unlock")
    BY <1>1 DEF JobFails
  <2>2. /\ job' = [job EXCEPT ![j] = [pc |-> "unlock", release |-> job[j].release, at |-> job[j].at]]
        /\ job[j].at \in Nat
    BY <2>1, GotoIsAssignment DEF JobInv
  <2> QED BY <2>1, <2>2, HolderMoves
<1>2. CASE JobEnds(j)
  <2>1. lock = j /\ lock' = None /\ history' = history
    BY <1>2 DEF JobEnds, JobInv, LockHolds
  <2>2. job'[j] = [pc |-> "idle"] /\ \A o \in Jobs : o # j => job'[o] = job[o]
    BY <1>2 DEF JobEnds, JobInv, JobTypes
  <2>3. \A o \in Jobs : job'[o].pc = "idle"
    BY <2>1, <2>2 DEF JobInv, LockHolds
  <2>4. JobTypes'
    BY <1>2, <2>1 DEF JobEnds, JobInv, JobTypes
  <2> QED BY <2>1, <2>3, <2>4 DEF JobInv, LockHolds, VerifiedHolds, HistoryHolds
<1> QED BY <1>1, <1>2

LEMMA JobRuns ==
  ASSUME JobInv, NEW j \in Jobs, JobRun(j)
  PROVE  JobInv'
<1> DEFINE r == job[j].release
           n == job[j].at
<1>1. /\ job[j].pc = "run" /\ lock' = lock /\ history' = history \cup {Manifest[r][n]}
      /\ job' = [job EXCEPT ![j] = [pc |-> "look", release |-> r, at |-> n + 1]]
  BY DEF JobRun
<1>2. r \in Releases /\ n \in Nat /\ Len(Manifest[r]) \in Nat
  BY <1>1, DeploymentAssumption DEF JobInv, JobTypes
<1>3. /\ history \subseteq Entries(r) /\ n \in 1..Len(Manifest[r])
      /\ \A m \in 1..(n - 1) : Manifest[r][m] \in history
  BY <1>1, <1>2 DEF JobInv, VerifiedHolds
<1>4. history' \subseteq Entries(r)
  BY <1>1, <1>2, <1>3, EntriesByPosition
<1>5. lock = j /\ \A o \in Jobs : o # j => job[o].pc = "idle"
  BY <1>1 DEF JobInv, LockHolds
<1>6. /\ job'[j].pc = "look" /\ job'[j].release = r /\ job'[j].at = n + 1
      /\ \A o \in Jobs : o # j => job'[o] = job[o]
  BY <1>1 DEF JobInv, JobTypes
<1>7. JobTypes'
  BY <1>1, <1>2 DEF JobInv, JobTypes
<1>8. \A m \in 1..n : Manifest[r][m] \in history'
  BY <1>1, <1>2, <1>3
<1>9. n + 1 \in 1..(Len(Manifest[r]) + 1) /\ (n + 1) - 1 = n
  BY <1>2, <1>3
<1> HIDE DEF r, n
<1>10. VerifiedHolds'
  BY <1>4, <1>5, <1>6, <1>8, <1>9 DEF VerifiedHolds
<1>11. HistoryHolds'
  BY <1>2, <1>4 DEF HistoryHolds, Entries
<1>12. LockHolds'
  BY <1>1, <1>5, <1>6 DEF LockHolds
<1> QED BY <1>7, <1>10, <1>11, <1>12 DEF JobInv

\* What every step may do to the jobs: a step of a job, or nothing.
JobSteps ==
  \E j \in Jobs :
    \/ \E r \in Releases : JobLock(j, r)
    \/ JobVerify(j) \/ JobLook(j) \/ JobRun(j) \/ JobFails(j) \/ JobEnds(j)

LEMMA OthersLeaveJobs ==
  ASSUME [Next]_vars
  PROVE  JobSteps \/ UNCHANGED jobVars
BY DEF Next, JobSteps, vars, Open, CheckSchema, StartCleanup, Serve, Timer, DrainBatch,
       DrainFails, Arrive, Respond, Signal, ServerClosed, Close, Exit, Forced, Die, Gone, Expire

LEMMA JobInductive == JobInv /\ [Next]_vars => JobInv'
BY OthersLeaveJobs, JobUntouched, JobLocks, JobVerifies, JobLooks, JobRuns, JobFailsOrEnds
   DEF JobSteps

\* Rows of schema_migrations stay, and one is added only by JobRun.
LEMMA HistoryGrows ==
  ASSUME [Next]_vars
  PROVE  history' = history \/ \E j \in Jobs : JobRun(j)
<1>1. UNCHANGED jobVars => history' = history
  BY DEF jobVars
<1>2. JobSteps => history' = history \/ \E j \in Jobs : JobRun(j)
  BY DEF JobSteps, JobLock, JobVerify, JobLook, JobFails, JobEnds
<1> QED BY <1>1, <1>2, OthersLeaveJobs

LEMMA HistoryStays ==
  ASSUME [Next]_vars
  PROVE  history \subseteq history'
BY HistoryGrows DEF JobRun

\* The first migrations of a release that hold one of another are that one's too:
\* with the history a prefix of some release, the job that runs the migration at
\* its position has found everything before it and nothing else.
LEMMA PrefixGrows ==
  ASSUME JobInv, OneHistory, NEW j \in Jobs, JobRun(j)
  PROVE  OneHistory'
<1> DEFINE r == job[j].release
           n == job[j].at
<1>1. job[j].pc = "run" /\ history' = history \cup {Manifest[r][n]}
  BY DEF JobRun
<1>2. r \in Releases /\ n \in Nat /\ Len(Manifest[r]) \in Nat
  BY <1>1, DeploymentAssumption DEF JobInv, JobTypes
<1>3. /\ history \subseteq Entries(r) /\ n \in 1..Len(Manifest[r])
      /\ \A m \in 1..(n - 1) : Manifest[r][m] \in history
      /\ \A o \in history : o.name # Manifest[r][n].name
  BY <1>1, <1>2 DEF JobInv, VerifiedHolds
<1> HIDE DEF r, n
<1>0. PICK q \in Releases :
        \E k \in 0..Len(Manifest[q]) : history = {Manifest[q][m] : m \in 1..k}
  BY DEF OneHistory
<1>4. PICK k \in 0..Len(Manifest[q]) : history = {Manifest[q][m] : m \in 1..k}
  BY <1>0
<1>5. Len(Manifest[q]) \in Nat /\ DOMAIN Manifest[q] = 1..Len(Manifest[q])
      /\ DOMAIN Manifest[r] = 1..Len(Manifest[r])
  BY <1>2, DeploymentAssumption
<1>6. ASSUME NEW e \in history
      PROVE  \E m \in 1..(n - 1) : e = Manifest[r][m]
  <2>1. PICK m \in 1..k : e = Manifest[q][m]
    BY <1>4
  <2>2. PICK l \in 1..Len(Manifest[r]) : e = Manifest[r][l]
    BY <1>2, <1>3, EntriesByPosition
  <2>3. m \in DOMAIN Manifest[q] /\ l \in DOMAIN Manifest[r]
    BY <1>4, <1>5
  <2>4. m = l /\ \A i \in 1..m : Manifest[q][i] = Manifest[r][i]
    <3>1. Manifest[q][m] = Manifest[r][l]
      BY <2>1, <2>2
    <3> QED BY <1>2, <2>3, <3>1, SharedPrefix
  <2>5. ASSUME n <= m PROVE FALSE
    <3>1. n \in 1..m /\ n \in 1..k
      BY <1>3, <1>4, <1>5, <2>5
    <3>2. Manifest[r][n] \in history
      BY <1>4, <2>4, <3>1
    <3> QED BY <1>3, <3>2
  <2>6. l \in 1..(n - 1)
    BY <1>2, <2>2, <2>4, <2>5
  <2> QED BY <2>2, <2>6
<1>7. history' = {Manifest[r][m] : m \in 1..n}
  <2>1. \A m \in 1..n : m = n \/ m \in 1..(n - 1)
    BY <1>2
  <2>2. (1..(n - 1)) \subseteq 1..n /\ n \in 1..n
    BY <1>2, <1>3
  <2> QED BY <1>1, <1>3, <1>6, <2>1, <2>2
<1>8. n \in 0..Len(Manifest[r])
  BY <1>2, <1>3
<1> QED BY <1>2, <1>7, <1>8 DEF OneHistory

\* Whatever jobs of whatever releases overlap, fail and die, the applied migrations
\* all belong to one release (verifyMigrationHistory under the advisory lock); this
\* needs no assumption on how the releases follow each other.
THEOREM OneReleaseApplied == Spec => []HistoryHolds
<1>1. JobInv => HistoryHolds
  BY DEF JobInv
<1> QED BY <1>1, JobInitially, JobInductive, PTL DEF Spec

\* The applied migrations are the first ones of one release, if releases append
\* their migrations (AppendAssumption): scripts/migrate.mjs stops half-way only
\* between two migrations, and no other job runs meanwhile.
THEOREM OneHistoryApplied == Spec => []OneHistory
<1>1. Init => OneHistory
  <2>1. PICK r \in Releases : TRUE
    BY DeploymentAssumption
  <2>2. Len(Manifest[r]) \in Nat
    BY DeploymentAssumption
  <2>3. 0 \in 0..Len(Manifest[r]) /\ {Manifest[r][m] : m \in 1..0} = {}
    BY <2>2
  <2> QED BY <2>3 DEF Init, OneHistory
<1>2. JobInv /\ OneHistory /\ [Next]_vars => OneHistory'
  <2>1. history' = history /\ OneHistory => OneHistory'
    BY DEF OneHistory
  <2> QED BY <2>1, HistoryGrows, PrefixGrows
<1> QED BY <1>1, <1>2, JobInitially, JobInductive, PTL DEF Spec

----------------------------------------------------------------------------
(* Processes                                                               *)

LEMMA ProcInitially == Init => ProcInv
BY DEF Init, ProcInv, ProcTypes, SchemaHolds, PoolHolds, CleanupHolds, Pcs, Down, Quiet, Off, Slots, Kinds

\* Steps that leave the processes alone; the history may have grown.
LEMMA ProcUntouched ==
  ASSUME ProcInv, history \subseteq history', UNCHANGED <<procVars, running, drain>>
  PROVE  ProcInv'
<1>1. proc' = proc /\ pool' = pool /\ inflight' = inflight /\ running' = running /\ drain' = drain
  BY DEF procVars
<1>2. SchemaHolds'
  BY <1>1 DEF ProcInv, SchemaHolds, Entries
<1> QED BY <1>1, <1>2 DEF ProcInv, ProcTypes, PoolHolds, CleanupHolds

\* A step of process p on itself only, with the state it has afterwards.
LEMMA ProcMoves ==
  ASSUME ProcInv, history \subseteq history', NEW p \in Processes, ProcTypes',
         \A o \in Processes : o # p =>
           /\ proc'[o] = proc[o] /\ (o \in pool => o \in pool')
           /\ inflight'[o] = inflight[o] /\ running'[o] = running[o] /\ drain'[o] = drain[o],
         proc'[p].pc \in {"starting", "cleaning", "serving", "stopping"} =>
           Entries(proc'[p].release) \subseteq history',
         proc'[p].pc \notin {"down", "closed", "unclosed"} => p \in pool',
         inflight'[p] > 0 => proc'[p].pc \in {"serving", "stopping"},
         drain'[p][1] = Off \/ drain'[p][2] = Off,
         proc'[p].pc \in {"down", "opened", "starting"} => drain'[p][1] = Off /\ ~running'[p],
         proc'[p].pc = "cleaning" => ~running'[p],
         proc'[p].pc \in {"down", "opened", "starting", "cleaning"} => drain'[p][2] = Off,
         proc'[p].pc # "cleaning" /\ ~running'[p] => drain'[p][1] = Off /\ drain'[p][2] = Off
  PROVE  ProcInv'
<1>1. SchemaHolds'
  <2> SUFFICES ASSUME NEW o \in Processes,
                      proc'[o].pc \in {"starting", "cleaning", "serving", "stopping"}
               PROVE  Entries(proc'[o].release) \subseteq history'
    BY DEF SchemaHolds, Entries
  <2>1. CASE o = p
    BY <2>1
  <2>2. CASE o # p
    BY <2>2 DEF ProcInv, SchemaHolds
  <2> QED BY <2>1, <2>2
<1>2. PoolHolds'
  BY DEF ProcInv, PoolHolds
<1>3. CleanupHolds'
  <2> SUFFICES ASSUME NEW o \in Processes
               PROVE  /\ drain'[o][1] = Off \/ drain'[o][2] = Off
                      /\ proc'[o].pc \in {"down", "opened", "starting"} =>
                           drain'[o][1] = Off /\ ~running'[o]
                      /\ proc'[o].pc = "cleaning" => ~running'[o]
                      /\ proc'[o].pc \in {"down", "opened", "starting", "cleaning"} =>
                           drain'[o][2] = Off
                      /\ proc'[o].pc # "cleaning" /\ ~running'[o] =>
                           drain'[o][1] = Off /\ drain'[o][2] = Off
    BY DEF CleanupHolds, Off
  <2>1. CASE o = p
    BY <2>1
  <2>2. CASE o # p
    <3>1. /\ drain[o][1] = Off \/ drain[o][2] = Off
          /\ proc[o].pc \in {"down", "opened", "starting"} => drain[o][1] = Off /\ ~running[o]
          /\ proc[o].pc = "cleaning" => ~running[o]
          /\ proc[o].pc \in {"down", "opened", "starting", "cleaning"} => drain[o][2] = Off
          /\ proc[o].pc # "cleaning" /\ ~running[o] => drain[o][1] = Off /\ drain[o][2] = Off
      BY DEF ProcInv, CleanupHolds
    <3>2. proc'[o] = proc[o] /\ running'[o] = running[o] /\ drain'[o] = drain[o]
      BY <2>2
    <3> QED BY <3>1, <3>2
  <2> QED BY <2>1, <2>2
<1> QED BY <1>1, <1>2, <1>3 DEF ProcInv

\* What Move does.
LEMMA MoveIsAssignment ==
  ASSUME ProcTypes, NEW p \in Processes, NEW pc \in Pcs, Move(p, pc)
  PROVE  /\ proc'[p].pc = pc /\ proc'[p].release = proc[p].release
         /\ \A o \in Processes : o # p => proc'[o] = proc[o]
         /\ proc' \in [Processes -> [pc : Pcs, release : Releases \cup {None}]]
BY DEF ProcTypes, Move

\* Steps that only move a process on, where the next place asks for nothing the
\* place before did not.
LEMMA ProcAdvances ==
  ASSUME ProcInv, NEW p \in Processes, history' = history,
         CheckSchema(p) \/ Serve(p) \/ Signal(p) \/ ServerClosed(p) \/ Close(p)
  PROVE  ProcInv'
<1>1. CASE CheckSchema(p)
  <2>1. /\ proc[p].pc = "opened" /\ history = Entries(proc[p].release) /\ Move(p, "starting")
        /\ pool' = pool /\ inflight' = inflight /\ running' = running /\ drain' = drain
    BY <1>1 DEF CheckSchema, drainVars
  <2>2. /\ proc'[p].pc = "starting" /\ proc'[p].release = proc[p].release
        /\ \A o \in Processes : o # p => proc'[o] = proc[o]
        /\ ProcTypes'
    BY <2>1, MoveIsAssignment DEF ProcInv, ProcTypes, Pcs
  <2>3. /\ p \in pool /\ ~(inflight[p] > 0)
        /\ drain[p][1] = Off /\ ~running[p] /\ drain[p][2] = Off
    BY <2>1 DEF ProcInv, PoolHolds, CleanupHolds
  <2> QED BY <2>1, <2>2, <2>3, ProcMoves
<1>2. CASE Serve(p)
  <2>1. /\ proc[p].pc = "cleaning" /\ drain[p] = Quiet /\ Move(p, "serving")
        /\ pool' = pool /\ inflight' = inflight /\ running' = running /\ drain' = drain
    BY <1>2 DEF Serve, drainVars
  <2>2. /\ proc'[p].pc = "serving" /\ proc'[p].release = proc[p].release
        /\ \A o \in Processes : o # p => proc'[o] = proc[o]
        /\ ProcTypes'
    BY <2>1, MoveIsAssignment DEF ProcInv, ProcTypes, Pcs
  <2>3. p \in pool /\ drain[p][1] = Off /\ drain[p][2] = Off
    BY <2>1 DEF ProcInv, PoolHolds, Quiet, Slots
  <2>4. Entries(proc[p].release) \subseteq history
    BY <2>1 DEF ProcInv, SchemaHolds
  <2> QED BY <2>1, <2>2, <2>3, <2>4, ProcMoves
<1>3. CASE Signal(p)
  <2>1. /\ proc[p].pc = "serving" /\ Move(p, "stopping")
        /\ pool' = pool /\ inflight' = inflight /\ running' = running /\ drain' = drain
    BY <1>3 DEF Signal, drainVars
  <2>2. /\ proc'[p].pc = "stopping" /\ proc'[p].release = proc[p].release
        /\ \A o \in Processes : o # p => proc'[o] = proc[o]
        /\ ProcTypes'
    BY <2>1, MoveIsAssignment DEF ProcInv, ProcTypes, Pcs
  <2>3. p \in pool /\ Entries(proc[p].release) \subseteq history
    BY <2>1 DEF ProcInv, PoolHolds, SchemaHolds
  <2>4. /\ drain[p][1] = Off \/ drain[p][2] = Off
        /\ ~running[p] => drain[p][1] = Off /\ drain[p][2] = Off
    BY <2>1 DEF ProcInv, CleanupHolds
  <2> QED BY <2>1, <2>2, <2>3, <2>4, ProcMoves
<1>4. CASE ServerClosed(p)
  <2>1. /\ proc[p].pc = "stopping" /\ inflight[p] = 0 /\ Move(p, "closing")
        /\ pool' = pool /\ inflight' = inflight /\ running' = running /\ drain' = drain
    BY <1>4 DEF ServerClosed, drainVars
  <2>2. /\ proc'[p].pc = "closing" /\ proc'[p].release = proc[p].release
        /\ \A o \in Processes : o # p => proc'[o] = proc[o]
        /\ ProcTypes'
    BY <2>1, MoveIsAssignment DEF ProcInv, ProcTypes, Pcs
  <2>3. p \in pool /\ ~(inflight[p] > 0)
    BY <2>1 DEF ProcInv, PoolHolds
  <2>4. /\ drain[p][1] = Off \/ drain[p][2] = Off
        /\ ~running[p] => drain[p][1] = Off /\ drain[p][2] = Off
    BY <2>1 DEF ProcInv, CleanupHolds
  <2> QED BY <2>1, <2>2, <2>3, <2>4, ProcMoves
<1>5. CASE Close(p)
  <2>1. /\ proc[p].pc = "closing"
        /\ pool' \in {pool, pool \ {p}} /\ (Move(p, "closed") \/ Move(p, "unclosed"))
        /\ inflight' = inflight /\ running' = running /\ drain' = drain
    BY <1>5 DEF Close, drainVars
  <2>2. /\ proc'[p].pc \in {"closed", "unclosed"}
        /\ \A o \in Processes : o # p => proc'[o] = proc[o]
        /\ proc' \in [Processes -> [pc : Pcs, release : Releases \cup {None}]]
    BY <2>1, MoveIsAssignment DEF ProcInv, Pcs
  <2>3. ProcTypes'
    BY <2>1, <2>2 DEF ProcInv, ProcTypes
  <2>4. ~(inflight[p] > 0)
    BY <2>1 DEF ProcInv, PoolHolds
  <2>5. /\ drain[p][1] = Off \/ drain[p][2] = Off
        /\ ~running[p] => drain[p][1] = Off /\ drain[p][2] = Off
    BY <2>1 DEF ProcInv, CleanupHolds
  <2> QED BY <2>1, <2>2, <2>3, <2>4, <2>5, ProcMoves
<1> QED BY <1>1, <1>2, <1>3, <1>4, <1>5

\* Requests, the opening and the end of a process.
LEMMA ProcServes ==
  ASSUME ProcInv, NEW p \in Processes, history' = history, Arrive(p) \/ Respond(p)
  PROVE  ProcInv'
<1>1. proc' = proc /\ pool' = pool /\ running' = running /\ drain' = drain
  BY DEF Arrive, Respond, drainVars
<1>2. /\ inflight' \in [Processes -> Nat] /\ \A o \in Processes : o # p => inflight'[o] = inflight[o]
      /\ inflight'[p] > 0 => proc[p].pc = "serving" \/ inflight[p] > 0
  <2>1. inflight \in [Processes -> Nat] /\ inflight[p] \in Nat
    BY DEF ProcInv, ProcTypes
  <2>2. CASE Arrive(p)
    BY <2>1, <2>2 DEF Arrive
  <2>3. CASE Respond(p)
    <3>1. inflight[p] > 0 /\ inflight' = [inflight EXCEPT ![p] = inflight[p] - 1]
      BY <2>3 DEF Respond
    <3>2. inflight[p] - 1 \in Nat
      BY <2>1, <3>1
    <3> QED BY <2>1, <3>1, <3>2
  <2> QED BY <2>2, <2>3
<1>3. \A o \in Processes : inflight'[o] > 0 => proc[o].pc \in {"serving", "stopping"}
  BY <1>2 DEF ProcInv, PoolHolds
<1>4. PoolHolds'
  BY <1>1, <1>3 DEF ProcInv, PoolHolds
<1> QED BY <1>1, <1>2, <1>4 DEF ProcInv, ProcTypes, SchemaHolds, CleanupHolds, Entries

LEMMA ProcOpens ==
  ASSUME ProcInv, NEW p \in Processes, NEW r \in Releases, history' = history, Open(p, r)
  PROVE  ProcInv'
<1>1. /\ proc[p].pc = "down" /\ pool' = pool \cup {p}
      /\ inflight' = inflight /\ running' = running /\ drain' = drain
  BY DEF Open, drainVars
<1>2. /\ proc'[p].pc = "opened"
      /\ \A o \in Processes : o # p => proc'[o] = proc[o]
      /\ proc' \in [Processes -> [pc : Pcs, release : Releases \cup {None}]]
  BY DEF Open, ProcInv, ProcTypes, Pcs
<1>3. ProcTypes'
  BY <1>1, <1>2 DEF ProcInv, ProcTypes
<1>4. /\ ~(inflight[p] > 0)
      /\ drain[p][1] = Off /\ ~running[p] /\ drain[p][2] = Off
  BY <1>1 DEF ProcInv, PoolHolds, CleanupHolds
<1> QED BY <1>1, <1>2, <1>3, <1>4, ProcMoves

LEMMA ProcGoes ==
  ASSUME ProcInv, NEW p \in Processes, history' = history, Gone(p)
  PROVE  ProcInv'
<1>1. /\ proc' = [proc EXCEPT ![p] = Down] /\ pool' = pool \ {p}
      /\ inflight' = [inflight EXCEPT ![p] = 0]
      /\ running' = [running EXCEPT ![p] = FALSE] /\ drain' = [drain EXCEPT ![p] = Quiet]
  BY DEF Gone
<1>2. /\ proc'[p].pc = "down" /\ inflight'[p] = 0 /\ ~running'[p]
      /\ drain'[p][1] = Off /\ drain'[p][2] = Off
  BY <1>1 DEF ProcInv, ProcTypes, Down, Quiet, Slots
<1>3. \A o \in Processes : o # p =>
        /\ proc'[o] = proc[o] /\ (o \in pool => o \in pool')
        /\ inflight'[o] = inflight[o] /\ running'[o] = running[o] /\ drain'[o] = drain[o]
  BY <1>1 DEF ProcInv, ProcTypes
<1>4. Down \in [pc : Pcs, release : Releases \cup {None}]
  BY DEF Down, Pcs
<1>5. Quiet \in [Slots -> [kind : Kinds \cup {None}, batch : Nat]]
  BY DEF Quiet, Off
<1>6. ProcTypes'
  BY <1>1, <1>4, <1>5 DEF ProcInv, ProcTypes
<1>7. ~(inflight'[p] > 0)
  BY <1>2
<1> QED BY <1>2, <1>3, <1>6, <1>7, ProcMoves

----------------------------------------------------------------------------
(* Cleanups                                                                *)

First == [kind |-> "records", batch |-> 1]

LEMMA CleanupStarts ==
  ASSUME ProcInv, NEW p \in Processes, history' = history, StartCleanup(p) \/ Timer(p)
  PROVE  ProcInv'
<1>0. First \in [kind : Kinds \cup {None}, batch : Nat]
  BY DEF First, Kinds
<1>1. CASE StartCleanup(p)
  <2>1. /\ proc[p].pc = "starting" /\ Move(p, "cleaning")
        /\ pool' = pool /\ inflight' = inflight /\ running' = running
        /\ drain' = [drain EXCEPT ![p] = [drain[p] EXCEPT ![1] = First]]
    BY <1>1 DEF StartCleanup, First
  <2>2. /\ proc'[p].pc = "cleaning" /\ proc'[p].release = proc[p].release
        /\ \A o \in Processes : o # p => proc'[o] = proc[o]
        /\ proc' \in [Processes -> [pc : Pcs, release : Releases \cup {None}]]
    BY <2>1, MoveIsAssignment DEF ProcInv, Pcs
  <2>3. /\ drain' \in [Processes -> [Slots -> [kind : Kinds \cup {None}, batch : Nat]]]
        /\ \A o \in Processes : o # p => drain'[o] = drain[o]
        /\ drain'[p][2] = drain[p][2]
    BY <1>0, <2>1 DEF ProcInv, ProcTypes, Slots
  <2>4. ProcTypes'
    BY <2>1, <2>2, <2>3 DEF ProcInv, ProcTypes
  <2>5. /\ p \in pool /\ ~(inflight[p] > 0) /\ ~running[p] /\ drain[p][2] = Off
        /\ Entries(proc[p].release) \subseteq history
    BY <2>1 DEF ProcInv, PoolHolds, CleanupHolds, SchemaHolds
  <2> QED BY <2>1, <2>2, <2>3, <2>4, <2>5, ProcMoves
<1>2. CASE Timer(p)
  <2>1. PICK s \in Slots :
          /\ proc[p].pc \in {"serving", "stopping"} /\ ~running[p]
          /\ drain' = [drain EXCEPT ![p] = [drain[p] EXCEPT ![s] = First]]
          /\ running' = [running EXCEPT ![p] = TRUE]
          /\ proc' = proc /\ pool' = pool /\ inflight' = inflight
    BY <1>2 DEF Timer, First, procVars
  <2>2. drain[p][1] = Off /\ drain[p][2] = Off
    BY <2>1 DEF ProcInv, CleanupHolds
  <2>3. /\ drain' \in [Processes -> [Slots -> [kind : Kinds \cup {None}, batch : Nat]]]
        /\ \A o \in Processes : o # p => drain'[o] = drain[o]
    BY <1>0, <2>1 DEF ProcInv, ProcTypes
  <2>4. drain'[p][1] = Off \/ drain'[p][2] = Off
    BY <1>0, <2>1, <2>2 DEF ProcInv, ProcTypes, Slots
  <2>5. /\ running' \in [Processes -> BOOLEAN] /\ running'[p] = TRUE
        /\ \A o \in Processes : o # p => running'[o] = running[o]
    BY <2>1 DEF ProcInv, ProcTypes
  <2>6. ProcTypes'
    BY <2>1, <2>3, <2>5 DEF ProcInv, ProcTypes
  <2>7. /\ p \in pool /\ Entries(proc[p].release) \subseteq history
    BY <2>1 DEF ProcInv, PoolHolds, SchemaHolds
  <2> QED BY <2>1, <2>3, <2>4, <2>5, <2>6, <2>7, ProcMoves
<1> QED BY <1>1, <1>2

\* A cleanup goes on or ends, and clears the flag when it ends.
LEMMA CleanupProceeds ==
  ASSUME ProcInv, NEW p \in Processes, NEW s \in Slots, history' = history, UNCHANGED procVars,
         NEW d \in [kind : Kinds \cup {None}, batch : Nat], drain[p][s] # Off,
         drain' = [drain EXCEPT ![p][s] = d],
         running' = [running EXCEPT ![p] = IF d = Off THEN FALSE ELSE @]
  PROVE  ProcInv'
<1>1. proc' = proc /\ pool' = pool /\ inflight' = inflight
  BY DEF procVars
<1>2. /\ drain' \in [Processes -> [Slots -> [kind : Kinds \cup {None}, batch : Nat]]]
      /\ \A o \in Processes : o # p => drain'[o] = drain[o]
      /\ drain'[p][s] = d /\ \A t \in Slots : t # s => drain'[p][t] = drain[p][t]
  BY DEF ProcInv, ProcTypes
<1>3. /\ running' \in [Processes -> BOOLEAN]
      /\ \A o \in Processes : o # p => running'[o] = running[o]
      /\ running'[p] = IF d = Off THEN FALSE ELSE running[p]
  BY DEF ProcInv, ProcTypes
<1>4. ProcTypes'
  BY <1>1, <1>2, <1>3 DEF ProcInv, ProcTypes
<1>5. /\ \A t \in Slots : t # s => drain'[p][t] = Off
      /\ proc[p].pc \notin {"down", "opened", "starting"}
      /\ proc[p].pc = "cleaning" => s = 1 /\ ~running[p]
      /\ proc[p].pc # "cleaning" => running[p]
  BY <1>2 DEF ProcInv, CleanupHolds, Slots
<1>6. /\ drain'[p][1] = Off \/ drain'[p][2] = Off
      /\ proc[p].pc = "cleaning" => drain'[p][2] = Off
      /\ d = Off => drain'[p][1] = Off /\ drain'[p][2] = Off
  BY <1>2, <1>5 DEF Slots
<1>7. /\ proc[p].pc = "cleaning" => ~running'[p]
      /\ proc[p].pc # "cleaning" /\ ~running'[p] => d = Off
  BY <1>3, <1>5
<1>8. /\ proc[p].pc \in {"starting", "cleaning", "serving", "stopping"} =>
           Entries(proc[p].release) \subseteq history
      /\ proc[p].pc \notin {"down", "closed", "unclosed"} => p \in pool
      /\ inflight[p] > 0 => proc[p].pc \in {"serving", "stopping"}
  BY DEF ProcInv, SchemaHolds, PoolHolds
<1> QED BY <1>1, <1>2, <1>3, <1>4, <1>5, <1>6, <1>7, <1>8, ProcMoves

LEMMA CleanupDrains ==
  ASSUME ProcInv, NEW p \in Processes, NEW s \in Slots, history' = history,
         DrainBatch(p, s) \/ DrainFails(p, s)
  PROVE  ProcInv'
<1>0. Off \in [kind : Kinds \cup {None}, batch : Nat]
  BY DEF Off
<1>1. CASE DrainBatch(p, s)
  <2> DEFINE d == After(drain[p][s], Least(BatchSize, garbage[drain[p][s].kind]))
  <2>1. drain[p][s] \in [kind : Kinds \cup {None}, batch : Nat]
    BY DEF ProcInv, ProcTypes
  <2>2. d \in [kind : Kinds \cup {None}, batch : Nat]
    BY <1>0, <2>1 DEF After, Kinds
  <2>3. /\ UNCHANGED procVars /\ drain[p][s] # Off
        /\ drain' = [drain EXCEPT ![p][s] = d]
        /\ running' = [running EXCEPT ![p] = IF d = Off THEN FALSE ELSE @]
    BY <1>1 DEF DrainBatch
  <2> HIDE DEF d
  <2> QED BY <2>2, <2>3, CleanupProceeds
<1>2. CASE DrainFails(p, s)
  <2>1. /\ UNCHANGED procVars /\ drain[p][s] # Off
        /\ drain' = [drain EXCEPT ![p][s] = Off]
        /\ running' = [running EXCEPT ![p] = IF Off = Off THEN FALSE ELSE @]
    BY <1>2 DEF DrainFails
  <2> QED BY <1>0, <2>1, CleanupProceeds
<1> QED BY <1>1, <1>2

LEMMA ProcInductive == ProcInv /\ [Next]_vars => ProcInv'
<1> SUFFICES ASSUME ProcInv, [Next]_vars
             PROVE  ProcInv'
  OBVIOUS
<1>0. history \subseteq history'
  BY HistoryStays
<1>1. CASE JobSteps
  <2>1. UNCHANGED <<procVars, running, drain>>
    BY <1>1 DEF JobSteps, JobLock, JobVerify, JobLook, JobRun, JobFails, JobEnds, drainVars
  <2> QED BY <1>0, <2>1, ProcUntouched
<1>2. CASE UNCHANGED vars
  BY <1>0, <1>2, ProcUntouched DEF vars, drainVars
<1>3. CASE \E k \in Kinds : Expire(k)
  BY <1>0, <1>3, ProcUntouched DEF Expire
<1>4. ASSUME NEW p \in Processes, \E r \in Releases : Open(p, r)
      PROVE  ProcInv'
  BY <1>4, ProcOpens DEF Open, jobVars
<1>5. ASSUME NEW p \in Processes,
             CheckSchema(p) \/ Serve(p) \/ Signal(p) \/ ServerClosed(p) \/ Close(p)
      PROVE  ProcInv'
  BY <1>5, ProcAdvances DEF CheckSchema, Serve, Signal, ServerClosed, Close, jobVars
<1>6. ASSUME NEW p \in Processes, StartCleanup(p) \/ Timer(p)
      PROVE  ProcInv'
  BY <1>6, CleanupStarts DEF StartCleanup, Timer, jobVars
<1>7. ASSUME NEW p \in Processes, NEW s \in Slots, DrainBatch(p, s) \/ DrainFails(p, s)
      PROVE  ProcInv'
  BY <1>7, CleanupDrains DEF DrainBatch, DrainFails, jobVars
<1>8. ASSUME NEW p \in Processes, Arrive(p) \/ Respond(p)
      PROVE  ProcInv'
  BY <1>8, ProcServes DEF Arrive, Respond, jobVars
<1>9. ASSUME NEW p \in Processes, Exit(p) \/ Forced(p) \/ Die(p)
      PROVE  ProcInv'
  BY <1>9, ProcGoes DEF Exit, Forced, Die, Gone, jobVars
<1> QED BY <1>1, <1>2, <1>3, <1>4, <1>5, <1>6, <1>7, <1>8, <1>9 DEF Next, JobSteps

\* A process that serves or still answers has every migration of its release under
\* it, its pool is open while a request is in flight, and its cleanups never overlap,
\* the awaited one of its start included (cleanupRunning in src/src/app.js).
THEOREM SoundProcesses == Spec => []ProcessesAreSound
<1>1. ProcInv => ProcessesAreSound
  <2> SUFFICES ASSUME ProcInv, NEW p \in Processes
               PROVE  /\ proc[p].pc \in {"serving", "stopping"} => Entries(proc[p].release) \subseteq history
                      /\ inflight[p] > 0 => p \in pool
                      /\ Cardinality({s \in Slots : drain[p][s] # Off}) <= 1
    BY DEF ProcessesAreSound
  <2>1. PICK s \in Slots : {t \in Slots : drain[p][t] # Off} \subseteq {s}
    BY DEF ProcInv, CleanupHolds, Slots
  <2>2. IsFiniteSet({s}) /\ Cardinality({s}) = 1
    BY FS_Singleton
  <2>3. /\ Cardinality({t \in Slots : drain[p][t] # Off}) <= Cardinality({s})
    BY <2>1, <2>2, FS_Subset
  <2>4. Cardinality({t \in Slots : drain[p][t] # Off}) <= 1
    BY <2>2, <2>3
  <2>5. inflight[p] > 0 => p \in pool
    BY DEF ProcInv, PoolHolds
  <2>6. proc[p].pc \in {"serving", "stopping"} => Entries(proc[p].release) \subseteq history
    BY DEF ProcInv, SchemaHolds
  <2> QED BY <2>4, <2>5, <2>6
<1> QED BY <1>1, ProcInitially, ProcInductive, PTL DEF Spec

----------------------------------------------------------------------------
(***************************************************************************)
(* AuditWriter, which every process has and its shutdown closes.           *)
(***************************************************************************)

\* What s lists, in some order and once each.
Lists(s, S) ==
  /\ s \in Seq(Events) /\ S \subseteq Events
  /\ \A i, j \in 1..Len(s) : s[i] = s[j] => i = j
  /\ \A e \in Events : e \in S <=> \E i \in 1..Len(s) : s[i] = e

In(stages) == {e \in Events : stage[e] \in stages}
Working == {"running", "writing", "rejected", "settled"}

\* The ring is where its indices say.
RingHolds ==
  Capacity # 0 =>
    /\ head < Capacity
    /\ tail = IF head + length < Capacity THEN head + length ELSE head + length - Capacity

\* Every event is in one place: the ring, the microtasks, or a write under way; and
\* nothing waits in the ring while there is a free slot.
WorkHolds ==
  /\ Lists(Queued, In({"queued"})) /\ Lists(jobs, In({"running"}))
  /\ IsFiniteSet(In(Working)) /\ Cardinality(In(Working)) = active
  /\ length # 0 => active = Concurrency

WriterTypes ==
  /\ items \in [0..(Capacity - 1) -> Events \cup {Undefined}]
  /\ head \in Nat /\ tail \in Nat /\ length \in 0..Capacity /\ active \in 0..Concurrency
  /\ stage \in [Events -> Stages]
  /\ accepted \in Seq(Events) /\ started \in Seq(Events)

WriterInv == WriterTypes /\ RingHolds /\ WorkHolds /\ InOrder

----------------------------------------------------------------------------
(* Lists                                                                   *)

LEMMA Regroup == \A s, t, u \in Seq(Events) : (s \o t) \o u = s \o (t \o u)
BY ConcatAssociative

LEMMA ListsIntro ==
  ASSUME NEW s \in Seq(Events), NEW S \in SUBSET Events, NEW n \in Nat, Len(s) = n,
         \A i, j \in 1..n : s[i] = s[j] => i = j,
         \A i \in 1..n : s[i] \in S,
         \A f \in S : \E i \in 1..n : s[i] = f
  PROVE  Lists(s, S)
BY DEF Lists

LEMMA ListsAppend ==
  ASSUME NEW s, NEW S, Lists(s, S), NEW e \in Events, e \notin S
  PROVE  Lists(Append(s, e), S \cup {e})
<1>1. s \in Seq(Events) /\ Len(s) \in Nat
  BY DEF Lists
<1>2. /\ Append(s, e) \in Seq(Events) /\ Len(Append(s, e)) = Len(s) + 1
      /\ \A i \in 1..Len(s) : Append(s, e)[i] = s[i]
      /\ Append(s, e)[Len(s) + 1] = e
  BY <1>1, AppendProperties
<1>3. \A i \in 1..Len(s) : s[i] \in S /\ s[i] # e
  BY <1>1 DEF Lists
<1>4. \A i, j \in 1..(Len(s) + 1) : Append(s, e)[i] = Append(s, e)[j] => i = j
  BY <1>1, <1>2, <1>3 DEF Lists
<1>5. ASSUME NEW f \in Events
      PROVE  f \in S \cup {e} <=> \E i \in 1..(Len(s) + 1) : Append(s, e)[i] = f
  <2>1. CASE f = e
    BY <1>1, <1>2, <2>1
  <2>2. CASE f # e
    <3>1. f \in S <=> \E i \in 1..Len(s) : s[i] = f
      BY DEF Lists
    <3>2. ASSUME NEW i \in 1..(Len(s) + 1), Append(s, e)[i] = f PROVE \E j \in 1..Len(s) : s[j] = f
      <4>1. i # Len(s) + 1
        BY <1>2, <2>2, <3>2
      <4> QED BY <1>1, <1>2, <3>2, <4>1
    <3>3. ASSUME NEW i \in 1..Len(s), s[i] = f PROVE \E j \in 1..(Len(s) + 1) : Append(s, e)[j] = f
      BY <1>1, <1>2, <3>3
    <3> QED BY <2>2, <3>1, <3>2, <3>3
  <2> QED BY <2>1, <2>2
<1> QED BY <1>2, <1>4, <1>5 DEF Lists

LEMMA ListsConcat ==
  ASSUME NEW s, NEW S, NEW t, NEW T, Lists(s, S), Lists(t, T), S \cap T = {}
  PROVE  Lists(s \o t, S \cup T)
<1> DEFINE u == s \o t
<1>1. s \in Seq(Events) /\ t \in Seq(Events) /\ Len(s) \in Nat /\ Len(t) \in Nat
  BY DEF Lists
<1>2. /\ u \in Seq(Events) /\ Len(u) = Len(s) + Len(t)
      /\ \A i \in 1..Len(s) : u[i] = s[i]
      /\ \A i \in 1..Len(t) : u[Len(s) + i] = t[i]
      /\ \A i \in (Len(s) + 1)..Len(u) : u[i] = t[i - Len(s)]
  BY <1>1, ConcatProperties
<1> HIDE DEF u
<1>3. (\A i \in 1..Len(s) : s[i] \in S) /\ (\A i \in 1..Len(t) : t[i] \in T)
  BY <1>1 DEF Lists
<1>4. ASSUME NEW i \in 1..Len(u), NEW j \in 1..Len(u), u[i] = u[j] PROVE i = j
  <2>1. CASE i \in 1..Len(s) /\ j \in 1..Len(s)
    BY <1>2, <1>4, <2>1 DEF Lists
  <2>2. CASE i \notin 1..Len(s) /\ j \notin 1..Len(s)
    <3>1. i - Len(s) \in 1..Len(t) /\ j - Len(s) \in 1..Len(t)
      BY <1>1, <1>2, <2>2
    <3>2. t[i - Len(s)] = t[j - Len(s)]
      BY <1>1, <1>2, <1>4, <2>2
    <3>3. i - Len(s) = j - Len(s)
      BY <3>1, <3>2 DEF Lists
    <3> QED BY <1>1, <1>2, <3>3
  <2>3. CASE i \in 1..Len(s) /\ j \notin 1..Len(s)
    <3>1. j - Len(s) \in 1..Len(t) /\ u[j] = t[j - Len(s)] /\ u[i] = s[i]
      BY <1>1, <1>2, <2>3
    <3> QED BY <1>3, <1>4, <2>3, <3>1
  <2>4. CASE i \notin 1..Len(s) /\ j \in 1..Len(s)
    <3>1. i - Len(s) \in 1..Len(t) /\ u[i] = t[i - Len(s)] /\ u[j] = s[j]
      BY <1>1, <1>2, <2>4
    <3> QED BY <1>3, <1>4, <2>4, <3>1
  <2> QED BY <2>1, <2>2, <2>3, <2>4
<1>5. ASSUME NEW f \in Events PROVE f \in S \cup T <=> \E i \in 1..Len(u) : u[i] = f
  <2>1. ASSUME NEW i \in 1..Len(u), u[i] = f PROVE f \in S \cup T
    <3>1. CASE i \in 1..Len(s)
      BY <1>2, <1>3, <2>1, <3>1
    <3>2. CASE i \notin 1..Len(s)
      <4>1. i - Len(s) \in 1..Len(t) /\ u[i] = t[i - Len(s)]
        BY <1>1, <1>2, <3>2
      <4> QED BY <1>3, <2>1, <4>1
    <3> QED BY <3>1, <3>2
  <2>2. ASSUME f \in S PROVE \E i \in 1..Len(u) : u[i] = f
    <3>1. PICK i \in 1..Len(s) : s[i] = f
      BY <2>2 DEF Lists
    <3> QED BY <1>1, <1>2, <3>1
  <2>3. ASSUME f \in T PROVE \E i \in 1..Len(u) : u[i] = f
    <3>1. PICK i \in 1..Len(t) : t[i] = f
      BY <2>3 DEF Lists
    <3>2. Len(s) + i \in 1..Len(u) /\ u[Len(s) + i] = f
      BY <1>1, <1>2, <3>1
    <3> QED BY <3>2
  <2> QED BY <2>1, <2>2, <2>3
<1>6. S \cup T \subseteq Events
  BY DEF Lists
<1> QED BY <1>2, <1>4, <1>5, <1>6 DEF Lists, u

\* The first n of a list, and the rest.
Front(s, n) == SubSeq(s, 1, n)
Rest(s, n) == SubSeq(s, n + 1, Len(s))
Firsts(s, n) == {s[i] : i \in 1..n}

LEMMA ListsSplit ==
  ASSUME NEW s, NEW S, Lists(s, S), NEW n \in 0..Len(s)
  PROVE  /\ Lists(Front(s, n), Firsts(s, n)) /\ Lists(Rest(s, n), S \ Firsts(s, n))
         /\ Firsts(s, n) \subseteq S
         /\ Len(Front(s, n)) = n /\ \A i \in 1..n : Front(s, n)[i] = s[i]
         /\ s = Front(s, n) \o Rest(s, n)
<1> DEFINE first == SubSeq(s, 1, n)
           rest == SubSeq(s, n + 1, Len(s))
           F == {s[i] : i \in 1..n}
<1>1. s \in Seq(Events) /\ Len(s) \in Nat /\ n \in Nat /\ n <= Len(s)
  BY DEF Lists
<1>2. \A i \in 1..Len(s) : s[i] \in Events /\ s[i] \in S
  BY <1>1 DEF Lists
<1>3. /\ first \in Seq(Events) /\ Len(first) = n
      /\ \A i \in 1..n : first[i] = s[i]
  <2>1. \A i \in 1..n : s[i] \in Events
    BY <1>1, <1>2
  <2> QED BY <1>1, <2>1, SubSeqProperties
<1>4. /\ rest \in Seq(Events) /\ Len(rest) = Len(s) - n
      /\ \A i \in 1..(Len(s) - n) : rest[i] = s[n + i]
  <2>1. \A i \in (n + 1)..Len(s) : s[i] \in Events
    BY <1>1, <1>2
  <2>2. n + 1 \in Int /\ Len(s) \in Int
    BY <1>1
  <2>3. /\ rest \in Seq(Events)
        /\ Len(rest) = IF n + 1 <= Len(s) THEN Len(s) - (n + 1) + 1 ELSE 0
        /\ \A i \in 1..Len(rest) : rest[i] = s[n + 1 + i - 1]
    BY <2>1, <2>2, SubSeqProperties
  <2> QED BY <1>1, <2>3
<1> HIDE DEF first, rest
<1>5. F \subseteq S /\ S \subseteq Events
  BY <1>1, <1>2 DEF Lists
<1>6. Lists(first, F)
  <2>1. \A i, j \in 1..n : s[i] = s[j] => i = j
    BY <1>1 DEF Lists
  <2>2. (\A i \in 1..n : s[i] \in F) /\ \A f \in F : \E i \in 1..n : s[i] = f
    OBVIOUS
  <2>3. F \in SUBSET Events
    BY <1>5
  <2> HIDE DEF F
  <2>4. /\ \A i, j \in 1..n : first[i] = first[j] => i = j
        /\ \A i \in 1..n : first[i] \in F
        /\ \A f \in F : \E i \in 1..n : first[i] = f
    BY <1>3, <2>1, <2>2
  <2> QED BY <1>1, <1>3, <2>3, <2>4, ListsIntro
<1>7. Lists(rest, S \ F)
  <2>1. ASSUME NEW i \in 1..(Len(s) - n), NEW j \in 1..(Len(s) - n), rest[i] = rest[j] PROVE i = j
    <3>1. n + i \in 1..Len(s) /\ n + j \in 1..Len(s) /\ s[n + i] = s[n + j]
      BY <1>1, <1>4, <2>1
    <3>2. n + i = n + j
      BY <3>1 DEF Lists
    <3> QED BY <1>1, <3>2
  <2>2. ASSUME NEW i \in 1..(Len(s) - n) PROVE rest[i] \in S \ F
    <3>1. n + i \in 1..Len(s) /\ rest[i] = s[n + i]
      BY <1>1, <1>4
    <3>2. \A j \in 1..n : j \in 1..Len(s) /\ j # n + i
      BY <1>1
    <3>3. \A j \in 1..n : s[j] # s[n + i]
      BY <3>1, <3>2 DEF Lists
    <3> QED BY <1>2, <3>1, <3>3
  <2>3. ASSUME NEW f \in S \ F PROVE \E i \in 1..(Len(s) - n) : rest[i] = f
    <3>1. PICK j \in 1..Len(s) : s[j] = f
      BY <1>5 DEF Lists
    <3>2. j \notin 1..n
      BY <3>1
    <3>3. j - n \in 1..(Len(s) - n) /\ n + (j - n) = j
      BY <1>1, <3>2
    <3>4. rest[j - n] = s[n + (j - n)]
      BY <1>4, <3>3
    <3> QED BY <3>1, <3>3, <3>4
  <2>4. S \ F \in SUBSET Events /\ Len(s) - n \in Nat
    BY <1>1, <1>5
  <2> QED BY <1>4, <2>1, <2>2, <2>3, <2>4, ListsIntro
<1>8. s = first \o rest
  <2>1. /\ first \o rest \in Seq(Events) /\ Len(first \o rest) = Len(s)
        /\ \A i \in 1..Len(s) : (first \o rest)[i] = IF i <= n THEN first[i] ELSE rest[i - n]
    BY <1>1, <1>3, <1>4, ConcatProperties
  <2>2. ASSUME NEW i \in 1..Len(s) PROVE (first \o rest)[i] = s[i]
    <3>1. CASE i <= n
      BY <1>1, <1>3, <2>1, <3>1
    <3>2. CASE i > n
      <4>1. i - n \in 1..(Len(s) - n) /\ n + (i - n) = i
        BY <1>1, <3>2
      <4>2. rest[i - n] = s[n + (i - n)]
        BY <1>4, <4>1
      <4> QED BY <1>1, <2>1, <3>2, <4>1, <4>2
    <3>3. i <= n \/ i > n
      BY <1>1
    <3> QED BY <3>1, <3>2, <3>3
  <2> QED BY <1>1, <2>1, <2>2, SeqEqual
<1> HIDE DEF F
<1>9. first = Front(s, n) /\ rest = Rest(s, n) /\ F = Firsts(s, n)
  BY DEF first, rest, F, Front, Rest, Firsts
<1> QED BY <1>3, <1>5, <1>6, <1>7, <1>8, <1>9

\* A list has as many entries as there are things on it.
LEMMA ListsCount ==
  ASSUME NEW s, NEW S, Lists(s, S)
  PROVE  IsFiniteSet(S) /\ Cardinality(S) = Len(s)
<1>1. s \in Seq(Events) /\ Len(s) \in Nat /\ s \in [1..Len(s) -> Events]
  BY LenProperties DEF Lists
<1>2. s \in [1..Len(s) -> S]
  BY <1>1 DEF Lists
<1>3. s \in Bijection(1..Len(s), S)
  BY <1>2 DEF Lists, Bijection, Injection, Surjection, IsInjective
<1>4. ExistsBijection(1..Len(s), S)
  BY <1>3 DEF ExistsBijection
<1>5. IsFiniteSet(1..Len(s)) /\ Cardinality(1..Len(s)) = Len(s)
  BY <1>1, FS_Interval
<1> QED BY <1>4, <1>5, FS_Bijection

----------------------------------------------------------------------------
(* The ring                                                                *)

LEMMA Wrap ==
  ASSUME NEW n \in Nat \ {0}, NEW x \in Nat, x < 2 * n
  PROVE  x % n = IF x < n THEN x ELSE x - n
<1>1. CASE x < n
  BY <1>1
<1>2. CASE x >= n
  BY <1>2
<1> QED BY <1>1, <1>2

LEMMA SameLength == ASSUME NEW m \in Nat, NEW n \in Nat, 1..m = 1..n PROVE m = n
<1>1. m \in 1..m \/ m = 0
  OBVIOUS
<1>2. n \in 1..n \/ n = 0
  OBVIOUS
<1> QED BY <1>1, <1>2

LEMMA SlotIs ==
  ASSUME WriterTypes, RingHolds, NEW i \in 1..Capacity
  PROVE  /\ Slot(i) = IF head + i - 1 < Capacity THEN head + i - 1
                                                     ELSE head + i - 1 - Capacity
         /\ Slot(i) \in 0..(Capacity - 1)
<1>1. Capacity \in Nat \ {0} /\ head \in Nat /\ head < Capacity /\ i \in Nat /\ i >= 1 /\ i <= Capacity
  BY WriterAssumption DEF WriterTypes, RingHolds
<1> DEFINE x == head + i - 1
<1>2. x \in Nat /\ x < 2 * Capacity
  BY <1>1
<1>3. Slot(i) = x % Capacity
  BY DEF Slot
<1>4. x % Capacity = IF x < Capacity THEN x ELSE x - Capacity
  BY <1>1, <1>2, Wrap
<1> QED BY <1>1, <1>2, <1>3, <1>4

LEMMA QueueLength ==
  ASSUME WriterTypes, Queued \in Seq(Events)
  PROVE  /\ length \in Nat /\ Len(Queued) = length
         /\ \A i \in 1..length : Queued[i] = items[Slot(i)]
<1>1. length \in Nat
  BY WriterAssumption DEF WriterTypes
<1>2. DOMAIN Queued = 1..length
  BY DEF Queued
<1>3. Len(Queued) \in Nat /\ DOMAIN Queued = 1..Len(Queued)
  BY LenProperties
<1>4. Len(Queued) = length
  BY <1>1, <1>2, <1>3, SameLength
<1> QED BY <1>1, <1>4 DEF Queued

LEMMA PushQueue ==
  ASSUME WriterTypes, RingHolds, Queued \in Seq(Events),
         NEW e \in Events, Push(e), length # Capacity
  PROVE  /\ Queued' = Append(Queued, e) /\ RingHolds'
         /\ items' \in [0..(Capacity - 1) -> Events \cup {Undefined}]
         /\ tail' \in Nat /\ length' \in 0..Capacity /\ length' = length + 1 /\ head' = head
<1>1. /\ Capacity \in Nat \ {0} /\ head \in Nat /\ head < Capacity
      /\ length \in Nat /\ length < Capacity
      /\ tail = IF head + length < Capacity THEN head + length ELSE head + length - Capacity
  BY WriterAssumption DEF WriterTypes, RingHolds
<1>2. tail \in 0..(Capacity - 1)
  BY <1>1
<1>3. head' = head /\ length' = length + 1 /\ items' = [items EXCEPT ![tail] = e]
  BY DEF Push
<1>4. tail' = IF tail + 1 < Capacity THEN tail + 1 ELSE tail + 1 - Capacity
  <2> DEFINE x == tail + 1
  <2>1. x \in Nat /\ x < 2 * Capacity
    BY <1>1, <1>2
  <2>2. tail' = x % Capacity
    BY DEF Push
  <2> HIDE DEF x
  <2>3. tail' = IF x < Capacity THEN x ELSE x - Capacity
    BY <1>1, <2>1, <2>2, Wrap
  <2> QED BY <1>1, <1>2, <2>3 DEF x
<1>5. RingHolds'
  BY <1>1, <1>3, <1>4 DEF RingHolds
<1>6. items' \in [0..(Capacity - 1) -> Events \cup {Undefined}]
  BY <1>2, <1>3 DEF WriterTypes
<1>7. tail' \in Nat /\ length' \in 0..Capacity
  BY <1>1, <1>2, <1>3, <1>4
<1>8. Queued' = Append(Queued, e)
  <2> DEFINE q == Queued
  <2>1. Len(q) = length /\ \A i \in 1..length : q[i] = items[Slot(i)]
    BY QueueLength
  <2>2. \A i \in 1..Capacity :
          /\ Slot(i) = IF head + i - 1 < Capacity THEN head + i - 1 ELSE head + i - 1 - Capacity
          /\ Slot(i) \in 0..(Capacity - 1)
    BY SlotIs
  <2>3. Queued' = [i \in 1..(length + 1) |-> items'[Slot(i)]]
    BY <1>3 DEF Queued, Slot
  <2>4. Append(q, e) \in Seq(Events) /\ Len(Append(q, e)) = length + 1
        /\ (\A i \in 1..length : Append(q, e)[i] = q[i]) /\ Append(q, e)[length + 1] = e
    BY <2>1, AppendProperties
  <2> HIDE DEF q
  <2>5. Append(q, e) = [i \in 1..(length + 1) |-> Append(q, e)[i]]
    <3>1. Append(q, e) \in [1..(length + 1) -> Events]
      BY <2>4, LenProperties
    <3> QED BY <3>1
  <2>6. ASSUME NEW i \in 1..(length + 1) PROVE items'[Slot(i)] = Append(q, e)[i]
    <3>1. /\ i \in 1..Capacity
          /\ Slot(i) = IF head + i - 1 < Capacity THEN head + i - 1 ELSE head + i - 1 - Capacity
          /\ Slot(i) \in 0..(Capacity - 1)
      BY <1>1, <2>2
    <3>2. items \in [0..(Capacity - 1) -> Events \cup {Undefined}]
      BY DEF WriterTypes
    <3>3. CASE i = length + 1
      <4>1. Slot(i) = tail
        BY <1>1, <3>1, <3>3
      <4> QED BY <1>2, <1>3, <2>4, <3>2, <3>3, <4>1
    <3>4. CASE i # length + 1
      <4>1. i \in 1..length
        BY <1>1, <3>4
      <4>2. Slot(i) # tail
        BY <1>1, <3>1, <4>1
      <4>3. items'[Slot(i)] = items[Slot(i)]
        BY <1>3, <3>1, <3>2, <4>2
      <4> QED BY <2>1, <2>4, <4>1, <4>3
    <3> QED BY <3>3, <3>4
  <2>7. [i \in 1..(length + 1) |-> items'[Slot(i)]] = [i \in 1..(length + 1) |-> Append(q, e)[i]]
    BY <2>6
  <2> QED BY <2>3, <2>5, <2>7 DEF q
<1> QED BY <1>3, <1>5, <1>6, <1>7, <1>8

LEMMA ShiftQueue ==
  ASSUME WriterTypes, RingHolds, Queued \in Seq(Events),
         NEW n \in 0..length, Shift(n)
  PROVE  /\ Queued' = SubSeq(Queued, n + 1, length) /\ RingHolds'
         /\ items' \in [0..(Capacity - 1) -> Events \cup {Undefined}]
         /\ head' \in Nat /\ length' \in 0..Capacity /\ length' = length - n /\ tail' = tail
<1>1. Capacity \in Nat /\ head \in Nat /\ tail \in Nat /\ length \in Nat /\ length <= Capacity
      /\ n \in Nat /\ n <= length
  BY WriterAssumption DEF WriterTypes
<1>2. items \in [0..(Capacity - 1) -> Events \cup {Undefined}] /\ DOMAIN items = 0..(Capacity - 1)
  BY DEF WriterTypes
<1>3. /\ items' = [j \in DOMAIN items |-> IF \E i \in 1..n : j = Slot(i) THEN Undefined ELSE items[j]]
      /\ length' = length - n /\ tail' = tail
  BY DEF Shift
<1>4. items' \in [0..(Capacity - 1) -> Events \cup {Undefined}]
  BY <1>2, <1>3
<1>5. length' \in 0..Capacity
  BY <1>1, <1>3
<1>6. head' \in Nat /\ (Capacity # 0 =>
        head' = IF head + n < Capacity THEN head + n ELSE head + n - Capacity)
  <2>1. CASE n = 0
    BY <1>1, <2>1 DEF Shift, RingHolds
  <2>2. CASE n # 0
    <3>1. Capacity \in Nat \ {0} /\ head < Capacity
      BY <1>1, <2>2 DEF RingHolds
    <3> DEFINE x == head + n
    <3>2. x \in Nat /\ x < 2 * Capacity
      BY <1>1, <3>1
    <3>3. head' = x % Capacity
      BY <2>2 DEF Shift
    <3> HIDE DEF x
    <3>4. head' = IF x < Capacity THEN x ELSE x - Capacity
      BY <3>1, <3>2, <3>3, Wrap
    <3> QED BY <1>1, <3>1, <3>2, <3>4 DEF x
  <2> QED BY <2>1, <2>2
<1>7. RingHolds'
  <2> SUFFICES ASSUME Capacity # 0
               PROVE  /\ head' < Capacity
                      /\ tail' = IF head' + length' < Capacity THEN head' + length'
                                                              ELSE head' + length' - Capacity
    BY DEF RingHolds
  <2>1. /\ head < Capacity
        /\ tail = IF head + length < Capacity THEN head + length ELSE head + length - Capacity
    BY DEF RingHolds
  <2>2. head' = IF head + n < Capacity THEN head + n ELSE head + n - Capacity
    BY <1>6
  <2> QED BY <1>1, <1>3, <2>1, <2>2
<1>8. Queued' = SubSeq(Queued, n + 1, length)
  <2> DEFINE q == Queued
             rest == SubSeq(q, n + 1, length)
  <2>1. Len(q) = length /\ q \in Seq(Events) /\ \A i \in 1..length : q[i] = items[Slot(i)]
    BY QueueLength
  <2>3. Queued' = [i \in 1..(length - n) |-> items'[(head' + i - 1) % Capacity]]
    BY <1>3 DEF Queued, Slot
  <2>4. /\ rest \in Seq(Events) /\ Len(rest) = length - n
        /\ \A i \in 1..(length - n) : rest[i] = q[n + i]
    <3>1. \A i \in (n + 1)..length : q[i] \in Events
      BY <1>1, <2>1, ElementOfSeq
    <3>2. n + 1 \in Int /\ length \in Int
      BY <1>1
    <3>3. /\ rest \in Seq(Events)
          /\ Len(rest) = IF n + 1 <= length THEN length - (n + 1) + 1 ELSE 0
          /\ \A i \in 1..Len(rest) : rest[i] = q[n + 1 + i - 1]
      BY <3>1, <3>2, SubSeqProperties
    <3>4. Len(rest) = length - n
      BY <1>1, <3>3
    <3>5. ASSUME NEW i \in 1..(length - n) PROVE rest[i] = q[n + i]
      <4>1. n + 1 + i - 1 = n + i
        BY <1>1
      <4> QED BY <3>3, <3>4, <4>1
    <3> QED BY <3>3, <3>4, <3>5
  <2> HIDE DEF q, rest
  <2>5. rest = [i \in 1..(length - n) |-> rest[i]]
    <3>1. rest \in [1..(length - n) -> Events]
      BY <2>4, LenProperties
    <3> QED BY <3>1
  <2>6. ASSUME NEW i \in 1..(length - n) PROVE items'[(head' + i - 1) % Capacity] = rest[i]
    <3>1. /\ Capacity \in Nat \ {0} /\ head < Capacity /\ n + i \in 1..Capacity /\ n + i \in 1..length
          /\ i \in Nat /\ i >= 1
      BY <1>1 DEF RingHolds
    <3>2. /\ Slot(n + i) = IF head + (n + i) - 1 < Capacity THEN head + (n + i) - 1
                                                                ELSE head + (n + i) - 1 - Capacity
          /\ Slot(n + i) \in 0..(Capacity - 1)
      BY <3>1, SlotIs
    <3>3. (head' + i - 1) % Capacity = Slot(n + i)
      <4> DEFINE x == head' + i - 1
      <4>1. /\ head' = IF head + n < Capacity THEN head + n ELSE head + n - Capacity
            /\ n + i <= Capacity
        BY <1>6, <3>1
      <4>2. x \in Nat /\ x < 2 * Capacity
        BY <1>1, <1>6, <3>1, <4>1
      <4>3. x % Capacity = IF x < Capacity THEN x ELSE x - Capacity
        BY <3>1, <4>2, Wrap
      <4> QED BY <1>1, <3>1, <3>2, <4>1, <4>3
    <3>4. ASSUME NEW j \in 1..n PROVE Slot(n + i) # Slot(j)
      <4>1. j \in 1..Capacity /\ j \in Nat /\ j >= 1 /\ j <= n
        BY <1>1
      <4>2. Slot(j) = IF head + j - 1 < Capacity THEN head + j - 1 ELSE head + j - 1 - Capacity
        BY <4>1, SlotIs
      <4> QED BY <1>1, <3>1, <3>2, <4>1, <4>2
    <3>5. items'[Slot(n + i)] = items[Slot(n + i)]
      BY <1>2, <1>3, <3>2, <3>4
    <3> QED BY <2>1, <2>4, <3>1, <3>3, <3>5
  <2>7. [i \in 1..(length - n) |-> items'[(head' + i - 1) % Capacity]] = [i \in 1..(length - n) |-> rest[i]]
    BY <2>6
  <2> QED BY <2>3, <2>5, <2>7 DEF rest, q
<1> QED BY <1>3, <1>4, <1>5, <1>6, <1>7, <1>8

----------------------------------------------------------------------------
(* The writer: one lemma per callback                                      *)

\* Nothing accepted and nothing moved on: the queue and the microtasks are as they were,
\* and the same events hold the slots.
LEMMA WriterStays ==
  ASSUME WriterInv, UNCHANGED <<items, head, tail, length, active, jobs, accepted, started>>,
         stage' \in [Events -> Stages],
         In({"queued"})' = In({"queued"}), In({"running"})' = In({"running"}),
         In(Working)' = In(Working)
  PROVE  WriterInv'
<1>1. Queued' = Queued
  BY DEF Queued, Slot
<1>2. WriterTypes' /\ RingHolds'
  BY DEF WriterInv, WriterTypes, RingHolds
<1>3. Lists(Queued, In({"queued"}))' /\ Lists(jobs, In({"running"}))'
  BY <1>1 DEF WriterInv, WorkHolds, Lists
<1>4. WorkHolds'
  BY <1>3 DEF WriterInv, WorkHolds
<1>5. InOrder'
  BY <1>1 DEF WriterInv, InOrder
<1> QED BY <1>2, <1>4, <1>5 DEF WriterInv

\* An event goes from one place to another that is no queue and no slot, or is written.
LEMMA StageMoves ==
  ASSUME WriterInv, UNCHANGED <<items, head, tail, length, active, jobs, accepted, started>>,
         NEW e \in Events, NEW x \in Stages, stage' = [stage EXCEPT ![e] = x],
         \/ {stage[e], x} \subseteq {"new", "dropped", "sampled"}
         \/ {stage[e], x} \subseteq {"writing", "rejected", "settled"}
  PROVE  WriterInv'
<1>1. stage \in [Events -> Stages] /\ stage' \in [Events -> Stages]
  BY DEF WriterInv, WriterTypes
<1>2. \A f \in Events : stage'[f] = IF f = e THEN x ELSE stage[f]
  BY <1>1
<1>3. /\ In({"queued"})' = In({"queued"}) /\ In({"running"})' = In({"running"})
      /\ In(Working)' = In(Working)
  BY <1>2 DEF In, Working
<1> QED BY <1>1, <1>3, WriterStays

\* An event is accepted: into a free slot, and then nothing is queued, or into the ring.
LEMMA TakenIn ==
  ASSUME WriterInv, NEW e \in Events, stage[e] = "new",
         active < Concurrency, active' = active + 1, jobs' = Append(jobs, e),
         stage' = [stage EXCEPT ![e] = "running"], UNCHANGED <<items, head, tail, length, started>>,
         accepted' = Append(accepted, e)
  PROVE  WriterInv'
<1>1. /\ stage \in [Events -> Stages] /\ active \in Nat /\ Concurrency \in Nat
      /\ accepted \in Seq(Events) /\ started \in Seq(Events) /\ jobs \in Seq(Events)
      /\ Queued \in Seq(Events)
  BY WriterAssumption DEF WriterInv, WriterTypes, WorkHolds, Lists
<1>2. \A f \in Events : stage'[f] = IF f = e THEN "running" ELSE stage[f]
  BY <1>1
<1>3. /\ In({"queued"})' = In({"queued"}) /\ In({"running"})' = In({"running"}) \cup {e}
      /\ In(Working)' = In(Working) \cup {e} /\ e \notin In({"running"}) /\ e \notin In(Working)
  BY <1>2 DEF In, Working
<1>4. length = 0 /\ Queued = << >>
  <2>1. length = 0
    BY <1>1 DEF WriterInv, WorkHolds
  <2>2. Len(Queued) = 0
    BY <1>1, <2>1, QueueLength DEF WriterInv
  <2> QED BY <1>1, <2>1, <2>2, EmptySeq
<1>5. Queued' = Queued
  BY DEF Queued, Slot
<1>6. WriterTypes' /\ RingHolds'
  <2>1. stage' \in [Events -> Stages]
    BY <1>1 DEF Stages
  <2>2. active' \in 0..Concurrency
    BY <1>1
  <2>3. accepted' \in Seq(Events)
    BY <1>1, AppendProperties
  <2> QED BY <2>1, <2>2, <2>3 DEF WriterInv, WriterTypes, RingHolds
<1>7. WorkHolds'
  <2>1. Lists(jobs', In({"running"})')
    BY <1>3, ListsAppend DEF WriterInv, WorkHolds
  <2>2. Lists(Queued', In({"queued"})')
    BY <1>3, <1>5 DEF WriterInv, WorkHolds
  <2>3. IsFiniteSet(In(Working)') /\ Cardinality(In(Working)') = active'
    BY <1>3, FS_AddElement DEF WriterInv, WorkHolds
  <2>4. length' = 0
    BY <1>4
  <2> QED BY <2>1, <2>2, <2>3, <2>4 DEF WorkHolds, Lists
<1>8. InOrder'
  <2>1. accepted = started \o jobs
    <3>1. accepted = (started \o jobs) \o << >>
      BY <1>4 DEF WriterInv, InOrder
    <3>2. started \o jobs \in Seq(Events)
      BY <1>1, ConcatProperties
    <3> QED BY <3>1, <3>2, ConcatEmptySeq
  <2>2. Append(started \o jobs, e) = started \o Append(jobs, e)
    <3>1. Append(started \o jobs, e) = (started \o jobs) \o <<e>>
      BY <1>1, ConcatProperties, AppendIsConcat
    <3>2. Append(jobs, e) = jobs \o <<e>> /\ <<e>> \in Seq(Events)
      BY <1>1, AppendIsConcat
    <3> QED BY <1>1, <3>1, <3>2, ConcatAssociative
  <2>3. started \o Append(jobs, e) \in Seq(Events)
    BY <1>1, ConcatProperties, AppendProperties
  <2>4. accepted' = (started \o Append(jobs, e)) \o << >>
    BY <2>1, <2>2, <2>3, ConcatEmptySeq
  <2> QED BY <1>4, <1>5, <2>4 DEF InOrder
<1> QED BY <1>6, <1>7, <1>8 DEF WriterInv

LEMMA QueuedUp ==
  ASSUME WriterInv, NEW e \in Events, stage[e] = "new",
         active >= Concurrency, length # Capacity, Push(e),
         stage' = [stage EXCEPT ![e] = "queued"], UNCHANGED <<active, jobs, started>>,
         accepted' = Append(accepted, e)
  PROVE  WriterInv'
<1>1. /\ stage \in [Events -> Stages] /\ active \in 0..Concurrency /\ Concurrency \in Nat
      /\ accepted \in Seq(Events) /\ started \in Seq(Events) /\ jobs \in Seq(Events)
      /\ Queued \in Seq(Events)
  BY WriterAssumption DEF WriterInv, WriterTypes, WorkHolds, Lists
<1>2. \A f \in Events : stage'[f] = IF f = e THEN "queued" ELSE stage[f]
  BY <1>1
<1>3. /\ In({"queued"})' = In({"queued"}) \cup {e} /\ In({"running"})' = In({"running"})
      /\ In(Working)' = In(Working) /\ e \notin In({"queued"})
  BY <1>2 DEF In, Working
<1>4. /\ Queued' = Append(Queued, e) /\ RingHolds'
      /\ items' \in [0..(Capacity - 1) -> Events \cup {Undefined}]
      /\ tail' \in Nat /\ length' \in 0..Capacity /\ length' = length + 1 /\ head' = head
  BY <1>1, PushQueue DEF WriterInv
<1>5. WriterTypes'
  <2>1. stage' \in [Events -> Stages]
    BY <1>1 DEF Stages
  <2>2. accepted' \in Seq(Events)
    BY <1>1, AppendProperties
  <2> QED BY <1>4, <2>1, <2>2 DEF WriterInv, WriterTypes
<1>6. WorkHolds'
  <2>1. Lists(Queued', In({"queued"})')
    BY <1>3, <1>4, ListsAppend DEF WriterInv, WorkHolds
  <2>2. active' = Concurrency
    BY <1>1
  <2> QED BY <1>3, <2>1, <2>2 DEF WriterInv, WorkHolds, Lists
<1>7. InOrder'
  <2> DEFINE s == started \o jobs
             q == Queued
  <2>1. s \in Seq(Events) /\ q \in Seq(Events) /\ s \o q \in Seq(Events) /\ <<e>> \in Seq(Events)
    BY <1>1, ConcatProperties
  <2>2. accepted = s \o q
    BY DEF WriterInv, InOrder
  <2> HIDE DEF s, q
  <2>3. Append(s \o q, e) = s \o Append(q, e)
    <3>1. Append(s \o q, e) = (s \o q) \o <<e>>
      BY <2>1, AppendIsConcat
    <3>2. Append(q, e) = q \o <<e>>
      BY <2>1, AppendIsConcat
    <3> QED BY <2>1, <3>1, <3>2, ConcatAssociative
  <2>4. accepted' = s \o Append(q, e)
    BY <2>2, <2>3
  <2> QED BY <1>4, <2>4 DEF InOrder, s, q
<1> QED BY <1>4, <1>5, <1>6, <1>7 DEF WriterInv

LEMMA StartWriteKeeps ==
  ASSUME WriterInv, StartWrite PROVE WriterInv'
<1> DEFINE e == Head(jobs)
<1>1. /\ jobs \in Seq(Events) /\ jobs # << >> /\ Len(jobs) \in Nat \ {0} /\ jobs' = Tail(jobs)
      /\ accepted \in Seq(Events) /\ started \in Seq(Events) /\ Queued \in Seq(Events)
      /\ Lists(jobs, In({"running"})) /\ stage \in [Events -> Stages]
  BY EmptySeq DEF WriterInv, WriterTypes, WorkHolds, Lists, StartWrite
<1>2. e \in Events /\ e = jobs[1] /\ Tail(jobs) \in Seq(Events) /\ Tail(jobs) = SubSeq(jobs, 2, Len(jobs))
  BY <1>1, HeadTailProperties, TailIsSubSeq
<1>3. /\ UNCHANGED <<items, head, tail, length, active, accepted>>
      /\ stage' = [stage EXCEPT ![e] = "writing"] /\ started' = Append(started, e)
  BY DEF StartWrite, queueVars
<1> DEFINE F == Firsts(jobs, 1)
<1>4. /\ Lists(Rest(jobs, 1), In({"running"}) \ F) /\ F \subseteq In({"running"})
      /\ Lists(Front(jobs, 1), F) /\ Len(Front(jobs, 1)) = 1
      /\ \A i \in 1..1 : Front(jobs, 1)[i] = jobs[i]
      /\ jobs = Front(jobs, 1) \o Rest(jobs, 1)
  <2> DEFINE R == In({"running"})
             s == jobs
  <2>1. 1 \in 0..Len(s) /\ Lists(s, R)
    BY <1>1
  <2> HIDE DEF R, s
  <2>2. /\ Lists(Front(s, 1), Firsts(s, 1)) /\ Lists(Rest(s, 1), R \ Firsts(s, 1))
        /\ Firsts(s, 1) \subseteq R
        /\ Len(Front(s, 1)) = 1 /\ \A i \in 1..1 : Front(s, 1)[i] = s[i]
        /\ s = Front(s, 1) \o Rest(s, 1)
    BY <2>1, ListsSplit
  <2> QED BY <2>2 DEF R, s
<1>5. F = {e} /\ Rest(jobs, 1) = Tail(jobs)
  BY <1>2 DEF Firsts, Rest
<1>6. jobs = <<e>> \o Tail(jobs)
  <2> DEFINE one == Front(jobs, 1)
  <2>1. one \in Seq(Events) /\ Len(one) = 1 /\ one[1] = e
    BY <1>2, <1>4 DEF Lists
  <2> HIDE DEF one, e
  <2>2. <<e>> \in Seq(Events) /\ Len(<<e>>) = 1 /\ <<e>>[1] = e
    BY <1>2
  <2>3. \A i \in 1..Len(one) : one[i] = <<e>>[i]
    BY <2>1, <2>2
  <2>4. one = <<e>>
    BY <2>1, <2>2, <2>3, SeqEqual
  <2> QED BY <1>4, <1>5, <2>4 DEF one
<1> HIDE DEF e, F
<1>7. \A f \in Events : stage'[f] = IF f = e THEN "writing" ELSE stage[f]
  BY <1>1, <1>3
<1>8. stage[e] = "running"
  BY <1>4, <1>5 DEF In
<1>9. /\ In({"queued"})' = In({"queued"}) /\ In({"running"})' = In({"running"}) \ {e}
      /\ In(Working)' = In(Working)
  BY <1>7, <1>8 DEF In, Working
<1>10. Queued' = Queued
  BY <1>3 DEF Queued, Slot
<1>11. WriterTypes' /\ RingHolds'
  <2>1. stage' \in [Events -> Stages]
    BY <1>1, <1>3 DEF Stages
  <2>2. started' \in Seq(Events)
    BY <1>1, <1>2, <1>3, AppendProperties
  <2> QED BY <1>3, <2>1, <2>2 DEF WriterInv, WriterTypes, RingHolds
<1>12. WorkHolds'
  <2>1. Lists(jobs', In({"running"})')
    BY <1>1, <1>2, <1>4, <1>5, <1>9
  <2>2. Lists(Queued', In({"queued"})')
    BY <1>9, <1>10 DEF WriterInv, WorkHolds
  <2> QED BY <1>3, <1>9, <2>1, <2>2 DEF WriterInv, WorkHolds, Lists
<1>13. InOrder'
  <2> DEFINE t == Tail(jobs)
  <2>1. t \in Seq(Events) /\ <<e>> \in Seq(Events)
    BY <1>2
  <2> HIDE DEF t
  <2>2. started \o jobs = Append(started, e) \o t
    <3>1. started \o (<<e>> \o t) = (started \o <<e>>) \o t
      BY <1>1, <2>1, Regroup
    <3>2. Append(started, e) = started \o <<e>>
      BY <1>1, <1>2, AppendIsConcat
    <3> QED BY <1>6, <3>1, <3>2 DEF t
  <2>3. accepted = (started \o jobs) \o Queued
    BY DEF WriterInv, InOrder
  <2>4. accepted' = (started' \o jobs') \o Queued'
    BY <1>1, <1>3, <1>10, <2>2, <2>3 DEF t
  <2> QED BY <2>4 DEF InOrder
<1> QED BY <1>11, <1>12, <1>13 DEF WriterInv

LEMMA DisjointCount ==
  ASSUME NEW S, NEW T, IsFiniteSet(S), IsFiniteSet(T), S \cap T = {}
  PROVE  IsFiniteSet(S \cup T) /\ Cardinality(S \cup T) = Cardinality(S) + Cardinality(T)
<1>1. Cardinality(S) \in Nat /\ Cardinality(T) \in Nat
  BY FS_CardinalityType
<1> QED BY <1>1, FS_Union, FS_EmptySet

\* The slot of e goes to the events that were queued first, as many as there are slots.
LEMMA FinishKeeps ==
  ASSUME WriterInv, NEW e \in Events, Finish(e) PROVE WriterInv'
<1> DEFINE q == Queued
           n == Startable
           out == Front(q, n)
           rest == Rest(q, n)
           F == Firsts(q, n)
           Q == In({"queued"})
           R == In({"running"})
           W == In(Working)
<1>1. /\ jobs \in Seq(Events) /\ accepted \in Seq(Events) /\ started \in Seq(Events)
      /\ q \in Seq(Events) /\ stage \in [Events -> Stages] /\ stage[e] = "settled"
      /\ Lists(q, Q) /\ Lists(jobs, R) /\ IsFiniteSet(W) /\ Cardinality(W) = active
      /\ active \in 0..Concurrency /\ Concurrency \in Nat \ {0}
      /\ length # 0 => active = Concurrency
  BY WriterAssumption DEF WriterInv, WriterTypes, WorkHolds, Lists, Finish
<1>2. Len(q) = length /\ length \in Nat
  BY <1>1, QueueLength DEF WriterInv
<1>3. e \in W /\ active # 0
  <2>1. e \in W
    BY <1>1 DEF In, Working
  <2> QED BY <1>1, <2>1, FS_EmptySet
<1>4. /\ n \in 0..length /\ active - 1 + n \in 0..Concurrency
      /\ length - n # 0 => active - 1 + n = Concurrency
  BY <1>1, <1>2, <1>3 DEF Startable
<1>5. /\ active' = active - 1 + n /\ Shift(n) /\ jobs' = jobs \o out
      /\ stage' = [f \in Events |-> IF f = e THEN "done"
                                    ELSE IF f \in Range(out) THEN "running" ELSE stage[f]]
      /\ UNCHANGED <<accepted, started>>
  BY DEF Finish, writerHistory, Front
<1> HIDE DEF n
<1>6. /\ Queued' = rest /\ RingHolds'
      /\ items' \in [0..(Capacity - 1) -> Events \cup {Undefined}]
      /\ head' \in Nat /\ length' \in 0..Capacity /\ length' = length - n /\ tail' = tail
  BY <1>1, <1>2, <1>4, <1>5, ShiftQueue DEF WriterInv, Rest
<1>7. /\ Lists(out, F) /\ Lists(rest, Q \ F) /\ F \subseteq Q /\ Len(out) = n
      /\ (\A i \in 1..n : out[i] = q[i]) /\ q = out \o rest
  <2> HIDE DEF q, Q
  <2>1. Lists(q, Q) /\ n \in 0..Len(q)
    BY <1>1, <1>2, <1>4
  <2> QED BY <1>2, <2>1, ListsSplit
<1>8. Range(out) = F /\ out \in Seq(Events) /\ rest \in Seq(Events)
  <2>1. out \in Seq(Events) /\ rest \in Seq(Events)
    BY <1>7 DEF Lists
  <2>2. DOMAIN out = 1..n
    BY <1>7, <2>1, LenProperties
  <2> HIDE DEF out
  <2>3. Range(out) = {out[i] : i \in 1..n}
    BY <2>2 DEF Range
  <2> QED BY <1>7, <2>1, <2>3 DEF Firsts
<1>9. F \subseteq Events /\ IsFiniteSet(F) /\ Cardinality(F) = n
  BY <1>7, ListsCount DEF In
<1> HIDE DEF q, out, rest, F
<1>10. \A f \in Events : stage'[f] = IF f = e THEN "done" ELSE IF f \in F THEN "running" ELSE stage[f]
  BY <1>5, <1>8
<1>11. \A f \in F : stage[f] = "queued"
  BY <1>7 DEF In
<1>12. Q' = Q \ F /\ R' = R \cup F /\ W' = (W \ {e}) \cup F
  <2>1. Q' = Q \ F
    BY <1>1, <1>10, <1>11 DEF In
  <2>2. R' = R \cup F
    BY <1>1, <1>9, <1>10, <1>11 DEF In
  <2>3. W' = (W \ {e}) \cup F
    BY <1>1, <1>9, <1>10, <1>11 DEF In, Working
  <2> QED BY <2>1, <2>2, <2>3
<1>13. R \cap F = {} /\ (W \ {e}) \cap F = {}
  BY <1>11 DEF In, Working
<1>14. WriterTypes'
  <2>1. stage' \in [Events -> Stages]
    BY <1>1, <1>5 DEF Stages
  <2> QED BY <1>4, <1>5, <1>6, <2>1 DEF WriterInv, WriterTypes
<1> HIDE DEF Q, R, W
<1>15. IsFiniteSet(W') /\ Cardinality(W') = active'
  <2>1. IsFiniteSet(W \ {e}) /\ Cardinality(W \ {e}) = active - 1
    BY <1>1, <1>3, FS_RemoveElement
  <2>2. IsFiniteSet((W \ {e}) \cup F) /\ Cardinality((W \ {e}) \cup F) = active - 1 + n
    BY <1>4, <1>9, <1>13, <2>1, DisjointCount
  <2> QED BY <1>5, <1>12, <2>2
<1>16. Lists(jobs', R')
  BY <1>1, <1>5, <1>7, <1>12, <1>13, ListsConcat
<1>17. Lists(Queued', Q')
  BY <1>6, <1>7, <1>12
<1>18. length' # 0 => active' = Concurrency
  BY <1>4, <1>5, <1>6
<1>19. WorkHolds'
  BY <1>15, <1>16, <1>17, <1>18 DEF WorkHolds, Lists, Q, R, W
<1>20. InOrder'
  <2>1. accepted = (started \o jobs) \o (out \o rest)
    BY <1>7 DEF WriterInv, InOrder, q
  <2>2. started \o jobs \in Seq(Events)
    BY <1>1, ConcatProperties
  <2>3. (started \o jobs) \o (out \o rest) = ((started \o jobs) \o out) \o rest
    BY <1>8, <2>2, Regroup
  <2>4. (started \o jobs) \o out = started \o (jobs \o out)
    <3>1. started \in Seq(Events) /\ jobs \in Seq(Events) /\ out \in Seq(Events)
      BY <1>1, <1>8
    <3> QED BY <3>1, Regroup
  <2>5. accepted' = (started' \o jobs') \o Queued'
    BY <1>5, <1>6, <2>1, <2>3, <2>4
  <2> QED BY <2>5 DEF InOrder
<1> QED BY <1>6, <1>14, <1>19, <1>20 DEF WriterInv

\* enqueue: the event is refused, suppressed, accepted or shed.
LEMMA EnqueueKeeps ==
  ASSUME WriterInv, NEW e \in Events, Enqueue(e) PROVE WriterInv'
<1> USE DEF queueVars, writerHistory
<1>1. CASE EnqueueClosed(e)
  BY <1>1, StageMoves DEF EnqueueClosed, Drop, Stages
<1>2. CASE EnqueueSampled(e)
  BY <1>2, StageMoves DEF EnqueueSampled, Stages
<1>3. CASE EnqueueFresh(e)
  <2>1. stage[e] = "new" /\ Place(e) /\ stage \in [Events -> Stages]
    BY <1>3 DEF EnqueueFresh, WriterInv, WriterTypes
  <2>2. IF stage'[e] = "dropped" THEN UNCHANGED <<accepted, started>>
        ELSE accepted' = Append(accepted, e) /\ started' = started
    BY <1>3 DEF EnqueueFresh
  <2>3. CASE /\ active < Concurrency /\ active' = active + 1 /\ jobs' = Append(jobs, e)
             /\ stage' = [stage EXCEPT ![e] = "running"] /\ UNCHANGED queueVars
    <3>1. stage'[e] = "running"
      BY <2>1, <2>3
    <3>2. accepted' = Append(accepted, e) /\ started' = started
      BY <2>2, <3>1
    <3> QED BY <2>1, <2>3, <3>2, TakenIn
  <2>4. CASE /\ active >= Concurrency /\ length # Capacity /\ Push(e)
             /\ stage' = [stage EXCEPT ![e] = "queued"] /\ UNCHANGED <<active, jobs>>
    <3>1. stage'[e] = "queued"
      BY <2>1, <2>4
    <3>2. accepted' = Append(accepted, e) /\ started' = started
      BY <2>2, <3>1
    <3> QED BY <2>1, <2>4, <3>2, QueuedUp
  <2>5. CASE /\ active >= Concurrency /\ length = Capacity /\ Drop(e)
             /\ UNCHANGED <<queueVars, active, jobs>>
    <3>1. stage'[e] = "dropped" /\ stage' = [stage EXCEPT ![e] = "dropped"]
      BY <2>1, <2>5 DEF Drop
    <3>2. UNCHANGED <<accepted, started>>
      BY <2>2, <3>1
    <3> QED BY <2>1, <2>5, <3>1, <3>2, StageMoves DEF Stages
  <2> QED BY <2>1, <2>3, <2>4, <2>5 DEF Place
<1> QED BY <1>1, <1>2, <1>3 DEF Enqueue

LEMMA WriterInitially == ASSUME WriterInit PROVE WriterInv
<1>1. Capacity \in Nat /\ Concurrency \in Nat
  BY WriterAssumption
<1>2. Queued = << >>
  BY DEF WriterInit, Queued
<1>3. /\ << >> \in Seq(Events) /\ Len(<< >>) = 0
      /\ jobs = << >> /\ accepted = << >> /\ started = << >>
  BY EmptySeq DEF WriterInit
<1>4. In({"queued"}) = {} /\ In({"running"}) = {} /\ In(Working) = {}
  BY DEF WriterInit, In, Working
<1>5. Lists(<< >>, {})
  BY <1>3 DEF Lists
<1>6. WriterTypes
  BY <1>1, <1>3 DEF WriterInit, WriterTypes, Stages
<1>7. RingHolds
  BY <1>1 DEF WriterInit, RingHolds
<1>8. WorkHolds
  BY <1>2, <1>3, <1>4, <1>5, FS_EmptySet DEF WorkHolds, WriterInit
<1>9. InOrder
  BY <1>2, <1>3, ConcatEmptySeq DEF InOrder
<1> QED BY <1>6, <1>7, <1>8, <1>9 DEF WriterInv

LEMMA WriterStep ==
  ASSUME WriterInv, [WriterNext]_writerVars PROVE WriterInv'
<1> USE DEF queueVars, writerHistory
<1>1. ASSUME NEW e \in Events, Settle(e) PROVE WriterInv'
  BY <1>1, StageMoves DEF Settle, Stages
<1>2. ASSUME NEW e \in Events, Catch(e) PROVE WriterInv'
  BY <1>2, StageMoves DEF Catch, Stages
<1>3. ASSUME UNCHANGED <<items, head, tail, length, active, jobs, accepted, started, stage>>
      PROVE  WriterInv'
  BY <1>3, WriterStays DEF In, WriterInv, WriterTypes
<1>4. ASSUME NEW w \in Flushers, Flush(w) PROVE WriterInv'
  BY <1>3, <1>4 DEF Flush
<1>5. CASE CloseWriter \/ PoolEnd \/ Tick \/ UNCHANGED writerVars
  BY <1>3, <1>5 DEF CloseWriter, PoolEnd, Tick, writerVars
<1> QED BY <1>1, <1>2, <1>4, <1>5, EnqueueKeeps, FinishKeeps, StartWriteKeeps DEF WriterNext

----------------------------------------------------------------------------
(* What flush and close promise                                            *)

Begun == Working \cup {"queued", "done"}

\* Events a flush waits for stay begun until they are done; a writer that is closed has
\* nothing left, and accepts nothing.
WaitHolds ==
  /\ flusher \in [Flushers -> [at : {"out", "waiting", "done"}, owed : SUBSET Events]]
  /\ \A w \in Flushers :
       /\ flusher[w].owed \subseteq In(Begun)
       /\ flusher[w].at = "done" => flusher[w].owed \subseteq In({"done"})
  /\ closer # "open" => accepting = FALSE
  /\ closer = "closed" => Unfinished = {}
  /\ auditPool = "ended" => closer = "closed"

\* An idle writer has nothing unfinished: the slots in use are counted right, and the
\* ring's length is that of the queue.
LEMMA IdleIsDone ==
  ASSUME WriterInv, active = 0, length = 0 PROVE Unfinished = {}
<1>1. In(Working) = {}
  BY FS_EmptySet DEF WriterInv, WorkHolds
<1>2. In({"queued"}) = {}
  <2>1. Lists(Queued, In({"queued"})) /\ Len(Queued) = 0
    BY QueueLength DEF WriterInv, WorkHolds, Lists
  <2> QED BY <2>1, ListsCount, FS_EmptySet
<1> QED BY <1>1, <1>2 DEF In, Working, Unfinished

\* A step that begins nothing new, or begins it while the writer accepts.
Progress ==
  /\ \A f \in Events : /\ stage[f] \in Begun => stage'[f] \in Begun
                       /\ stage[f] = "done" => stage'[f] = "done"
  /\ accepting = TRUE \/ Unfinished' \subseteq Unfinished

LEMMA WaitStays ==
  ASSUME WaitHolds, Progress, UNCHANGED <<flusher, closer, auditPool, accepting>>
  PROVE  WaitHolds'
<1>1. In(Begun) \subseteq In(Begun)' /\ In({"done"}) \subseteq In({"done"})'
  BY DEF Progress, In
<1>2. closer = "closed" => Unfinished' = {}
  BY DEF WaitHolds, Progress
<1> QED BY <1>1, <1>2 DEF WaitHolds

LEMMA OneMoves ==
  ASSUME stage \in [Events -> Stages], NEW e \in Events, NEW x,
         stage' = [stage EXCEPT ![e] = x], stage[e] # "done", stage[e] \in Begun => x \in Begun,
         \/ accepting = TRUE
         \/ stage[e] \in Working
         \/ x \notin Begun
  PROVE  Progress
<1>1. \A f \in Events : stage'[f] = IF f = e THEN x ELSE stage[f]
  OBVIOUS
<1> QED BY <1>1 DEF Progress, Begun, Working, Unfinished

\* The events a finished write makes room for were queued.
LEMMA FirstAreQueued ==
  ASSUME WriterInv, NEW e \in Events, Finish(e)
  PROVE  Range(SubSeq(Queued, 1, Startable)) \subseteq In({"queued"})
<1> DEFINE q == Queued
           n == Startable
           out == SubSeq(q, 1, n)
<1>1. /\ Lists(q, In({"queued"})) /\ active \in 0..Concurrency /\ Concurrency \in Nat \ {0}
      /\ Len(q) = length /\ length \in Nat
  BY QueueLength, WriterAssumption DEF WriterInv, WriterTypes, WorkHolds, Lists
<1>2. n \in 0..Len(q)
  BY <1>1 DEF Startable
<1> HIDE DEF q, n
<1>3. Lists(Front(q, n), Firsts(q, n)) /\ Firsts(q, n) \subseteq In({"queued"})
  BY <1>1, <1>2, ListsSplit
<1>4. out \in Seq(Events) /\ \A i \in 1..Len(out) : out[i] \in Firsts(q, n)
  BY <1>3 DEF Lists, Front
<1>5. DOMAIN out = 1..Len(out)
  BY <1>4, LenProperties
<1> HIDE DEF out
<1>6. Range(out) \subseteq Firsts(q, n)
  BY <1>4, <1>5 DEF Range
<1> QED BY <1>3, <1>6 DEF out, q, n

LEMMA IdleThen ==
  ASSUME WriterInv', active' = 0, length' = 0 PROVE Unfinished' = {}
<1>1. WriterInv /\ active = 0 /\ length = 0 => Unfinished = {}
  BY IdleIsDone
<1>2. (WriterInv /\ active = 0 /\ length = 0 => Unfinished = {})'
  BY IdleIsDone, PTL
<1> QED BY <1>2

LEMMA WaitStep ==
  ASSUME WriterInv, WriterInv', WaitHolds, [WriterNext]_writerVars
  PROVE  WaitHolds'
<1> USE DEF queueVars, writerHistory
<1>1. stage \in [Events -> Stages]
  BY DEF WriterInv, WriterTypes
<1>2. ASSUME NEW e \in Events, Enqueue(e) PROVE WaitHolds'
  <2>1. UNCHANGED <<flusher, closer, auditPool, accepting>> /\ stage[e] = "new"
    BY <1>2 DEF Enqueue, EnqueueClosed, EnqueueSampled, EnqueueFresh
  <2>2. CASE EnqueueClosed(e)
    BY <1>1, <2>1, <2>2, OneMoves, WaitStays DEF EnqueueClosed, Drop, Begun, Working
  <2>3. CASE EnqueueSampled(e)
    BY <1>1, <2>1, <2>3, OneMoves, WaitStays DEF EnqueueSampled, Begun, Working
  <2>4. CASE EnqueueFresh(e)
    <3>1. accepting = TRUE
      BY <2>4 DEF EnqueueFresh, WaitHolds
    <3>2. PICK x : stage' = [stage EXCEPT ![e] = x]
      BY <2>4 DEF EnqueueFresh, Place, Drop
    <3> QED BY <1>1, <2>1, <3>1, <3>2, OneMoves, WaitStays DEF Begun, Working
  <2> QED BY <1>2, <2>2, <2>3, <2>4 DEF Enqueue
<1>3. ASSUME NEW e \in Events, Settle(e) \/ Catch(e) PROVE WaitHolds'
  <2>1. PICK x \in {"settled", "rejected"} : stage' = [stage EXCEPT ![e] = x]
    BY <1>3 DEF Settle, Catch
  <2>2. stage[e] \in Working /\ stage[e] # "done" /\ x \in Begun
    BY <1>3 DEF Settle, Catch, Begun, Working
  <2>3. UNCHANGED <<flusher, closer, auditPool, accepting>>
    BY <1>3 DEF Settle, Catch
  <2> QED BY <1>1, <2>1, <2>2, <2>3, OneMoves, WaitStays
<1>4. CASE StartWrite
  <2> DEFINE e == Head(jobs)
  <2>1. jobs \in Seq(Events) /\ jobs # << >> /\ Lists(jobs, In({"running"})) /\ Len(jobs) \in Nat \ {0}
    BY <1>4, EmptySeq DEF StartWrite, WriterInv, WorkHolds, Lists
  <2>2. e \in Events /\ e = jobs[1]
    BY <2>1, HeadTailProperties
  <2>3. 1 \in 1..Len(jobs)
    BY <2>1
  <2>4. stage[e] = "running"
    <3>1. e \in In({"running"})
      BY <2>1, <2>2, <2>3 DEF Lists
    <3> QED BY <3>1 DEF In
  <2>5. /\ stage' = [stage EXCEPT ![e] = "writing"]
        /\ UNCHANGED <<flusher, closer, auditPool, accepting>>
    BY <1>4 DEF StartWrite
  <2> HIDE DEF e
  <2> QED BY <1>1, <2>2, <2>4, <2>5, OneMoves, WaitStays DEF Begun, Working
<1>5. ASSUME NEW e \in Events, Finish(e) PROVE WaitHolds'
  <2>1. Progress
    <3> DEFINE F == Range(SubSeq(Queued, 1, Startable))
    <3>1. \A f \in Events :
            stage'[f] = IF f = e THEN "done" ELSE IF f \in F THEN "running" ELSE stage[f]
      BY <1>5 DEF Finish
    <3>2. stage[e] = "settled"
      BY <1>5 DEF Finish
    <3>3. \A f \in F : f \in In({"queued"})
      BY <1>5, FirstAreQueued
    <3> HIDE DEF F
    <3>4. \A f \in F : stage[f] = "queued"
      BY <3>3 DEF In
    <3> QED BY <3>1, <3>2, <3>4 DEF Progress, Begun, Working, Unfinished
  <2>2. UNCHANGED <<auditPool, accepting>>
    BY <1>5 DEF Finish
  <2>3. CASE UNCHANGED <<flusher, closer>>
    BY <2>1, <2>2, <2>3, WaitStays
  <2>4. CASE active' = 0 /\ length' = 0 /\ Release
    <3>1. Unfinished' = {}
      BY <2>4, IdleThen
    <3>2. In(Begun) \subseteq In(Begun)' /\ In(Begun)' = In({"done"})'
      BY <2>1, <3>1 DEF Progress, In, Begun, Working, Unfinished
    <3>3. \A w \in Flushers :
            /\ flusher'[w].owed = flusher[w].owed
            /\ flusher'[w].at \in {flusher[w].at, "done"}
            /\ flusher'[w] \in [at : {"out", "waiting", "done"}, owed : SUBSET Events]
      BY <2>4 DEF Release, WaitHolds
    <3>4. flusher' \in [Flushers -> [at : {"out", "waiting", "done"}, owed : SUBSET Events]]
      BY <2>4, <3>3 DEF Release
    <3>5. /\ closer' # "open" => closer # "open"
          /\ closer = "closed" => closer' = "closed"
      BY <2>4 DEF Release
    <3> QED BY <2>2, <3>1, <3>2, <3>3, <3>4, <3>5 DEF WaitHolds
  <2> QED BY <1>5, <2>3, <2>4 DEF Finish
<1>6. ASSUME NEW w \in Flushers, Flush(w) PROVE WaitHolds'
  <2>1. UNCHANGED <<stage, closer, auditPool, accepting>>
    BY <1>6 DEF Flush
  <2>2. flusher' = [flusher EXCEPT ![w] = [at |-> IF Idle THEN "done" ELSE "waiting",
                                            owed |-> Unfinished]]
    BY <1>6 DEF Flush
  <2>3. Unfinished \subseteq In(Begun) /\ Unfinished \in SUBSET Events
    BY DEF Unfinished, In, Begun, Working
  <2>4. Idle => Unfinished = {}
    BY IdleIsDone DEF Idle
  <2>5. In(Begun)' = In(Begun) /\ In({"done"})' = In({"done"}) /\ Unfinished' = Unfinished
    BY <2>1 DEF In, Unfinished
  <2> QED BY <2>1, <2>2, <2>3, <2>4, <2>5 DEF WaitHolds
<1>7. ASSUME UNCHANGED <<stage, flusher>> PROVE
        In(Begun)' = In(Begun) /\ In({"done"})' = In({"done"}) /\ Unfinished' = Unfinished
  BY <1>7 DEF In, Unfinished
<1>8. CASE CloseWriter
  <2>1. Idle => Unfinished = {}
    BY IdleIsDone DEF Idle
  <2> QED BY <1>7, <1>8, <2>1 DEF CloseWriter, WaitHolds
<1>9. CASE PoolEnd
  BY <1>7, <1>9 DEF PoolEnd, WaitHolds
<1>10. CASE Tick \/ UNCHANGED writerVars
  BY <1>7, <1>10 DEF Tick, writerVars, WaitHolds
<1> QED BY <1>2, <1>3, <1>4, <1>5, <1>6, <1>8, <1>9, <1>10 DEF WriterNext

LEMMA WriterAlways ==
  WriterSpec => [](WriterInv /\ WaitHolds)
<1>1. WriterInit => WriterInv /\ WaitHolds
  <2> SUFFICES ASSUME WriterInit PROVE WriterInv /\ WaitHolds
    OBVIOUS
  <2> QED BY WriterInitially DEF WriterInit, WaitHolds
<1>2. WriterInv /\ WaitHolds /\ [WriterNext]_writerVars => (WriterInv /\ WaitHolds)'
  <2> SUFFICES ASSUME WriterInv, WaitHolds, [WriterNext]_writerVars PROVE (WriterInv /\ WaitHolds)'
    OBVIOUS
  <2>1. WriterInv'
    BY WriterStep
  <2> QED BY <2>1, WaitStep
<1> QED BY <1>1, <1>2, PTL DEF WriterSpec

\* enqueue, #drain and #execute lose, repeat and overtake nothing, for a ring of any
\* capacity (none at all included), any number of worker slots and any events: what was
\* accepted is, in its order, what was written, what is scheduled and what is in the ring.
THEOREM AcceptedInOrder == WriterSpec => []InOrder
<1>1. WriterInv /\ WaitHolds => InOrder
  BY DEF WriterInv
<1> QED BY <1>1, WriterAlways, PTL

\* flush() and close() resolve only when all that was accepted before the call has settled,
\* although every caller shares one promise and events keep arriving; the application's
\* shutdown ends the pool under no write.
THEOREM SettledFirst == WriterSpec => []SettledBeforeDone
<1>1. WriterInv /\ WaitHolds => SettledBeforeDone
  <2> SUFFICES ASSUME WaitHolds PROVE SettledBeforeDone
    OBVIOUS
  <2>1. ASSUME NEW w \in Flushers, flusher[w].at = "done", NEW e \in flusher[w].owed
        PROVE  stage[e] = "done"
    BY <2>1 DEF WaitHolds, In
  <2>2. auditPool = "ended" => Unfinished = {} /\ ~accepting
    BY DEF WaitHolds
  <2> QED BY <2>1, <2>2 DEF SettledBeforeDone
<1> QED BY <1>1, WriterAlways, PTL

----------------------------------------------------------------------------
(* Sampling                                                                *)

\* No key's window outlasts the one its last accepted event opened.
SampleHolds ==
  /\ now \in Nat /\ promised \in [SampleKeys -> Nat]
  /\ DOMAIN samples \subseteq SampleKeys
  /\ \A k \in DOMAIN samples : samples[k] \in Nat /\ samples[k] <= promised[k]

\* What #pruneSamples leaves was there before.
LEMMA PrunedIs ==
  /\ DOMAIN Pruned \subseteq DOMAIN samples
  /\ \A k \in DOMAIN Pruned : Pruned[k] = samples[k] /\ samples[k] > now
BY DEF Pruned, Restrict

\* #rememberSample opens the window of its key and no other's, whichever key it evicts.
LEMMA RememberedIs ==
  ASSUME NEW m, NEW k, NEW n \in Remembered(m, k)
  PROVE  /\ k \in DOMAIN n /\ n[k] = now + Window
         /\ DOMAIN n \subseteq DOMAIN m \cup {k}
         /\ \A j \in DOMAIN n : j # k => n[j] = m[j]
<1>1. PICK S \in SUBSET DOMAIN m : n = [j \in S \cup {k} |-> IF j = k THEN now + Window ELSE m[j]]
  BY DEF Remembered
<1> QED BY <1>1

LEMMA SampleStep ==
  ASSUME stage \in [Events -> Stages], SampleHolds,
         [WriterNext]_writerVars
  PROVE  SampleHolds'
<1> USE DEF queueVars, writerHistory
<1>1. /\ Window \in Nat /\ KeyOf \in [Events -> SampleKeys \cup {Undefined}]
      /\ now \in Nat /\ promised \in [SampleKeys -> Nat]
  BY WriterAssumption DEF SampleHolds
<1>2. CASE UNCHANGED <<samples, promised>> /\ now' \in Nat
  BY <1>2 DEF SampleHolds
<1>3. CASE samples' = Pruned /\ UNCHANGED <<promised, now>>
  BY <1>3, PrunedIs DEF SampleHolds
<1>4. ASSUME NEW e \in Events, EnqueueFresh(e) PROVE SampleHolds'
  <2> DEFINE k == KeyOf[e]
             m == IF k = Undefined THEN samples ELSE Pruned
  <2>1. now' = now /\ (stage'[e] = "dropped" => samples' = m /\ promised' = promised)
    BY <1>4 DEF EnqueueFresh
  <2>2. CASE stage'[e] = "dropped"
    BY <1>1, <1>2, <1>3, <2>1, <2>2
  <2>3. CASE stage'[e] # "dropped" /\ k = Undefined
    BY <1>1, <1>2, <1>4, <2>1, <2>3 DEF EnqueueFresh
  <2>4. CASE stage'[e] # "dropped" /\ k # Undefined
    <3>1. /\ samples' \in Remembered(Pruned, k)
          /\ promised' = [promised EXCEPT ![k] = now + Window]
      BY <1>4, <2>4 DEF EnqueueFresh
    <3>2. k \in SampleKeys /\ now + Window \in Nat
      BY <1>1, <2>4
    <3> HIDE DEF k
    <3>3. /\ samples'[k] = now + Window
          /\ DOMAIN samples' \subseteq DOMAIN Pruned \cup {k}
          /\ \A j \in DOMAIN samples' : j # k => samples'[j] = Pruned[j]
      BY <3>1, RememberedIs
    <3>4. /\ promised' \in [SampleKeys -> Nat] /\ promised'[k] = now + Window
          /\ \A j \in SampleKeys : j # k => promised'[j] = promised[j]
      BY <1>1, <3>1, <3>2
    <3>5. ASSUME NEW j \in DOMAIN samples'
          PROVE  j \in SampleKeys /\ samples'[j] \in Nat /\ samples'[j] <= promised'[j]
      <4>1. CASE j = k
        BY <3>2, <3>3, <3>4, <4>1
      <4>2. CASE j # k
        <5>1. j \in DOMAIN Pruned /\ samples'[j] = Pruned[j]
          BY <3>3, <4>2
        <5>2. j \in DOMAIN samples /\ samples'[j] = samples[j]
          BY <5>1, PrunedIs
        <5> QED BY <3>4, <4>2, <5>2 DEF SampleHolds
      <4> QED BY <4>1, <4>2
    <3> QED BY <1>1, <2>1, <3>4, <3>5 DEF SampleHolds
  <2> QED BY <2>2, <2>3, <2>4
<1>5. ASSUME NEW e \in Events, Enqueue(e) PROVE SampleHolds'
  BY <1>1, <1>2, <1>3, <1>4, <1>5 DEF Enqueue, EnqueueClosed, EnqueueSampled
<1>6. ASSUME NEW e \in Events, Settle(e) \/ Catch(e) \/ Finish(e) PROVE SampleHolds'
  BY <1>1, <1>2, <1>6 DEF Settle, Catch, Finish
<1>7. ASSUME NEW w \in Flushers, Flush(w) PROVE SampleHolds'
  BY <1>1, <1>2, <1>7 DEF Flush
<1>8. CASE StartWrite \/ CloseWriter \/ PoolEnd \/ Tick \/ UNCHANGED writerVars
  BY <1>1, <1>2, <1>8 DEF StartWrite, CloseWriter, PoolEnd, Tick, writerVars
<1> QED BY <1>5, <1>6, <1>7, <1>8 DEF WriterNext

\* enqueue suppresses an event as a repeat only within the window of an event of its key
\* that was accepted: one that was shed by a full queue opens no window, and neither the
\* pruning of expired keys nor the eviction from a full map prolongs one.
THEOREM RepeatsOfAccepted == WriterSpec => OnlyRepeatsAreSampled
<1>1. WriterInit => SampleHolds
  BY DEF WriterInit, SampleHolds
<1>2. WriterInv /\ SampleHolds /\ [WriterNext]_writerVars => SampleHolds'
  BY SampleStep DEF WriterInv, WriterTypes
<1>3. SampleHolds => \A e \in Events : EnqueueSampled(e) => promised[KeyOf[e]] > now
  <2> SUFFICES ASSUME SampleHolds, NEW e \in Events, EnqueueSampled(e)
               PROVE  promised[KeyOf[e]] > now
    OBVIOUS
  <2>1. KeyOf[e] \in DOMAIN Pruned
    BY DEF EnqueueSampled
  <2>2. KeyOf[e] \in DOMAIN samples /\ samples[KeyOf[e]] > now
    BY <2>1, PrunedIs
  <2> QED BY <2>2 DEF SampleHolds
<1> QED BY <1>1, <1>2, <1>3, WriterAlways, PTL DEF WriterSpec, OnlyRepeatsAreSampled
============================================================================
