------------------------------ MODULE JobQueue ------------------------------
(***************************************************************************)
(* The durable queue of jobs/queue.py (PgJobQueue): the rows of            *)
(* durable_jobs and job_dead_letters, the workers that lease them, and a   *)
(* discrete clock.                                                         *)
(*                                                                         *)
(* Every method runs inside a transaction of its caller, at READ           *)
(* COMMITTED.  claim() selects its row FOR UPDATE SKIP LOCKED, so from the *)
(* select to the commit the row is locked.  The four lease operations      *)
(* (heartbeat, complete, abandon, dead_letter) start with _owned_lease(),  *)
(* a plain SELECT, and write when their caller commits: each is a check    *)
(* step and a commit step, and an UPDATE waits for a row lock but does not *)
(* look at the columns it does not set.                                    *)
(*                                                                         *)
(* Stall says whether the clock may advance while a transaction is open.   *)
(* With Stall = FALSE transactions are short against the clock's unit;     *)
(* with Stall = TRUE a process may be descheduled, or wait for the         *)
(* database, between its check and its commit.                             *)
(***************************************************************************)
EXTENDS Integers

CONSTANTS Job,            \* the rows durable_jobs may come to hold
          Environment,    \* management environments
          EnvironmentOf,  \* the environment each job belongs to
          Worker,         \* worker ids
          NoJob,          \* no envelope
          NoWorker,       \* lease_owner IS NULL
          MaxAttempts,    \* max_attempts of the jobs
          LeaseSeconds,   \* lease_seconds, in clock units
          Delays,         \* the delay_seconds abandon() is called with
          Stall,          \* may time pass inside a transaction?
          MaxNow          \* bound on the clock

ASSUME JobAssumption    == /\ NoJob \notin Job
                           /\ EnvironmentOf \in [Job -> Environment]
ASSUME WorkerAssumption == NoWorker \notin Worker
ASSUME NumberAssumption == /\ MaxAttempts \in Nat \ {0}
                           /\ LeaseSeconds \in Nat \ {0}
                           /\ Delays \subseteq Nat
                           /\ MaxNow \in Nat
ASSUME StallAssumption  == Stall \in BOOLEAN

VARIABLES now,          \* the clock utc_now_naive() reads
          jobs,         \* committed rows of durable_jobs
          deadLetters,  \* attempts of the job's row in job_dead_letters, or NoRow
          envelope,     \* what each worker got from claim()
          txn           \* each worker's open transaction

vars == <<now, jobs, deadLetters, envelope, txn>>

NoTime == -1            \* lease_expires_at IS NULL
NoRow  == 0             \* no dead-letter row

LeaseOp == {"heartbeat", "complete", "abandon", "dead_letter"}
Terminal == {"completed", "dead_letter"}
Status  == {"absent", "queued", "leased"} \cup Terminal

Row == [status           : Status,
        attempt          : Nat,
        available_at     : Nat,
        requested_at     : Nat,
        lease_owner      : Worker \cup {NoWorker},
        lease_expires_at : Nat \cup {NoTime}]

AbsentRow == [status |-> "absent", attempt |-> 0, available_at |-> 0,
              requested_at |-> 0, lease_owner |-> NoWorker,
              lease_expires_at |-> NoTime]

NoEnvelope == [job |-> NoJob, attempt |-> 0]
NoTxn      == [op |-> "idle", at |-> 0, attempt |-> 0]

TypeOK ==
  /\ now \in Nat
  /\ jobs \in [Job -> Row]
  /\ deadLetters \in [Job -> Nat]
  /\ envelope \in [Worker -> [job : Job \cup {NoJob}, attempt : Nat]]
  /\ txn \in [Worker -> [op : {"idle", "claim"} \cup LeaseOp,
                         at : Nat, attempt : Nat]]

Init ==
  /\ now = 0
  /\ jobs = [j \in Job |-> AbsentRow]
  /\ deadLetters = [j \in Job |-> NoRow]
  /\ envelope = [w \in Worker |-> NoEnvelope]
  /\ txn = [w \in Worker |-> NoTxn]

-----------------------------------------------------------------------------
(* Enqueue: a dispatcher's transaction commits a new row.  How concurrent  *)
(* calls with one idempotency key come to insert one row is Dispatch's.    *)

QueuedRow(t) == [AbsentRow EXCEPT !.status = "queued",
                                  !.available_at = t,
                                  !.requested_at = t]

Enqueue(j) ==
  /\ jobs[j].status = "absent"
  /\ jobs' = [jobs EXCEPT ![j] = QueuedRow(now)]
  /\ UNCHANGED <<now, deadLetters, envelope, txn>>

-----------------------------------------------------------------------------
(* Claim *)

Free(w)  == envelope[w].job = NoJob
Idle(w)  == txn[w].op = "idle"
Locked(j) == \E w \in Worker : txn[w].op = "claim" /\ envelope[w].job = j

(* NULL <= now is not true, so a leased row without an expiry never returns. *)
Lapsed(row, t) == row.lease_expires_at # NoTime /\ row.lease_expires_at <= t

(* Mutant: claim() does not look at the status. *)
ClaimableInAnyStatus(j) == jobs[j].available_at <= now /\ jobs[j].status # "absent"

Claimable(j) ==
  /\ jobs[j].available_at <= now
  /\ \/ jobs[j].status = "queued"
     \/ jobs[j].status = "leased" /\ Lapsed(jobs[j], now)

(* ORDER BY available_at, requested_at, id: ids are random UUIDs, so rows  *)
(* that agree on the first two columns come in any order.                  *)
Precedes(j, k) ==
  \/ jobs[j].available_at < jobs[k].available_at
  \/ /\ jobs[j].available_at = jobs[k].available_at
     /\ jobs[j].requested_at < jobs[k].requested_at

(* A queue object is bound to one environment and claims only there. *)
(* Mutant: a plain SELECT, without FOR UPDATE SKIP LOCKED. *)
EligibleUnlocked(e) == {j \in Job : EnvironmentOf[j] = e /\ Claimable(j)}

Eligible(e) == {j \in Job : EnvironmentOf[j] = e /\ Claimable(j) /\ ~Locked(j)}

ClaimSelect(w, e, j) ==
  /\ Free(w) /\ Idle(w)
  /\ j \in Eligible(e)
  /\ \A k \in Eligible(e) : ~Precedes(k, j)
  /\ envelope' = [envelope EXCEPT ![w] = [job |-> j, attempt |-> jobs[j].attempt + 1]]
  /\ txn' = [txn EXCEPT ![w] = [op |-> "claim", at |-> now, attempt |-> jobs[j].attempt + 1]]
  /\ UNCHANGED <<now, jobs, deadLetters>>

(* Mutant: the lease is subtracted. *)
RenewedBackwards(row, t) == [row EXCEPT !.lease_expires_at = t - LeaseSeconds]

Renewed(row, t) == [row EXCEPT !.lease_expires_at = t + LeaseSeconds]

(* Mutant: a claim forgets to set the expiry. *)
LeasedForever(row, w, n, t) == [row EXCEPT !.status = "leased", !.attempt = n,
                                           !.lease_owner = w]

Leased(row, w, n, t) == [Renewed(row, t) EXCEPT !.status = "leased",
                                                !.attempt = n,
                                                !.lease_owner = w]

ClaimCommit(w) ==
  /\ txn[w].op = "claim"
  /\ jobs' = [jobs EXCEPT ![envelope[w].job] =
                            Leased(@, w, txn[w].attempt, txn[w].at)]
  /\ txn' = [txn EXCEPT ![w] = NoTxn]
  /\ UNCHANGED <<now, deadLetters, envelope>>

ClaimNothing(w, e) ==
  /\ Free(w) /\ Idle(w)
  /\ Eligible(e) = {}
  /\ UNCHANGED vars

-----------------------------------------------------------------------------
(* The lease operations: _owned_lease(), then the write at commit.         *)

(* Mutants: the expiry, or the owner, is not checked. *)
OwnsLapsedLease(w, j) == jobs[j].status = "leased" /\ jobs[j].lease_owner = w
OwnsAnyLease(w, j) == jobs[j].status = "leased" /\ jobs[j].lease_expires_at > now

OwnsLease(w, j) ==
  /\ jobs[j].status = "leased"
  /\ jobs[j].lease_owner = w
  /\ jobs[j].lease_expires_at > now

CheckLease(w, op) ==
  /\ ~Free(w) /\ Idle(w)
  /\ OwnsLease(w, envelope[w].job)
  /\ txn' = [txn EXCEPT ![w] = [op |-> op, at |-> now,
                                attempt |-> jobs[envelope[w].job].attempt]]
  /\ UNCHANGED <<now, jobs, deadLetters, envelope>>

(* InvalidJobState: the job is another's, or nobody's, by now. *)
LeaseLost(w) ==
  /\ ~Free(w) /\ Idle(w)
  /\ ~OwnsLease(w, envelope[w].job)
  /\ envelope' = [envelope EXCEPT ![w] = NoEnvelope]
  /\ UNCHANGED <<now, jobs, deadLetters, txn>>

(* An UPDATE of w's job may run: no other transaction locks the row. *)
Writing(w, op) == txn[w].op = op /\ ~Locked(envelope[w].job)

(* _clock() is read again between the check and the commit. *)
WriteTimes(w) == txn[w].at .. now

Unleased(row, s) == [row EXCEPT !.status = s, !.lease_owner = NoWorker,
                                !.lease_expires_at = NoTime]

Requeued(row, t) == [Unleased(row, "queued") EXCEPT !.available_at = t]

LetGo(w) == /\ envelope' = [envelope EXCEPT ![w] = NoEnvelope]
            /\ txn' = [txn EXCEPT ![w] = NoTxn]

HeartbeatCommit(w) ==
  /\ Writing(w, "heartbeat")
  /\ \E t \in WriteTimes(w) :
       jobs' = [jobs EXCEPT ![envelope[w].job] = Renewed(@, t)]
  /\ txn' = [txn EXCEPT ![w] = NoTxn]
  /\ UNCHANGED <<now, deadLetters, envelope>>

CompleteCommit(w) ==
  /\ Writing(w, "complete")
  /\ jobs' = [jobs EXCEPT ![envelope[w].job] = Unleased(@, "completed")]
  /\ LetGo(w)
  /\ UNCHANGED <<now, deadLetters>>

(* Mutant: one attempt too many. *)
ExhaustedLate(w) == txn[w].attempt > MaxAttempts

Exhausted(w) == txn[w].attempt >= MaxAttempts

AbandonCommit(w, d) ==
  /\ Writing(w, "abandon")
  /\ ~Exhausted(w)
  /\ \E t \in WriteTimes(w) :
       jobs' = [jobs EXCEPT ![envelope[w].job] = Requeued(@, t + d)]
  /\ LetGo(w)
  /\ UNCHANGED <<now, deadLetters>>

Burying(w) == \/ Writing(w, "dead_letter")
              \/ Writing(w, "abandon") /\ Exhausted(w)

(* Mutants: the row keeps its status, or the dead letter is not written. *)
DeadLetterRowOnly(w) ==
  /\ Burying(w)
  /\ deadLetters[envelope[w].job] = NoRow
  /\ deadLetters' = [deadLetters EXCEPT ![envelope[w].job] = txn[w].attempt]
  /\ LetGo(w)
  /\ UNCHANGED <<now, jobs>>

DeadLetterStatusOnly(w) ==
  /\ Burying(w)
  /\ jobs' = [jobs EXCEPT ![envelope[w].job] = Unleased(@, "dead_letter")]
  /\ LetGo(w)
  /\ UNCHANGED <<now, deadLetters>>

DeadLetterCommit(w) ==
  /\ Burying(w)
  /\ deadLetters[envelope[w].job] = NoRow
  /\ deadLetters' = [deadLetters EXCEPT ![envelope[w].job] = txn[w].attempt]
  /\ jobs' = [jobs EXCEPT ![envelope[w].job] = Unleased(@, "dead_letter")]
  /\ LetGo(w)
  /\ UNCHANGED now

(* job_dead_letters.job_id is unique: a second row is an IntegrityError    *)
(* and the transaction rolls back.                                         *)
DeadLetterConflict(w) ==
  /\ Burying(w)
  /\ deadLetters[envelope[w].job] # NoRow
  /\ LetGo(w)
  /\ UNCHANGED <<now, jobs, deadLetters>>

-----------------------------------------------------------------------------
(* The environment *)

(* The worker's process dies, or its call is rolled back and forgotten. *)
Crash(w) ==
  /\ ~Free(w)
  /\ LetGo(w)
  /\ UNCHANGED <<now, jobs, deadLetters>>

Tick ==
  /\ now < MaxNow
  /\ Stall \/ \A w \in Worker : Idle(w)
  /\ now' = now + 1
  /\ UNCHANGED <<jobs, deadLetters, envelope, txn>>

WorkerStep(w) ==
  \/ \E e \in Environment, j \in Job : ClaimSelect(w, e, j)
  \/ ClaimCommit(w)
  \/ \E e \in Environment : ClaimNothing(w, e)
  \/ \E op \in LeaseOp : CheckLease(w, op)
  \/ LeaseLost(w)
  \/ HeartbeatCommit(w)
  \/ CompleteCommit(w)
  \/ \E d \in Delays : AbandonCommit(w, d)
  \/ DeadLetterCommit(w)
  \/ DeadLetterConflict(w)
  \/ Crash(w)

Next ==
  \/ Tick
  \/ \E j \in Job : Enqueue(j)
  \/ \E w \in Worker : WorkerStep(w)

Spec == Init /\ [][Next]_vars

-----------------------------------------------------------------------------
(* Properties that hold however long a transaction is left open.           *)

(* A leased row always has an owner and an expiry no further away than one *)
(* lease: were the expiry NULL, claim()'s lease_expires_at <= now would    *)
(* never be true and the job would be lost.                                *)
LeaseIsRecoverable ==
  \A j \in Job : jobs[j].status = "leased" =>
    /\ jobs[j].lease_owner \in Worker
    /\ jobs[j].lease_expires_at \in 0 .. now + LeaseSeconds

(* Exactly-once claim: an attempt number of a job is handed to one worker, *)
(* whatever the interleaving of selects, commits, crashes and expiries.    *)
AttemptHandedOnce ==
  \A v, w \in Worker :
    /\ v # w
    /\ ~Free(v)
    /\ envelope[v].job = envelope[w].job
    => envelope[v].attempt # envelope[w].attempt

(* A dead-lettered job has its row in job_dead_letters for the operator. *)
DeadLetterRecorded ==
  \A j \in Job : jobs[j].status = "dead_letter" => deadLetters[j] # NoRow

-----------------------------------------------------------------------------
(* Properties that need transactions short against the clock.              *)

(* A job is in the dead-letter table exactly when its row says so, and the *)
(* table kept the attempt at which it died.                                *)
DeadLettersAgree ==
  \A j \in Job :
    deadLetters[j] = IF jobs[j].status = "dead_letter" THEN jobs[j].attempt ELSE NoRow

(* Retry budget: a job waits for another attempt only while it has one:    *)
(* abandon() and dead_letter() between them never requeue the last one.    *)
QueuedHasBudget ==
  \A j \in Job : jobs[j].status = "queued" => jobs[j].attempt < MaxAttempts

(* Once a lease has lapsed only a new claim changes the row: the worker    *)
(* that overran it can neither finish, requeue, bury nor prolong the job   *)
(* (the assertion of _owned_lease, "worker does not hold an active lease").*)
LapsedOnlyReclaimed ==
  [][\A j \in Job :
       /\ jobs[j].status = "leased"
       /\ Lapsed(jobs[j], now)
       /\ jobs'[j] # jobs[j]
       => jobs'[j].status = "leased" /\ jobs'[j].attempt = jobs[j].attempt + 1]_vars

(* While a lease is active only its holder's own transaction changes the   *)
(* row: a worker that lost the job to another can no longer touch it.      *)
HolderOnlyWrites ==
  [][\A j \in Job :
       /\ jobs[j].status = "leased"
       /\ ~Lapsed(jobs[j], now)
       /\ jobs'[j] # jobs[j]
       => \E w \in Worker : /\ jobs[j].lease_owner = w
                            /\ envelope[w].job = j
                            /\ txn[w].op \in LeaseOp
                            /\ txn'[w] = NoTxn]_vars

(* Both together: what a lease fences off, before and after it has lapsed. *)
LeaseFences == LapsedOnlyReclaimed /\ HolderOnlyWrites

(* The queue implements the abstract life of a job: submit, attempt, retry *)
(* within the budget, and one end.                                         *)
Lifecycle == INSTANCE JobLifecycle WITH
               status  <- [j \in Job |-> jobs[j].status],
               attempt <- [j \in Job |-> jobs[j].attempt]

ImplementsLifecycle == Lifecycle!Spec

(* The queue implements the leases its handlers rely on: rows, locks, the  *)
(* clock and two-step lease operations amount to one holder at a time, and *)
(* a job moves on by its holder's hand alone.  A worker works on a job     *)
(* from the commit of its claim, and holds it until the clock reaches      *)
(* lease_expires_at, which several leases may do at once.                  *)
Holder(j) == IF jobs[j].status = "leased" /\ ~Lapsed(jobs[j], now)
               THEN jobs[j].lease_owner ELSE NoWorker

WorksOn(w) == IF txn[w].op = "claim" THEN NoJob ELSE envelope[w].job

Lease == INSTANCE JobLease WITH
           status <- [j \in Job |-> jobs[j].status],
           owner  <- [j \in Job |-> Holder(j)],
           work   <- [w \in Worker |-> WorksOn(w)]

ImplementsLease == Lease!Spec

-----------------------------------------------------------------------------
(* What the documentation says of retries, and the code does not do.       *)

(* A message that exceeds its retry policy goes to the dead-letter queue,  *)
(* so no job is attempted more often than max_attempts.                    *)
AttemptsBounded == \A j \in Job : jobs[j].attempt <= MaxAttempts

=============================================================================
