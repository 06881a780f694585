------------------------------ MODULE Dispatch ------------------------------
(***************************************************************************)
(* From a sync button to a handler: the dispatchers (jobs/dispatcher.py,   *)
(* ten classes of one shape) with PgJobQueue.enqueue() behind them, and    *)
(* the worker's _revalidate_scope() before the handler runs, for one       *)
(* capability and one managed tenant.                                      *)
(*                                                                         *)
(* A job carries the membership that asked for it, and its idempotency key *)
(* an operation.  A dispatcher takes the operation as an argument; the     *)
(* routes leave it out, and then it is new.                                *)
(*                                                                         *)
(* The parts of a scope come and go: environment and tenant by their       *)
(* status, a membership by its status, its permission and its reach.       *)
(* Leases are JobQueue's: here one may lapse at any moment.                *)
(***************************************************************************)
EXTENDS FiniteSets

CONSTANTS Request,    \* sync requests; also the id of the job one inserts
          NoRequest,
          Member,     \* memberships
          NoMember,
          Operation,
          NoOperation,
          Worker,
          NoWorker

ASSUME NameAssumption == /\ NoRequest \notin Request /\ NoWorker \notin Worker
                         /\ NoMember \notin Member /\ NoOperation \notin Operation

Place == {"environment", "tenant"}

Part == Place \cup {"membership"}

VARIABLES sound,      \* the places that are active
          able,       \* memberships that may sync the tenant
          req,        \* what each request is doing
          rows,       \* committed jobs
          status,     \* status of each
          owner,      \* who holds an active lease of each
          run,        \* what each worker is doing
          held        \* history: parts of its scope that held since it claimed

vars == <<sound, able, req, rows, status, owner, run, held>>

(* job is the id that enqueue() returns. *)
Asking(step, m, o, job) == [step |-> step, member |-> m, operation |-> o, job |-> job]

NotAsking == Asking("idle", NoMember, NoOperation, NoRequest)

RequestStep == {"idle", "entered", "missing", "inserted", "found", "answered"}

Row == [id : Request, operation : Operation, member : Member]

Resting == [job |-> NoRequest, step |-> "idle"]

WorkerStep == {"idle", "environment", "tenant", "membership", "running"}

TypeOK ==
  /\ sound \in SUBSET Place
  /\ able \in SUBSET Member
  /\ req \in [Request -> [step : RequestStep, member : Member \cup {NoMember},
                          operation : Operation \cup {NoOperation},
                          job : Request \cup {NoRequest}]]
  /\ rows \in SUBSET Row
  /\ status \in [Request -> {"absent", "queued", "leased", "completed", "dead_letter"}]
  /\ owner \in [Request -> Worker \cup {NoWorker}]
  /\ run \in [Worker -> [job : Request \cup {NoRequest}, step : WorkerStep]]
  /\ held \in [Worker -> SUBSET Part]

Init ==
  /\ sound = Place
  /\ able = Member
  /\ req = [r \in Request |-> NotAsking]
  /\ rows = {}
  /\ status = [r \in Request |-> "absent"]
  /\ owner = [r \in Request |-> NoWorker]
  /\ run = [w \in Worker |-> Resting]
  /\ held = [w \in Worker |-> {}]

-----------------------------------------------------------------------------
(* Scope *)

(* External: a part is taken away; a membership also by add_membership(),  *)
(* the tenant also by a connection test.                                   *)
Revoke ==
  /\ \/ \E p \in sound : sound' = sound \ {p} /\ UNCHANGED able
     \/ \E m \in able : able' = able \ {m} /\ UNCHANGED sound
  /\ UNCHANGED <<req, rows, status, owner, run, held>>

MemberOf(job) == (CHOOSE row \in rows : row.id = job).member

(* External: a part is given back. *)
Restore ==
  /\ \/ \E p \in Place \ sound :
          /\ sound' = sound \cup {p}
          /\ held' = [w \in Worker |-> IF run[w] # Resting THEN held[w] \cup {p} ELSE held[w]]
          /\ UNCHANGED able
     \/ \E m \in Member \ able :
          /\ able' = able \cup {m}
          /\ held' = [w \in Worker |->
               IF run[w] # Resting /\ MemberOf(run[w].job) = m
                 THEN held[w] \cup {"membership"} ELSE held[w]]
          /\ UNCHANGED sound
  /\ UNCHANGED <<req, rows, status, owner, run>>

-----------------------------------------------------------------------------
(* Dispatcher *)

(* The context has the permission and reaches the tenant, and the tenant   *)
(* is active or degraded; PermissionError or ValueError otherwise.         *)
Enter(r, m, o) ==
  /\ req[r].step = "idle"
  /\ m \in able
  /\ "tenant" \in sound
  /\ req' = [req EXCEPT ![r] = Asking("entered", m, o, NoRequest)]
  /\ UNCHANGED <<sound, able, rows, status, owner, run, held>>

(* _find_by_idempotency_key(): a transaction sees committed rows. *)
Existing(r) == {row \in rows : row.operation = req[r].operation}

(* _assert_idempotent_match(); the key settles all but the requester. *)
Matches(row, r) == row.member = req[r].member

(* Mutant: the caller is given the execution's id, not the job's. *)
AnswerExecution(r) ==
  \E row \in Existing(r) :
    req' = [req EXCEPT ![r] = IF Matches(row, r)
                                THEN Asking("found", req[r].member, req[r].operation, row.operation)
                                ELSE NotAsking]

(* An existing job answers its own requester; IdempotencyConflict rolls    *)
(* everybody else's request back.                                          *)
Answer(r) ==
  \E row \in Existing(r) :
    req' = [req EXCEPT ![r] = IF Matches(row, r)
                                THEN Asking("found", req[r].member, req[r].operation, row.id)
                                ELSE NotAsking]

(* enqueue() looks for its key. *)
Find(r) ==
  /\ req[r].step = "entered"
  /\ IF Existing(r) # {} THEN Answer(r)
                         ELSE req' = [req EXCEPT ![r].step = "missing"]
  /\ UNCHANGED <<sound, able, rows, status, owner, run, held>>

Pending(o) == \E r \in Request : req[r].step = "inserted" /\ req[r].operation = o

(* Mutant: the key is not unique. *)
CollidesNever(r) == FALSE

(* The savepoint's INSERT meets a committed row of the key. *)
Collides(r) == Existing(r) # {}

(* It waits for an uncommitted one; on IntegrityError only the savepoint   *)
(* is rolled back, and the winner's row is looked up.                      *)
Insert(r) ==
  /\ req[r].step = "missing"
  /\ ~Pending(req[r].operation)
  /\ IF Collides(r) THEN Answer(r)
                    ELSE req' = [req EXCEPT ![r] = Asking("inserted", req[r].member,
                                                          req[r].operation, r)]
  /\ UNCHANGED <<sound, able, rows, status, owner, run, held>>

(* The route commits job and audit entry and answers. *)
Commit(r) ==
  /\ req[r].step \in {"inserted", "found"}
  /\ req' = [req EXCEPT ![r].step = "answered"]
  /\ IF req[r].step = "inserted"
       THEN /\ rows' = rows \cup {[id |-> r, operation |-> req[r].operation,
                                   member |-> req[r].member]}
            /\ status' = [status EXCEPT ![r] = "queued"]
       ELSE UNCHANGED <<rows, status>>
  /\ UNCHANGED <<sound, able, owner, run, held>>

(* The process dies, or the audit entry cannot be written. *)
Fail(r) ==
  /\ req[r].step \in {"entered", "missing", "inserted", "found"}
  /\ req' = [req EXCEPT ![r] = NotAsking]
  /\ UNCHANGED <<sound, able, rows, status, owner, run, held>>

-----------------------------------------------------------------------------
(* Worker *)

Holds(p, m) == IF p = "membership" THEN m \in able ELSE p \in sound

(* claim() and its commit *)
Claim(w, j) ==
  /\ run[w] = Resting
  /\ status[j] = "queued" \/ (status[j] = "leased" /\ owner[j] = NoWorker)
  /\ status' = [status EXCEPT ![j] = "leased"]
  /\ owner' = [owner EXCEPT ![j] = w]
  /\ run' = [run EXCEPT ![w] = [job |-> j, step |-> "environment"]]
  /\ held' = [held EXCEPT ![w] = {p \in Part : Holds(p, MemberOf(j))}]
  /\ UNCHANGED <<sound, able, req, rows>>

Lapse(j) ==
  /\ owner[j] # NoWorker
  /\ owner' = [owner EXCEPT ![j] = NoWorker]
  /\ UNCHANGED <<sound, able, req, rows, status, run, held>>

(* Mutant: the membership is not asked for. *)
AfterShort(step) == IF step = "environment" THEN "tenant" ELSE "running"

(* _revalidate_scope() asks for one part after another. *)
After(step) ==
  CASE step = "environment" -> "tenant"
    [] step = "tenant"      -> "membership"
    [] OTHER                -> "running"

Checking(w) == run[w].step \in Part

Passes(w) == Holds(run[w].step, MemberOf(run[w].job))

Revalidate(w) ==
  /\ Checking(w)
  /\ Passes(w)
  /\ run' = [run EXCEPT ![w].step = After(@)]
  /\ UNCHANGED <<sound, able, req, rows, status, owner, held>>

(* The job leaves w's hands; without the lease, InvalidJobState. *)
Close(w, s) ==
  LET j == run[w].job
  IN /\ IF owner[j] = w
          THEN /\ status' = [status EXCEPT ![j] = s]
               /\ owner' = [owner EXCEPT ![j] = NoWorker]
          ELSE UNCHANGED <<status, owner>>
     /\ run' = [run EXCEPT ![w] = Resting]
     /\ held' = [held EXCEPT ![w] = {}]
     /\ UNCHANGED <<sound, able, req, rows>>

(* TerminalJobError: the part asked for does not hold. *)
Reject(w) == Checking(w) /\ ~Passes(w) /\ Close(w, "dead_letter")

(* The handler returns or raises. *)
End(w) ==
  /\ run[w].step = "running"
  /\ \E s \in {"completed", "queued", "dead_letter"} : Close(w, s)

(* The worker dies with its lease. *)
Die(w) ==
  /\ run[w] # Resting
  /\ run' = [run EXCEPT ![w] = Resting]
  /\ held' = [held EXCEPT ![w] = {}]
  /\ UNCHANGED <<sound, able, req, rows, status, owner>>

Next ==
  \/ Revoke \/ Restore
  \/ \E r \in Request : \/ \E m \in Member, o \in Operation : Enter(r, m, o)
                        \/ Find(r) \/ Insert(r) \/ Commit(r) \/ Fail(r)
  \/ \E j \in Request : Lapse(j)
  \/ \E w \in Worker : \/ \E j \in Request : Claim(w, j)
                       \/ Revalidate(w) \/ Reject(w) \/ End(w) \/ Die(w)

Spec == Init /\ [][Next]_vars

(* Seen by the worker, what is committed here is submitted to a JobLease.  *)
Lease == INSTANCE JobLease WITH
           Job <- Request, NoJob <- NoRequest, work <- [w \in Worker |-> run[w].job]

UsesLease == Lease!Spec

-----------------------------------------------------------------------------
(* Properties *)

(* An operation is carried out by one job however many requests race for   *)
(* it, fail and come again, and every answered request was given the id of *)
(* a committed job that its own membership asked for.                      *)
OneJobPerOperation ==
  /\ \A i, j \in rows : i.operation = j.operation => i = j
  /\ \A r \in Request : req[r].step = "answered" =>
       \E row \in rows : /\ row.id = req[r].job
                         /\ row.operation = req[r].operation
                         /\ row.member = req[r].member

(* No handler runs on a scope that was gone when its job was claimed: each *)
(* part, the requester's rights included, has held at some moment since    *)
(* this attempt was claimed.  What is revoked later does not stop it.      *)
RunsOnLiveScope == \A w \in Worker : run[w].step = "running" => held[w] = Part
=============================================================================
