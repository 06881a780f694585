# IT-Console V2+: a TLA+ model of its jobs, syncs, tenants, access and audit chain

This directory holds TLA+ modules that model parts of `src/PREVIEW`, TLC
configurations that check them on small instances, and proofs for the TLA+
proof system. `PROJECT.json` lists the runs, the source lines of every
definition, the hazards and the theorems. The code is Python with SQLAlchemy on
PostgreSQL (READ COMMITTED), a Flask web process, and a worker that runs either
as a process of its own or as a thread of the web process.

## The system

Paths are relative to `src/PREVIEW`.

| part | state it keeps | operations | interacts with |
|---|---|---|---|
| durable queue, `jobs/queue.py`, `jobs/models.py` | `durable_jobs`, `job_dead_letters` | enqueue, claim, heartbeat, complete, abandon, dead_letter | dispatchers insert; workers claim; the database's row locks arbitrate |
| worker loop, `jobs/process.py`, `jobs/worker.py`, `jobs/embedded.py` | a loop, its envelope, a stop flag | run_forever, run_cycle, run_once, request_stop | the queue; a capability handler; the clock |
| dispatchers, `jobs/dispatcher.py` | none | permission, grant and status check, enqueue, audit | queue, audit chain, one transaction |
| full-sync handlers, `capabilities/{accounts,devices,licenses,app_audit,software,teams,sharepoint}` | rows with `last_seen_sync_id`, a checkpoint per job | page loop, upsert, final delete | Graph, queue heartbeat |
| watermark handlers, `capabilities/{signin_logs,defender,sentinel}` | append-only events, a checkpoint with a pinned window | page loop, insert | Graph, queue heartbeat |
| audit chain, `platform/audit.py` | `environment_audit_logs`, `environment_audit_chain_heads` | record_audit, verify_audit_chain, verify_chain_against_anchor | every mutation's transaction |
| audit anchors, `platform/audit_anchor.py` | one append-only file per environment | write, latest | manage.py commands, the verifier |
| onboarding and connection test, `microsoft/onboarding_service.py`, `web/microsoft/routes.py` | tenant and connection status | create, test, apply the result | Graph, the client factory, audit |
| Graph client, `microsoft/factory.py`, `microsoft/graph_client.py` | none | pick a connection, request, classify errors | token broker |
| token broker, `microsoft/token_broker.py` | cached applications by credential version | acquire | Microsoft |
| request context, `web/context.py`, `web/environments/routes.py` | session: membership version, active tenant | build the context, switch | memberships, grants |
| control plane, `control_plane/service.py`, `platform/permissions.py` | environments, memberships and their versions, roles | create_environment, add_membership, assign roles | audit, context |
| login, `web/auth/routes.py` | failed_login_count, locked_until, OAuth flow in the session | login, Entra callback, link | audit |

What is hard in it:

* **Leases.** A job is leased for a time, and nothing stops a worker that
  overran its lease from writing except `_owned_lease()`, which reads the row and
  writes later. Correct means: an attempt is handed to one worker, a worker
  without the lease changes nothing, a leased job can always be claimed again,
  the retry budget ends every job in `completed` or `dead_letter`, and the
  dead-letter table agrees with the rows.
* **Worker loops.** One loop serves many environments, takes its list of them
  once per cycle, may be killed or asked to stop anywhere, and runs lease
  operations inside `except` clauses. Correct means: what the queue offers is
  taken while a worker lives; a stop drains.
* **Audit.** Writers of one environment share a chain head. Correct means: the
  committed chain verifies whatever interleaves, fails or rolls back; anchors
  match it for ever; the verifier is right about it.
* **Syncs.** Pages are read across awaits and written by workers that may have
  been overtaken; the final delete removes what this sync did not see. Correct
  means: a completed sync leaves exactly what Graph holds; a checkpoint is never
  ahead of its rows.
* **Incremental syncs.** The next window begins at the newest stored event, so
  one page missing behind a stored one is missing for good. Correct means: the
  watermark passes over nothing that appeared in time; a resumed sync keeps its
  window.
* **Tenants.** A connection test reads two statuses, waits for Graph and writes
  over whatever they have become, while workers degrade the connection. Correct
  means: nothing is usable before Graph confirmed it; a test that fails does not
  throw out a tenant in use; a degraded connection can be revived.
* **Access.** Sessions carry a membership version, sign-ins a login row that was
  read before the password was verified, jobs the identity of who asked for
  them. Correct means: a change of a membership ends its sessions; a browser
  shows nobody what another user entered; a lock has its wrong passwords; an
  operation is one job; no handler starts on a scope that was gone when its job
  was claimed.

## Modules

| module | models | kind |
|---|---|---|
| `JobQueue` | `PgJobQueue` and its two tables, one transaction at a time per worker | component |
| `JobLifecycle` | what the queue promises of one job: attempts within a budget, one end | abstract specification |
| `JobLease` | what the queue promises its clients: who holds the active lease of a job, and who still works without it | abstract specification |
| `WorkerProcess` | the loops and `run_once`, over an instance of `JobQueue` | composition |
| `Dispatch` | dispatchers, idempotent `enqueue()`, and `_revalidate_scope()` at the other end | composition |
| `FullSync` | the full-sync handlers of one managed tenant, over leases that may lapse at any moment | component |
| `WatermarkSync` | the incremental handlers of one managed tenant, likewise | component |
| `TenantConnection` | onboarding, connection tests, client factory, token cache, degrading handlers | composition |
| `Access` | sign-in, session keys, memberships | composition |
| `AuditChain` | `record_audit`, anchors and verification of one environment | component |
| `MC*` | instances for TLC | |
| `*Proofs` | theorems, one module for each component | |

`JobQueue` is where the details of a lease are: `WorkerProcess` uses all of it,
and the modules of the handlers and `Dispatch` reduce it to "who holds an active
lease", which may end at any moment. `JobLease` is that reduction as a
specification of its own. The queue implements it (`ImplementsLease`, for
transactions that are short against the clock), and the modules that reduce the
queue use it as it is (`UsesLease` in each of them), so neither side relies on
anything the other does not give. `TenantConnection` is where the details of a
connection are; to `WatermarkSync` a refusal by Graph may come at any time, and
`FullSync` keeps whether the connection is active.

### JobQueue

`jobs` is `durable_jobs`, `deadLetters` is `job_dead_letters`, `envelope[w]` the
`JobEnvelope` a worker holds, `txn[w]` its open transaction and what that
transaction has read. Each queue operation is two steps, a read and a commit,
because that is where others come in: `ClaimSelect` locks a row (`FOR UPDATE
SKIP LOCKED`) and `ClaimCommit` makes the lease visible; `CheckLease` is
`_owned_lease()`'s plain SELECT, and `HeartbeatCommit`, `CompleteCommit`,
`AbandonCommit` and `DeadLetterCommit` are the UPDATEs that follow, which write
the changed columns only and wait for a row another worker has locked.
`DeadLetterConflict` is the unique `job_id` of the dead-letter table. A worker
may vanish at any step, and its name may come back.

`Stall` says what the clock may do meanwhile: FALSE, no time passes inside a
transaction; TRUE, any time may. `claim()` breaks ties by `available_at` and
creation; the model lets equal candidates be taken in any order. `MaxNow`
bounds the clock in `Tick`'s guard, and with it the number of attempts.

### WorkerProcess

`run_forever` as a program counter per loop: the stop flag is looked at before
each cycle and each environment (`StartCycle`, `AtNextEnvironment`), the list of
environments is what the queue offered when the cycle began, and `run_once` ends
in one of complete, abandon, dead-letter or an exception that ends the loop
(`LoopDies`). `Overrun` lets a handler outlive its lease, `Mortal` is the set of
workers that may be killed or asked to stop. Its actions are those of the
`JobQueue` instance with the loop's own state around them, or leave the queue
alone, so they are steps of the queue by construction. What is the loops' own is
in the properties: `LeasedIsInHand`, `StopDrains`, and, of the list that is stale
from the moment it was read, `EnvironmentsServed` (an environment that is struck
off had a job of it leased to this loop, or had nothing left to offer, or the loop
is at its end).

### AuditChain

`entries` and `head` are the committed rows; `txn[w]` is what a writer's session
has read and added; `holder` and `referrers` are the environment row's FOR
UPDATE and FOR KEY SHARE holders. `RequestLock`, `AcquireLock`, `ReadHead` and
`RecordEntry` are `record_audit()`, `Commit` and `Rollback` its caller's. SHA-256
is taken to be injective and a hash is written as its preimage. The three steps
of a verification are its three queries. The listeners that keep rows
append-only are the absence of an action that changes a row.

### FullSync

`rows[o]` is the `last_seen_sync_id` of an object's row, `checkpoint[j]` the row a
sync job commits after each page, with the page in place of the nextLink, and
`run[w]` what a worker's handler is doing: its job, whether the checkpoint it
inserted is still uncommitted (`fresh`), the response it waited for, and the status
of the connection object its session holds (`known`). The
queue is reduced to `status` and `owner`, whose lease `Lapse` may end at any
moment. `Begin` finds or inserts the checkpoint, `Request` is the awaited Graph
call, and `WritePage` all that follows it up to the commit: upsert, checkpoint,
heartbeat. `Finalize` is the last turn of the loop and `finalize_full_sync()`,
which looks at no lease. `Degrade` commits on its own when Graph refuses the
tenant; `ApplyTestResult` is a connection test of the onboarding pages, which
also may degrade the connection. Every other failure rolls back and ends in
`Abandon`, `DeadLetter` or, with the lease lost, `Leave`.

A page is a set of objects and its order is `PageOf`; an object that stays in the
directory is assumed to be shown on one page. The second phase of licenses and
application audit is more pages. `PerObject` says that the handler asks Graph
about each object of a page, as Teams and SharePoint do: the objects that were
upserted before such a request is refused are then committed with the degraded
connection, without a look at the lease. Whether that commit happens
depends on the connection object in the session, not on the row: the client keeps
the object alive, a commit expires it, and the next request loads it again
(`known`). So an overtaken worker that still holds "active" commits its part of a
page although the row has long been degraded, and one that holds "degraded" just
fails. (Accounts and devices commit in either case, but a worker that does not
hold "active" has nothing uncommitted: a fresh checkpoint comes with an active
connection.) TLC checks the properties with `PerObject`, the proofs hold for both
values.
`disturbed` is not in the code: it records what Graph or another sync changed
since a sync began, which the properties except.

### WatermarkSync

An event is its place in Graph's order and `Created` its time; `published` is what
Graph shows, and `Publish` may show an event behind later ones, which makes it
`late`. A job's checkpoint has its window, the place of its nextLink, and `asked`
(history: what Graph showed when the sync began). `Insert` computes the window from
the newest stored event, `Cut` to whole seconds as the filter is, or from now if
nothing is stored; `WindowOf` is the one that counts when the handler was resumed.
`IsPage` is what a request may return: the events next to the link, in
Graph's order, of any number. `WritePage` is upsert, checkpoint and heartbeat in
one commit; `Finish` looks at no lease; `Degrade` commits a checkpoint that was
inserted before the request. A page that another sync of the tenant has stored
is not stored twice.

### TenantConnection

`tenant` and `connection` are the two status columns. `req[r]` is what a web
request has loaded: SQLAlchemy keeps an object as it was loaded, and a flush
writes only columns that differ from it, so `Apply` compares with, and writes
over, values that may be old. `Check` and `Create` are the lookup and the commit
of onboarding; `Load`, `Ask` and `Apply` a test. `client[w]` is a worker's
Graph client with the connection object it was made from; `Available` is the
factory's filter, `Acquire` the token cache with its key. `Rotate` is external: no code
under `src/` replaces a credential, and it stands for an operator who does.
`confirmed` is history. The audit entry of a test is in the transaction that applies it;
that of a creation is a transaction of its own after `Create` (see Disagreements).

The two statuses are written by transactions that overlap, and the model shows
that they need not agree: a tenant may end up pending with an active connection,
or active with a degraded one, until the next test. The properties say what
holds in spite of that.

### Access

`member[p]` is the version of a membership, 0 if there is none; `change[c]` what an
operator's request has read; `login` the row of one local login, of either
table, and `attempt[b]` the row a sign-in has loaded before it verifies the
password. `session[b]` has the keys of a browser's session that decide anything.
Each route is one action, and a sign-in by password two: `BeginLogin` loads the
row, locked or not, and `RightPassword`, `WrongPassword`, `CountUnverified` or
`DropLogin` is its end. `login()` asks `is_locked()` twice and reads the clock each time.
A row that was locked at the first look is not verified; if the lock has passed by the
second, `_lock_if_needed()` counts a failure and locks again although no password
was looked at (`CountUnverified`, counted by `slipped`). A browser waits for its
response. `by`, `stale`, `torn`, `wrong`, `slipped` and `crossed` are history.

Two things the model shows are stated in the properties as exceptions: two
changes of one membership that overlap may write one version twice (`torn`), and
then a session that saw the first of them remains valid; and of two sign-ins
that overlap the slower one writes its count over the other's (`crossed`), so
that a wrong password may not count. An Entra identity is linked to whoever
is signed in when the callback arrives. Roles, permissions and grants are data:
a request they refuse changes nothing or drops the tenant.

### Dispatch

`sound` is the set of places (environment, tenant) that are active and `able` the
memberships that may sync; `Revoke` and `Restore` change them at any moment, in
part by routes and in part by operators, since nothing under `src/` suspends a
membership. `Enter` is a dispatcher's checks, `Find` the first lookup of
`enqueue()`, `Insert` its savepoint (a row that collides with a committed one is
answered with that one, and with a pending one waits for it), `Commit` and `Fail`
the route's transaction. A dispatcher takes the operation as an argument; the
routes leave it out, and then every request has its own. `Claim`, `Revalidate` and
`Reject` are the worker: `_revalidate_scope()` reads part after part, each in a query
of its own, so the scope is one that need never have held all at once.
`RunsOnLiveScope` says what is left of the promise. A grant revoked while the
handler runs does not stop it.

## Runs

| run | question | bounds |
|---|---|---|
| `queue_short` | do leases fence their holders, do budget and dead letters agree, is the queue a `JobLifecycle` and a `JobLease`, when transactions are short? | 2 workers, 2 jobs, 2 attempts, lease of 2, clock to 4 |
| `queue_stall` | what survives when time passes inside transactions? | the same, clock to 3 |
| `queue_attempts` | is a crashing job's budget enforced? No | the same |
| `worker_loop` | do two loops hold only the row in hand, serve every environment of a stale list, drain, and take what is offered? | 2 loops, one of them mortal, 2 jobs in 2 environments, 2 attempts, lease of 1, clock to 1 |
| `worker_stranded` | does the embedded thread process what is queued? Not after an overrun | 1 immortal loop, 2 jobs in 2 environments |
| `audit_chain` | does the chain stay intact, do writers collide or deadlock, do anchors verify and bind, is the verifier right? | 2 writers, 2 anchor runs, 3 entries, 2 anchor lines |
| `full_sync` | is a checkpoint covered by its rows, is a completed sync exact, can a late response set a sync back or touch a completed one? | 2 jobs, 2 workers, 2 objects on 2 pages, of which one comes and goes; with per-object requests |
| `sync_overlap` | may a completed sync leave out what the directory holds? Yes, after an overlap | the same, with a directory that does not change and no per-object requests |
| `watermark_window` | does the watermark pass over an event, does a resumed sync keep its window and have all of it? | 2 jobs, 2 workers, 3 events, two of them in one second and two that appear in any order |
| `tenant_tests` | is nothing usable before Graph confirmed it, is an active tenant cut off, do tests revive a connection? | 2 requests, 1 worker, 2 versions of the credential |
| `access_sessions` | are sessions their user's own, does a changed membership end them, do failures count? | 2 principals, 1 identity, 2 browsers, 2 operators, versions to 2, 3 failures, lock at 2 |
| `dispatch_scope` | is an operation one job, does a handler start on a dead scope? | 3 requests, 2 members, 2 operations, 2 workers |

Two workers are enough for a lease to be lost to somebody, and both may then act
on it; two jobs let a worker hold one lease while it has another one's stale
envelope. Two attempts give a first, a last, and one too many; a lease of two
ticks separates active, expiring and lapsed. Three entries give the audit chain a
first, a middle and a last row and a transaction with several; two anchor runs
can append in the wrong order. Two pages have a first response, which comes with
an uncommitted checkpoint, and a last, after which the sync is finalized; the
second job is both the other sync of the tenant and the job that goes on while
the first is retried. Three events of two seconds give a window that begins in the
middle of a second, and one event that may appear before, between or behind the
others. Two browsers and two operators are two actors of each kind that overlap;
two versions are an entry and a change, and a second change over the first gives
the same number again; two failures lock, one does not, and a third comes after a lock
has passed. Two jobs in two environments make a loop's list stale: while it serves the first,
the other loop takes, retries or lets lapse what the second offered, and one tick of the clock is enough
for a lease to lapse under a loop at work. Three requests for two operations let two collide while a
third goes on. Two requests let a test be overtaken by a test, and the worker
degrades meanwhile. What no bound limits, the proofs cover.

Every history variable is bounded by the state it describes; `MaxNow`, `MaxVersion`,
`MaxWrong`, `MaxEntries`, `MaxAnchors`, `Horizon` and `Versions` are the bounds that
appear in guards.

`worker_loop` assumes weak fairness of each loop's own steps (an operating system
schedules threads) and strong fairness of a handler's end (Graph's pages are
finite, its calls have timeouts). Nothing is assumed of the clock, of kills, of
stop requests or of new jobs. `tenant_tests` assumes strong fairness of a
request's next step once it has loaded its rows: its HTTP client gives up after 30
seconds, and processes do not die in every test. That administrators test again, alone, and
that Graph answers as this tenant are hypotheses of `RepeatedTestsRecover`.

The configurations of the worker loops, `sync_overlap` and `watermark_window` do not
check for deadlock, since all loops or all jobs may have ended; every other run
does, and there polling, rollback and the environment keep the system moving.

### What the violations show

* `queue_attempts`: `claim()` increments `attempt` but only `abandon()` compares it
  with `max_attempts`, so a job that kills its worker is retried for ever. Lapsed
  leases are the only cause: `BudgetOverrunByLapse` says so of the step that goes
  over, `AttemptsBoundedInTime` of behaviours without a lapse, and
  `TimelyLoopsKeepBudget` of workers that are not killed and renew in time.
* `worker_stranded`: `abandon()` raises `InvalidJobState` inside an `except` clause
  of `run_once`, and the only loop ends. A lapsed lease is again the only cause:
  `LoopsDieOfOverrunsOnly`.
* `sync_overlap`: a second sync of the tenant stamps a page that the first has
  passed; the first then finalizes and deletes those rows, which Graph still
  shows. The second goes on after that page and completes without them; they are
  back only with the next sync. `AloneLosesNothing` proves that it takes an overlap.

### What the passing runs say about weak spots

* `_owned_lease()` reads without a lock, so a worker stalled between that read and its
  commit writes to a row somebody else has been leased: `LeaseFences` is claimed
  for `Stall = FALSE` only, and fails with TRUE. `queue_stall` shows what holds all the same.
* A transaction that inserted a job shares a lock on the environment's row and
  then asks for it exclusively. `OnlyReferrersDeadlock` says that two such
  transactions are the only ones that can be stuck, until PostgreSQL aborts one.
* The verifier's rows, head and anchored row come from three snapshots.
  `VerdictExplained`: it is wrong about an intact chain only if an entry was
  committed meanwhile.
* `CompletedIsFinal`, one half of `OvertakenIsHarmless`, has one exception,
  `PerObject`'s commit on degrade, by a worker whose session holds the connection as
  active; that the row says degraded already does not stop it.
* A lock that passes while `login()` looks at it twice costs a failure nobody made, and
  the account is locked for another `LOCK_MINUTES`. `FailuresCounted`: this happens only
  from a lock that wrong passwords have brought about.

### Disagreements

The three violations are run by TLC. One more disagreement with a document needs no
model checker, since every schedule shows it: 09-development-standards.md:110 and
05-security-operations.md:61 ask that a high-risk mutation and its audit entry are one
transaction, rolled back together. `create_byo_managed_tenant()` commits tenant and
connection (`microsoft/onboarding_service.py:72`) before its route calls
`record_audit()` (`web/microsoft/routes.py:121`), so a failure in between leaves a tenant
that no entry mentions. No property of the model excuses or depends on it.
* `LeasedIsInHand` holds because a loop that cannot give its row back dies. Were the
  exception caught in `run_cycle`, the loop would go on with a row it is still
  the owner of, and only the lapse of that lease would tell the two apart.

## Proofs

Everything under "theorems" is checked by `tlapm`, for any number of jobs,
workers, writers, entries, events, browsers and requests and any values of the limits, from the named
assumptions in the modules (disjointness of names such as `NoWorker` and `NoWriter`, ranges of
the numbers, events in order of their creation).

`JobQueueProofs`. `TypeOK` with `ClaimInv` is inductive for both values of
`Stall`: a selected row is locked by one worker, so the attempt it is about to
write is nobody else's; it gives `ClaimExactlyOnce` and, with the types,
`LeaseRecoverable`. The rest needs `Stall = FALSE`: `ShortInv` says that what an
open transaction read of the row still holds when it commits, since no time has
passed and nobody else may write. From it follow the budget, the dead letters,
the two fencing properties (action properties) and the refinement of
`JobLifecycle`, one step per action; `JobLease` likewise, whose owner is the row's
while the lease is active, and whose `Lapse` is what `Tick` does to every lease
that runs out at once. The only step that takes `attempt` over `max_attempts` is a
claim, and `QueuedHasBudget` leaves it lapsed rows only (`BudgetOverrunByLapse`); where
none lapses `AttemptsBounded` is inductive (`AttemptsBoundedInTime`). `DeadLetterRecorded` holds for both values of `Stall`,
by `Numbered`: what was ever leased has an attempt number, so a dead letter never
looks like none.

`WorkerProcessProofs`. `LoopsImplementQueue` is a lemma that holds by construction, the
bridge to what is proved of the queue. The one thing to know of the loop's state is that its list
holds environments (`CycleOK`), so the one whose turn it is, the least left, exists.
By an instance of `JobQueueProofs` (`QP`) everything proved of the queue is
then proved of the loops (`LoopsKeepQueueSafe`, `ShortLoopsKeepPromises`,
`ShortLoopsImplementAbstractions`). What only the loops can promise rests on
`LoopInv`: where a loop's program counter is tells whether it has an envelope and a
transaction (`Settled`), and rows leased to it are the one in hand (`InHand`). Each way
out of `run_once` is one case, and `RowsKept` says that only the commit of a claim
leases a row. It gives `LoopHoldsOneRow`, and the safety half of `StopDrains`
(`StopGoesDownhill`): `Left` is a bound on the steps a stopped loop has left, which
its own steps lower, but for a page's heartbeat, and nobody else raises. Since a claim
under way is always of the environment whose turn it is (`InTurn`), a cycle skips none that it
listed, and it lists all that are offered something: `CyclesServeTheirLists`, which is
`EnvironmentsServed` for any environments and loops.
With short transactions and no overrun, a loop at work owns its lease
(`Timely`): others cannot claim or write its row (`OthersStepTimely`), and the
clock waits for a renewal. So an except clause never raises and dead loops were
killed (`LoopsDieOfOverrunsOnly`); and without kills no lease ever lapses, which is
the hypothesis of `AttemptsBoundedInTime` (`TimelyLoopsKeepBudget`).

`AuditChainProofs`. `ChainIntact` alone is not inductive, since a commit adds rows
that were computed earlier. `ChainInv` adds that only the lock's holder has
rows pending (`LockInv`), that with them the chain verifies and that they come
after the committed ones (`PendingInv`), and that a head once read stays anchored
(`NotedInv`). The step that matters is `EntryVerifies`: one entry after the head
of a chain that verifies leaves a chain that verifies. `CheckInv` says what the
verifier knows between its queries: its rows are committed ones, and if they still are
all of them its verdict so far is valid. `AnchorsBind` goes down from the anchored row:
equal hashes have equal contents and equal predecessors, so there is no greatest
row on which the two chains differ (`AgreeUpTo`).

`FullSyncProofs`. `CheckpointCovered` is about committed rows only; `SyncInv` adds
what workers still hold. One worker at a time has an uncommitted checkpoint, and
the others work from a committed one (`RunInv`); a worker that waits with its
lease waits for the page its checkpoint is at, and knows that page's objects but
for disturbed ones (`HolderInv`); with or without the lease, its response shows
only what Graph has held since the sync began (`FoundInv`); and a stamp is found
on pages before the checkpoint, or on an object that Graph holds or that was
disturbed (`StampInv`), so an object that a page no longer shows cannot have the
stamp yet. Steps of the queue are one lemma (`QuietStep`), the others one each.
`CompletedExact` and `OvertakenNeverHarms` (by `CheckpointNeverBack` and
`CompletedStaysFinal`; `FailStep` is the worker whose session does not say active) are action properties that follow from it: the lease is what stops an overtaken response in
`WritePage`, and in `Finalize`, where none is checked, it is the checkpoint that
only its last page's commit can have brought to the end. `AloneLosesNothing` has one
more invariant: while syncs of the tenant do not overlap, which is its hypothesis
(`Alone`, from the first request to the completed checkpoint), only Graph
disturbs a sync (`Confined`), and the exception of `CompletedSyncIsExact` is void.
`SyncsUseLease`: every action that touches `status`, `owner` or a worker's job is a step
of `JobLease`; `SyncLeavesQueueFree` is the converse for what the queue decides, that a
job may be taken and a lease lapse whenever `JobLease` allows it (leases that lapse
at once do so one after the other here).

`WatermarkSyncProofs`. That a window begins where the stored events end is of use
only if nothing is missing before them. `StoredInv` says so (`Seamless`: before a
stored event, every event that appeared in time is stored), `CheckpointInv` that
windows begin no later than some stored event (`Based`) and that a sync has stored
what it was asked for up to its place (`Covers`), `PageInv` that a page in hand leaves no
gap between what is stored and its own end, whatever others store meanwhile. A
request is the hard case: its page begins next to a link or at the window,
and the newest stored event, which `WFMin` finds, shows that nothing lies between.
`SyncsUseLease` and `SyncLeavesQueueFree` are as in `FullSyncProofs`.

`TenantConnectionProofs`. What a request or a client has loaded is as much a claim
as what is in the rows: `ConfirmedInv` covers all three. `TestsClimb` is `RepeatedTestsRecover` without its
fairness: tenant and connection exist together (`PairedAlways`), and from a state in
which a test under way has read the rows as they are (`Settled`, true when none is,
`ClosedIsSettled`), while tests come one at a time, no sync is connected and no answer is
bad, `Rank` never falls and every test that ends raises it by one, up to
active: a degraded connection takes two tests.

`AccessProofs`. Until two changes overlap, versions grow, so a session that saw an
older one has a smaller number (`Seen`); a login row in a slow sign-in's hands is backed
by as many wrong passwords as the one stored (`Backed`). `EffectiveChange` and
`CountedFailures` have exceptions for overlaps (and the latter counts apart what slipped in
while a lock passed); `ApartChangesEffective` and
`LoneSignInsExact` state both without them, for behaviours in which operators do not
change one membership at once (`Untorn`: a change writes over what it has read) and
sign-ins of the account do not overlap (`Uncrossed`): then the count is the wrong passwords
and what slipped in, nothing slips in before the wrong ones have reached the limit, and the account is
locked exactly from there on.

`DispatchProofs`. `KeyInv` says that a key has one row, committed or pending, and a pending
one is nobody else's; `AnswerInv` that what a request was told is in the table; and
`ScopeInv` that a worker's step tells which parts it has seen to hold. Claims and
ends are steps of `JobLease` (`WorkersUseLease`), and any claim it allows begins a
worker's checks (`ClaimIsLeaseTake`).

Only model-checked: liveness (`OfferedIsTakenByLiveWorker`, `StopDrains`,
`RepeatedTestsRecover`), which needs fairness and ENABLED, and the counterexamples. The safety half of
each is proved (`CyclesServeTheirLists`, `StopGoesDownhill`, `TestsClimb`): what is left
to TLC is that the steps are taken.

## Not modelled

Row-level security and column types (PostgreSQL's own behaviour), the SQLite
mode of the tests, templates and read-only queries, cryptography (Fernet, HMAC
signatures, key derivation, password hashing), migrations, the CLI, the
application factory, metrics and logging. Of the parts that are modelled, these are
left out or abstract:

* which roles, permissions and grants there are: a request is allowed or not;
* the row contents of the capabilities, and their rejection of malformed responses
  beyond "the job is retried" and "the job is dead-lettered";
* `_retry_after` and `_allowed_url` of the Graph client, whose numbers and URLs change
  nothing in the models: a delay is any natural number there;
* the anchor file's format and signature;
* how long PostgreSQL lets a transaction wait. `FullSync` holds a flushed
  checkpoint, and with it a share of the environment's row, across its first
  request; that every audit entry waits for that long is seen in neither
  `FullSync`, which has no lock, nor `AuditChain`, which has no clock.

## What is left

The order in which the modules were written is that of the table above but for
`AuditChain`, which came third, and `JobLease`, which came last. Worth doing next:
the environment's row lock shared by `AuditChain` and the handlers; a lease
abstraction for transactions that time passes in (with `Stall = TRUE` the queue does
not implement `JobLease`, since a stalled heartbeat revives a lapsed lease);
bootstrap of the first operator; and what becomes of an environment when
`create_environment()` fails between its two commits: its slug is taken, and no
other code creates its roles.
