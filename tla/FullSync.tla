------------------------------ MODULE FullSync ------------------------------
(***************************************************************************)
(* The full-sync handlers (capabilities/accounts, and devices, licenses,   *)
(* app_audit, software, teams and sharepoint, which share their shape),    *)
(* for the syncs of one managed tenant.  A sync walks the pages of a Graph *)
(* collection, stamps each row it meets with its job id, and at the end    *)
(* deletes the rows that carry another stamp.                              *)
(*                                                                         *)
(* What the queue does is reduced to whom it has leased a job to.  A lease *)
(* may lapse at any moment, so a worker may still be busy with a job that  *)
(* another one has been given; heartbeat, complete, abandon and            *)
(* dead_letter fail for it.  The check of a lease and the commit that      *)
(* rests on it are one step: what happens between them is JobQueue's.      *)
(*                                                                         *)
(* Only the Graph request is awaited.  What follows a response is one      *)
(* transaction up to its commit, and one step; where two such transactions *)
(* meet in a row, one waits for the other or fails.  The session expires   *)
(* at commit, so each turn of the page loop reads the checkpoint again.    *)
(*                                                                         *)
(* Graph's paging is assumed to show an object that stays in the directory *)
(* on one page.                                                            *)
(***************************************************************************)
EXTENDS Integers

CONSTANTS Job,       \* the sync jobs of one tenant
          NoJob,     \* a worker without a job
          NoSync,    \* last_seen_sync_id IS NULL
          NoRow,     \* no row for the object
          Worker,
          NoWorker,  \* nobody's lease is active
          Object,    \* Graph object ids
          Changing,  \* those that may enter or leave the directory
          Pages,     \* pages of the collection
          PageOf,    \* the page that shows an object
          PerObject  \* does the handler ask Graph about each object of a page?

ASSUME NameAssumption == /\ {NoJob, NoSync, NoRow} \cap Job = {}
                         /\ NoSync # NoRow
                         /\ NoWorker \notin Worker
ASSUME PageAssumption == /\ Pages \in Nat \ {0}
                         /\ PageOf \in [Object -> 1 .. Pages]
                         /\ Changing \subseteq Object
                         /\ PerObject \in BOOLEAN

VARIABLES graph,       \* the objects in the tenant's directory
          rows,        \* last_seen_sync_id of each object's committed row
          checkpoint,  \* each job's committed checkpoint
          status,      \* each job's status in the queue
          owner,       \* who holds an active lease of each job
          run,         \* what each worker is doing
          connection,  \* status of the tenant's connection
          disturbed    \* history: what Graph or other syncs changed since a sync began

vars == <<graph, rows, checkpoint, status, owner, run, connection, disturbed>>

End == Pages + 1       \* next_resource IS NULL

NoCheckpoint == [page |-> 0, status |-> "absent"]

(* fresh: the checkpoint is inserted and not committed.  known: the status *)
(* of the connection object in the worker's session, "none" if it is not   *)
(* loaded or expired at a commit.                                          *)
Doing(j, step) == [job |-> j, step |-> step, fresh |-> FALSE, known |-> "none",
                   page |-> 0, found |-> {}]

Idle == Doing(NoJob, "idle")

Step == {"idle", "start", "page", "await", "close", "failed"}

Run == [job : Job \cup {NoJob}, step : Step, fresh : BOOLEAN,
        known : {"none", "active", "degraded"}, page : 0 .. Pages, found : SUBSET Object]

SyncCheckpoint == [page : 0 .. End, status : {"absent", "running", "completed"}]

TypeOK ==
  /\ graph \subseteq Object
  /\ rows \in [Object -> Job \cup {NoSync, NoRow}]
  /\ checkpoint \in [Job -> SyncCheckpoint]
  /\ status \in [Job -> {"queued", "leased", "completed", "dead_letter"}]
  /\ owner \in [Job -> Worker \cup {NoWorker}]
  /\ run \in [Worker -> Run]
  /\ connection \in {"active", "degraded"}
  /\ disturbed \in [Job -> SUBSET Object]

(* The table may hold rows of earlier syncs or of seed-demo, current or not. *)
Init ==
  /\ graph \in SUBSET Object
  /\ rows \in [Object -> {NoSync, NoRow}]
  /\ checkpoint = [j \in Job |-> NoCheckpoint]
  /\ status = [j \in Job |-> "queued"]
  /\ owner = [j \in Job |-> NoWorker]
  /\ run = [w \in Worker |-> Idle]
  /\ connection = "active"
  /\ disturbed = [j \in Job |-> {}]

-----------------------------------------------------------------------------
(* The queue *)

On(w, step) == run[w].step = step

(* Mutant: the heartbeat looks at the status alone. *)
OwnsAnyLease(w) == status[run[w].job] = "leased"

Owns(w) == owner[run[w].job] = w

(* claim(): a queued job, or one whose lease has lapsed. *)
Take(w, j) ==
  /\ On(w, "idle")
  /\ status[j] = "queued" \/ (status[j] = "leased" /\ owner[j] = NoWorker)
  /\ status' = [status EXCEPT ![j] = "leased"]
  /\ owner' = [owner EXCEPT ![j] = w]
  /\ run' = [run EXCEPT ![w] = Doing(j, "start")]
  /\ UNCHANGED <<graph, rows, checkpoint, connection, disturbed>>

Lapse(j) ==
  /\ owner[j] # NoWorker
  /\ owner' = [owner EXCEPT ![j] = NoWorker]
  /\ UNCHANGED <<graph, rows, checkpoint, status, run, connection, disturbed>>

(* The job leaves w's hands with status s. *)
Close(w, s) ==
  /\ Owns(w)
  /\ status' = [status EXCEPT ![run[w].job] = s]
  /\ owner' = [owner EXCEPT ![run[w].job] = NoWorker]
  /\ run' = [run EXCEPT ![w] = Idle]
  /\ UNCHANGED <<graph, rows, checkpoint, connection, disturbed>>

Complete(w) == On(w, "close") /\ Close(w, "completed")

(* RetryableJobError or any other exception: a refused client, a failed    *)
(* request, a row two transactions met in.  abandon() requeues the job or, *)
(* out of attempts, dead-letters it.                                       *)
Abandon(w) ==
  /\ run[w].step \in {"start", "page", "await"}
  /\ \E s \in {"queued", "dead_letter"} : Close(w, s)

(* TerminalJobError: an invalid response, or after Degrade. *)
DeadLetter(w) ==
  /\ run[w].step \in {"start", "page", "await", "failed"}
  /\ Close(w, "dead_letter")

(* The worker dies, or meets InvalidJobState in a lease operation. *)
Leave(w) ==
  /\ ~On(w, "idle")
  /\ run' = [run EXCEPT ![w] = Idle]
  /\ UNCHANGED <<graph, rows, checkpoint, status, owner, connection, disturbed>>

-----------------------------------------------------------------------------
(* The handler *)

(* job_id is unique among the checkpoints, so an INSERT waits for another  *)
(* one that is not committed.                                              *)
Inserting(j) == \E w \in Worker : run[w].job = j /\ run[w].fresh

InProgress(j) == checkpoint[j].status = "running" \/ Inserting(j)

Insert(w, j) ==
  /\ checkpoint[j].status = "absent"
  /\ ~Inserting(j)
  /\ connection = "active"
  /\ run' = [run EXCEPT ![w].step = "page", ![w].fresh = TRUE, ![w].known = "active"]
  /\ disturbed' = [disturbed EXCEPT ![j] = {}]

Resume(w, j) ==
  /\ checkpoint[j].status = "running"
  /\ connection = "active"
  /\ run' = [run EXCEPT ![w].step = "page", ![w].known = "active"]
  /\ UNCHANGED disturbed

(* A redelivered job whose sync is complete does nothing. *)
Redelivered(w, j) ==
  /\ checkpoint[j].status = "completed"
  /\ run' = [run EXCEPT ![w].step = "close"]
  /\ UNCHANGED disturbed

(* Find or insert the checkpoint, and get a client from the factory, which *)
(* refuses a connection that is not active; the client keeps the object.   *)
Begin(w) ==
  /\ On(w, "start")
  /\ LET j == run[w].job IN Insert(w, j) \/ Resume(w, j) \/ Redelivered(w, j)
  /\ UNCHANGED <<graph, rows, checkpoint, status, owner, connection>>

NextPage(w) == IF run[w].fresh THEN 1 ELSE checkpoint[run[w].job].page

(* while checkpoint.next_resource: await client.get(...)  The token is the *)
(* connection's, so an object that has expired is loaded again.            *)
Request(w) ==
  /\ On(w, "page")
  /\ NextPage(w) # End
  /\ run' = [run EXCEPT ![w] = [job |-> @.job, step |-> "await", fresh |-> @.fresh,
                                known |-> IF @.known = "none" THEN connection ELSE @.known,
                                page |-> NextPage(w),
                                found |-> {o \in graph : PageOf[o] = NextPage(w)}]]
  /\ UNCHANGED <<graph, rows, checkpoint, status, owner, connection, disturbed>>

(* History: every sync in progress but j sees these objects change. *)
Disturbing(j, objects) ==
  [k \in Job |-> IF k # j /\ InProgress(k) THEN disturbed[k] \cup objects
                                          ELSE disturbed[k]]

(* Mutant: only a new row gets the stamp. *)
StampedIfNew(j, found) ==
  [o \in Object |-> IF o \in found /\ rows[o] = NoRow THEN j ELSE rows[o]]

(* upsert_page() *)
Stamped(j, found) == [o \in Object |-> IF o \in found THEN j ELSE rows[o]]

(* Mutant: the last page's missing nextLink does not end the collection. *)
AfterWithoutEnd(p) == IF p = Pages THEN End + 1 ELSE p + 1

After(p) == p + 1

(* The response: upsert, checkpoint and heartbeat in one transaction. *)
WritePage(w) ==
  /\ On(w, "await")
  /\ Owns(w)
  /\ LET j == run[w].job
     IN /\ rows' = Stamped(j, run[w].found)
        /\ checkpoint' = [checkpoint EXCEPT
             ![j] = [page   |-> After(run[w].page),
                     status |-> IF run[w].fresh THEN "running" ELSE @.status]]
        /\ disturbed' = Disturbing(j, run[w].found)
  /\ run' = [run EXCEPT ![w] = Doing(run[w].job, "page")]
  /\ UNCHANGED <<graph, status, owner, connection>>

(* graph_authorization_failed: if the session's connection object says     *)
(* active, it is degraded in a commit of its own, whatever the row says by *)
(* now; a checkpoint inserted before the request is committed with it.     *)
(* Teams and SharePoint upsert an object after the further requests about  *)
(* it: when one of these is refused, the commit has the objects done so    *)
(* far, again without a look at the lease.                                 *)
Degrade(w) ==
  /\ On(w, "await")
  /\ \/ /\ run[w].known = "active"
        /\ connection' = "degraded"
        /\ checkpoint' = IF run[w].fresh
                           THEN [checkpoint EXCEPT
                                  ![run[w].job] = [page |-> 1, status |-> "running"]]
                           ELSE checkpoint
        /\ \E done \in SUBSET run[w].found :
             /\ PerObject \/ done = {}
             /\ rows' = Stamped(run[w].job, done)
             /\ disturbed' = Disturbing(run[w].job, done)
     \/ /\ run[w].known # "active"
        /\ UNCHANGED <<rows, checkpoint, connection, disturbed>>
  /\ run' = [run EXCEPT ![w] = Doing(run[w].job, "failed")]
  /\ UNCHANGED <<graph, status, owner>>

(* Mutant: only rows no sync has ever stamped are deleted. *)
OutdatedUnstamped(j) == {o \in Object : rows[o] = NoSync}

Outdated(j) == {o \in Object : rows[o] \notin {j, NoRow}}

(* No page is left: finalize_full_sync() and the completed checkpoint.     *)
(* Nobody looks at the lease.                                              *)
Finalize(w) ==
  /\ On(w, "page")
  /\ NextPage(w) = End
  /\ LET j == run[w].job
     IN /\ rows' = [o \in Object |-> IF o \in Outdated(j) THEN NoRow ELSE rows[o]]
        /\ checkpoint' = [checkpoint EXCEPT ![j].status = "completed"]
        /\ disturbed' = [Disturbing(j, Outdated(j)) EXCEPT ![j] = {}]
  /\ run' = [run EXCEPT ![w].step = "close"]
  /\ UNCHANGED <<graph, status, owner, connection>>

-----------------------------------------------------------------------------
(* The environment *)

(* An object enters or leaves the directory. *)
GraphChange(o) ==
  /\ graph' = IF o \in graph THEN graph \ {o} ELSE graph \cup {o}
  /\ disturbed' = Disturbing(NoJob, {o})
  /\ UNCHANGED <<rows, checkpoint, status, owner, run, connection>>

(* A connection test ends.  What is not active, pending included, counts   *)
(* as degraded.                                                            *)
ApplyTestResult(result) ==
  /\ connection # result
  /\ connection' = result
  /\ UNCHANGED <<graph, rows, checkpoint, status, owner, run, disturbed>>

Next ==
  \/ \E w \in Worker : \/ \E j \in Job : Take(w, j)
                       \/ Begin(w) \/ Request(w) \/ WritePage(w) \/ Degrade(w)
                       \/ Finalize(w) \/ Complete(w)
                       \/ Abandon(w) \/ DeadLetter(w) \/ Leave(w)
  \/ \E j \in Job : Lapse(j)
  \/ \E o \in Changing : GraphChange(o)
  \/ \E result \in {"active", "degraded"} : ApplyTestResult(result)

Spec == Init /\ [][Next]_vars

(* What is assumed of the queue here is what JobLease says of it, and      *)
(* JobQueue implements.                                                    *)
Lease == INSTANCE JobLease WITH work <- [w \in Worker |-> run[w].job]

UsesLease == Lease!Spec

-----------------------------------------------------------------------------
(* Properties *)

(* A checkpoint is never ahead of its rows: for every object on a page     *)
(* before it that neither Graph nor another sync changed since this sync   *)
(* began, the row carries the sync's stamp exactly if Graph has the object.*)
(* So a sync may be resumed from its checkpoint by any worker, after any   *)
(* crash or lapse, and no stale response of an overtaken worker counts.    *)
CheckpointCovered ==
  \A j \in Job : checkpoint[j].status = "running" =>
    \A o \in Object \ disturbed[j] :
      PageOf[o] < checkpoint[j].page => (rows[o] = j <=> o \in graph)

(* A sync that completes leaves exactly what Graph holds, but for objects  *)
(* that Graph or another sync changed meanwhile: the final delete removes  *)
(* every outdated row and no other.                                        *)
CompletedSyncIsExact ==
  [][\A j \in Job :
       checkpoint[j].status # "completed" /\ checkpoint'[j].status = "completed"
       => \A o \in Object \ disturbed[j] : rows'[o] # NoRow <=> o \in graph]_vars

(* A worker that waited for Graph while another went on cannot set the     *)
(* checkpoint back, nor reopen a completed one.                            *)
CheckpointMonotone ==
  [][\A j \in Job :
       /\ checkpoint'[j].page >= checkpoint[j].page
       /\ checkpoint[j].status = "completed" => checkpoint'[j].status = "completed"]_vars

(* w, overtaken while it waits for requests about the page that shows o,   *)
(* degrades the connection that its session holds as active.               *)
DegradesMidPage(w, j, o) ==
  /\ PerObject
  /\ On(w, "await") /\ run[w].job = j /\ ~Owns(w) /\ o \in run[w].found
  /\ run[w].known = "active" /\ connection' = "degraded" /\ run'[w].step = "failed"

(* Redelivering or overtaking a completed sync stamps no row again, but    *)
(* for one case: an overtaken worker of Teams or SharePoint is refused in  *)
(* the middle of a page.  That the connection is degraded already does not *)
(* stop it: its session may still hold the connection as active.           *)
CompletedIsFinal ==
  [][\A j \in Job : checkpoint[j].status = "completed" =>
       \A o \in Object : rows'[o] = j /\ rows[o] # j =>
         \E w \in Worker : DegradesMidPage(w, j, o)]_vars

(* Both together: whatever an overtaken worker still does, it costs the    *)
(* sync neither its progress nor its end.                                  *)
OvertakenIsHarmless == CheckpointMonotone /\ CompletedIsFinal

(* 02-target-architecture.md:119: a manual execution is never merged with  *)
(* another legal one in the same window, and several workers may run       *)
(* (jobs/embedded.py:9).  So a sync that completes has a row for whatever  *)
(* has been in the directory all along, whatever other syncs do.           *)
NoLostObjects ==
  [][\A j \in Job :
       checkpoint[j].status # "completed" /\ checkpoint'[j].status = "completed"
       => \A o \in graph \ Changing : rows'[o] # NoRow]_vars
=============================================================================
