---------------------------- MODULE WatermarkSync ----------------------------
(***************************************************************************)
(* The incremental handlers (capabilities/signin_logs; defender and        *)
(* sentinel share their shape), for the syncs of one managed tenant.       *)
(* Events are never deleted.  A sync starts where the stored ones end: its *)
(* window is the newest stored creation time, cut to seconds, or a fixed   *)
(* span before now if nothing is stored; it is computed once, and kept in  *)
(* the checkpoint for whoever resumes the job.  Graph lists the window in  *)
(* order of creation, and one page with its checkpoint and heartbeat is    *)
(* one transaction.                                                        *)
(*                                                                         *)
(* As in FullSync, the queue is reduced to who holds an active lease, a    *)
(* lease may lapse at any moment, and what follows a response is one step. *)
(* The connection is TenantConnection's: here a client may be refused at   *)
(* any time.                                                               *)
(*                                                                         *)
(* An event is its place in Graph's order.  A nextLink is the place of the *)
(* last event shown, and Graph goes on behind it with what it then holds;  *)
(* an event may appear long after its creation time.                       *)
(***************************************************************************)
EXTENDS Integers

CONSTANTS Job,         \* the sync jobs of one tenant
          NoJob,       \* a worker without a job
          Worker,
          NoWorker,    \* nobody's lease is active
          Events,      \* number of events
          Created,     \* creation time of each, in ticks
          Second,      \* ticks of a second
          Horizon,     \* bound on time
          Coming       \* events that appear while the model runs

ASSUME NameAssumption == NoJob \notin Job /\ NoWorker \notin Worker
ASSUME EventAssumption ==
  /\ Events \in Nat /\ Horizon \in Nat /\ Coming \subseteq 1 .. Events
  /\ Created \in [1 .. Events -> 0 .. Horizon]
  /\ \A e, f \in 1 .. Events : e < f => Created[e] <= Created[f]
ASSUME UnitAssumption == Second \in Nat \ {0}

Event == 1 .. Events
Time == 0 .. Horizon

VARIABLES published,   \* events Graph shows
          late,        \* history: those that appeared behind a later one
          rows,        \* stored events
          checkpoint,  \* each job's committed checkpoint
          status,      \* each job's status in the queue
          owner,       \* who holds an active lease of each job
          run,         \* what each worker is doing
          base         \* history: start of the newest initial window

vars == <<published, late, rows, checkpoint, status, owner, run, base>>

First == 0              \* next_resource is the collection itself
End == Events + 1       \* next_resource IS NULL
Unset == -1             \* no window

Link == First .. End

Window == Time \cup {Unset}

(* asked is history: what Graph showed when the checkpoint was inserted. *)
Checkpoint == [window : Window, next : Link, asked : SUBSET Event,
               status : {"absent", "running", "completed"}]

NoCheckpoint == [window |-> Unset, next |-> First, asked |-> {}, status |-> "absent"]

(* window and asked: of a checkpoint that is inserted and not committed;   *)
(* found and link: the page Graph has answered with.                       *)
Doing(j, step) == [job |-> j, step |-> step, window |-> Unset, asked |-> {},
                   found |-> {}, link |-> First]

Idle == Doing(NoJob, "idle")

Step == {"idle", "start", "page", "await", "close", "failed"}

Run == [job : Job \cup {NoJob}, step : Step, window : Window, asked : SUBSET Event,
        found : SUBSET Event, link : Link]

TypeOK ==
  /\ published \in SUBSET Event
  /\ late \in SUBSET Event
  /\ rows \in SUBSET Event
  /\ checkpoint \in [Job -> Checkpoint]
  /\ status \in [Job -> {"queued", "leased", "completed", "dead_letter"}]
  /\ owner \in [Job -> Worker \cup {NoWorker}]
  /\ run \in [Worker -> Run]
  /\ base \in Time

Init ==
  /\ published = Event \ Coming
  /\ late = {}
  /\ rows = {}
  /\ checkpoint = [j \in Job |-> NoCheckpoint]
  /\ status = [j \in Job |-> "queued"]
  /\ owner = [j \in Job |-> NoWorker]
  /\ run = [w \in Worker |-> Idle]
  /\ base = 0

-----------------------------------------------------------------------------
(* The queue *)

On(w, step) == run[w].step = step

(* Mutant: the heartbeat looks at the status alone. *)
OwnsAnyLease(w) == status[run[w].job] = "leased"

Owns(w) == owner[run[w].job] = w

(* claim(): a queued job, or one whose lease has lapsed. *)
Take(w, j) ==
  /\ On(w, "idle")
  /\ status[j] = "queued" \/ (status[j] = "leased" /\ owner[j] = NoWorker)
  /\ status' = [status EXCEPT ![j] = "leased"]
  /\ owner' = [owner EXCEPT ![j] = w]
  /\ run' = [run EXCEPT ![w] = Doing(j, "start")]
  /\ UNCHANGED <<published, late, rows, checkpoint, base>>

Lapse(j) ==
  /\ owner[j] # NoWorker
  /\ owner' = [owner EXCEPT ![j] = NoWorker]
  /\ UNCHANGED <<published, late, rows, checkpoint, status, run, base>>

(* The job leaves w's hands with status s. *)
Close(w, s) ==
  /\ Owns(w)
  /\ status' = [status EXCEPT ![run[w].job] = s]
  /\ owner' = [owner EXCEPT ![run[w].job] = NoWorker]
  /\ run' = [run EXCEPT ![w] = Idle]
  /\ UNCHANGED <<published, late, rows, checkpoint, base>>

Complete(w) == On(w, "close") /\ Close(w, "completed")

(* A refused client, or an exception abandon() requeues or dead-letters.   *)
Abandon(w) ==
  /\ run[w].step \in {"start", "page"}
  /\ \E s \in {"queued", "dead_letter"} : Close(w, s)

(* The worker dies, or meets InvalidJobState in a lease operation. *)
Leave(w) ==
  /\ ~On(w, "idle")
  /\ run' = [run EXCEPT ![w] = Idle]
  /\ UNCHANGED <<published, late, rows, checkpoint, status, owner, base>>

-----------------------------------------------------------------------------
(* The handler *)

(* max(created_datetime) of the stored events *)
Watermark == CHOOSE t \in {Created[e] : e \in rows} : \A e \in rows : Created[e] <= t

(* Mutant: the window begins with the next second. *)
CutUp(t) == t - (t % Second) + Second

(* to_graph_filter_iso(): whole seconds *)
Cut(t) == t - (t % Second)

Inserting(j) == \E w \in Worker : run[w].job = j /\ run[w].window # Unset

(* No checkpoint yet: the window is computed and inserted with one.  now   *)
(* is the initial window's start, the clock less 24 hours or 30 days.      *)
Insert(w, now) ==
  LET j == run[w].job
  IN /\ On(w, "start")
     /\ checkpoint[j].status = "absent"
     /\ ~Inserting(j)
     /\ run' = [run EXCEPT ![w] = [Doing(j, "page") EXCEPT
                  !.window = Cut(IF rows = {} THEN now ELSE Watermark),
                  !.asked = published]]
     /\ base' = IF rows = {} /\ Cut(now) > base THEN Cut(now) ELSE base
     /\ UNCHANGED <<published, late, rows, checkpoint, status, owner>>

(* A checkpoint is found: go on, or return if its sync is complete. *)
Resume(w) ==
  LET j == run[w].job
  IN /\ On(w, "start")
     /\ checkpoint[j].status # "absent"
     /\ run' = [run EXCEPT ![w].step = IF checkpoint[j].status = "completed"
                                         THEN "close" ELSE "page"]
     /\ UNCHANGED <<published, late, rows, checkpoint, status, owner, base>>

Fresh(w) == run[w].window # Unset

NextLink(w) == IF Fresh(w) THEN First ELSE checkpoint[run[w].job].next

(* Mutant: a resumed sync that has no page yet computes its window again. *)
WindowRecomputed(w) == IF NextLink(w) = First /\ rows # {} THEN Cut(Watermark)
                                                           ELSE checkpoint[run[w].job].window

WindowOf(w) == IF Fresh(w) THEN run[w].window ELSE checkpoint[run[w].job].window

(* $filter=createdDateTime ge <window>, or what follows a nextLink *)
Listed(next, window) ==
  {e \in published : IF next = First THEN Created[e] >= window ELSE e > next}

(* Mutant: no $orderby; a page is any part of the list. *)
IsPageUnordered(page, list) == page \subseteq list /\ (page = {} => list = {})

(* $orderby=createdDateTime: a page is a beginning of the list.          *)
IsPage(page, list) == /\ page \subseteq list
                      /\ page = {} => list = {}
                      /\ \A e \in page : \A f \in list : f < e => f \in page

Longest(page) == IF page = {} THEN First ELSE CHOOSE e \in page : \A f \in page : f <= e

(* External: Graph ends a list with no nextLink. *)
LinkAfter(page, list) == IF page = list THEN End ELSE Longest(page)

(* await client.get(...): Graph answers with what it shows now. *)
Request(w, page) ==
  LET list == Listed(NextLink(w), WindowOf(w))
  IN /\ On(w, "page")
     /\ NextLink(w) # End
     /\ IsPage(page, list)
     /\ run' = [run EXCEPT ![w] = [@ EXCEPT !.step = "await", !.found = page,
                                           !.link = LinkAfter(page, list)]]
     /\ UNCHANGED <<published, late, rows, checkpoint, status, owner, base>>

(* The checkpoint w has inserted, about to be committed. *)
Inserted(w, next) == [window |-> run[w].window, next |-> next, asked |-> run[w].asked,
                      status |-> "running"]

(* The response: upsert_page(), checkpoint and heartbeat in one transaction. *)
WritePage(w) ==
  LET j == run[w].job
  IN /\ On(w, "await")
     /\ Owns(w)
     /\ rows' = rows \cup run[w].found
     /\ checkpoint' = [checkpoint EXCEPT
          ![j] = IF Fresh(w) THEN Inserted(w, run[w].link)
                             ELSE [@ EXCEPT !.next = run[w].link]]
     /\ run' = [run EXCEPT ![w] = Doing(j, "page")]
     /\ UNCHANGED <<published, late, status, owner, base>>

(* GraphRetryableError, or another exception of the request *)
Retry(w) ==
  /\ On(w, "await")
  /\ \E s \in {"queued", "dead_letter"} : Close(w, s)

(* graph_authorization_failed while the connection is active: the commit   *)
(* that degrades it also commits a checkpoint inserted before the request. *)
Degrade(w) ==
  LET j == run[w].job
  IN /\ On(w, "await")
     /\ checkpoint' = [checkpoint EXCEPT
          ![j] = IF Fresh(w) THEN Inserted(w, First) ELSE @]
     /\ run' = [run EXCEPT ![w] = Doing(j, "failed")]
     /\ UNCHANGED <<published, late, rows, status, owner, base>>

(* TerminalJobError: an invalid response, or after Degrade. *)
DeadLetter(w) ==
  /\ run[w].step \in {"start", "page", "await", "failed"}
  /\ Close(w, "dead_letter")

(* No nextLink is left.  Nobody looks at the lease. *)
Finish(w) ==
  /\ On(w, "page")
  /\ NextLink(w) = End
  /\ checkpoint' = [checkpoint EXCEPT ![run[w].job].status = "completed"]
  /\ run' = [run EXCEPT ![w].step = "close"]
  /\ UNCHANGED <<published, late, rows, status, owner, base>>

(* External: Graph begins to show an event, in time or behind later ones.  *)
Publish(e) ==
  /\ e \notin published
  /\ published' = published \cup {e}
  /\ late' = IF \E f \in published : Created[f] >= Created[e] THEN late \cup {e} ELSE late
  /\ UNCHANGED <<rows, checkpoint, status, owner, run, base>>

Next ==
  \/ \E w \in Worker : \/ \E j \in Job : Take(w, j)
                       \/ \E now \in Time : Insert(w, now)
                       \/ \E page \in SUBSET Event : Request(w, page)
                       \/ Resume(w) \/ WritePage(w) \/ Retry(w) \/ Degrade(w)
                       \/ Finish(w) \/ Complete(w)
                       \/ Abandon(w) \/ DeadLetter(w) \/ Leave(w)
  \/ \E j \in Job : Lapse(j)
  \/ \E e \in Coming : Publish(e)

Spec == Init /\ [][Next]_vars

(* The queue of the model is a JobLease, as JobQueue's is.                 *)
Lease == INSTANCE JobLease WITH work <- [w \in Worker |-> run[w].job]

UsesLease == Lease!Spec

-----------------------------------------------------------------------------
(* Properties *)

(* The watermark passes over nothing: an event that appeared in time, in   *)
(* the span that syncs have covered, is stored before any later one is.    *)
(* Otherwise the next window would begin behind it, and no sync would ever *)
(* fetch it: pages are committed one by one, by syncs that overlap, are    *)
(* overtaken, and die half-way.                                            *)
NothingPassedOver ==
  \A e \in published \ late : \A r \in rows :
    base <= Created[e] /\ Created[e] < Created[r] => e \in rows

(* A sync resumed from its checkpoint, by anyone and after any failure,    *)
(* finds every event of its window stored that Graph showed when the sync  *)
(* began, up to the place it resumes from; late ones included.             *)
WindowCovered ==
  \A j \in Job : \A e \in checkpoint[j].asked :
    /\ checkpoint[j].status # "absent"
    /\ Created[e] >= checkpoint[j].window
    /\ e <= checkpoint[j].next /\ checkpoint[j].next # First
    => e \in rows

(* A sync's window is fixed when its checkpoint is committed, and its      *)
(* place never goes back, whatever an overtaken worker still commits       *)
(* (signin_logs/handler.py:5).                                             *)
WindowPinned ==
  [][\A j \in Job : checkpoint[j].status # "absent" =>
       /\ checkpoint'[j].window = checkpoint[j].window
       /\ checkpoint'[j].next >= checkpoint[j].next
       /\ checkpoint[j].status = "completed" => checkpoint'[j] = checkpoint[j]]_vars
=============================================================================
