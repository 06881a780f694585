--------------------------- MODULE FullSyncProofs ---------------------------
(***************************************************************************)
(* Proofs about FullSync, for any jobs, workers, objects and pages, and    *)
(* with leases that lapse at any moment.                                   *)
(***************************************************************************)
EXTENDS FullSync, TLAPS

USE NameAssumption, PageAssumption

(* The page of a checkpoint says how far it got. *)
CheckpointInv ==
  \A j \in Job : /\ checkpoint[j].status = "absent" => checkpoint[j].page = 0
                 /\ checkpoint[j].status = "running" => checkpoint[j].page \in 1 .. End
                 /\ checkpoint[j].status = "completed" => checkpoint[j].page = End

(* Only one worker at a time has a checkpoint that is not committed, and   *)
(* the others work from one that is.                                       *)
RunInv ==
  \A w \in Worker :
    /\ ~On(w, "idle") => run[w].job \in Job
    /\ run[w].fresh => /\ run[w].step \in {"page", "await"}
                       /\ checkpoint[run[w].job].status = "absent"
                       /\ \A v \in Worker : run[v].fresh /\ run[v].job = run[w].job => v = w
    /\ run[w].step \in {"page", "await"} /\ ~run[w].fresh =>
         checkpoint[run[w].job].status # "absent"

(* The response w waits for is that of one page. *)
ResponseInv ==
  \A w \in Worker : On(w, "await") =>
    /\ run[w].page \in 1 .. Pages
    /\ run[w].fresh => run[w].page = 1
    /\ \A o \in run[w].found : PageOf[o] = run[w].page

(* As long as w has the lease, its response is that of the page the        *)
(* checkpoint is at, and what it shows is true but for disturbed objects.  *)
HolderInv ==
  \A w \in Worker : On(w, "await") /\ Owns(w) =>
    /\ ~run[w].fresh =>
         checkpoint[run[w].job] = [page |-> run[w].page, status |-> "running"]
    /\ \A o \in Object \ disturbed[run[w].job] :
         PageOf[o] = run[w].page => (o \in run[w].found <=> o \in graph)

(* With or without the lease, a response shows what Graph held since the   *)
(* sync began.                                                             *)
FoundInv ==
  \A w \in Worker : On(w, "await") /\ checkpoint[run[w].job].status # "completed" =>
    run[w].found \subseteq graph \cup disturbed[run[w].job]

(* A stamp not covered by the checkpoint is on a row of such an object.    *)
StampInv ==
  \A j \in Job, o \in Object : rows[o] = j =>
    /\ checkpoint[j].status # "absent"
    /\ PageOf[o] < checkpoint[j].page \/ o \in graph \cup disturbed[j]

SyncInv ==
  /\ TypeOK /\ CheckpointInv /\ RunInv /\ ResponseInv /\ HolderInv /\ FoundInv
  /\ StampInv /\ CheckpointCovered

-----------------------------------------------------------------------------
(* Before the first sync there is no checkpoint and no stamp. *)
LEMMA SyncInit == Init => SyncInv
<1> SUFFICES ASSUME Init PROVE SyncInv
  OBVIOUS
<1> USE DEF Init, NoCheckpoint, Idle, Doing, On
<1>1. TypeOK
  BY DEF TypeOK, Step, End, Run, SyncCheckpoint
<1>2. CheckpointInv /\ RunInv /\ ResponseInv /\ HolderInv /\ FoundInv
  BY DEF CheckpointInv, RunInv, ResponseInv, HolderInv, FoundInv
<1>3. StampInv /\ CheckpointCovered
  BY DEF StampInv, CheckpointCovered
<1> QED
  BY <1>1, <1>2, <1>3 DEF SyncInv

(* What a worker is doing changes for one worker at a time. *)
LEMMA RunUpdate ==
  ASSUME run \in [Worker -> Run], NEW w \in Worker, NEW r \in Run,
         run' = [run EXCEPT ![w] = r]
  PROVE  /\ run' \in [Worker -> Run]
         /\ run'[w] = r
         /\ \A v \in Worker : v # w => run'[v] = run[v]
  OBVIOUS

LEMMA DisturbingType ==
  ASSUME disturbed \in [Job -> SUBSET Object], NEW j, NEW objects \in SUBSET Object
  PROVE  /\ Disturbing(j, objects) \in [Job -> SUBSET Object]
         /\ \A k \in Job : disturbed[k] \subseteq Disturbing(j, objects)[k]
         /\ \A k \in Job : k # j /\ InProgress(k) => objects \subseteq Disturbing(j, objects)[k]
         /\ \A k \in Job : k = j => Disturbing(j, objects)[k] = disturbed[k]
BY DEF Disturbing

LEMMA DoingType ==
  ASSUME NEW j \in Job \cup {NoJob}, NEW step \in Step
  PROVE  /\ Doing(j, step) \in Run
         /\ Doing(j, step).job = j
         /\ Doing(j, step).step = step
         /\ ~Doing(j, step).fresh
BY DEF Doing, Run

(* A job whose checkpoint is running, or inserted, is in progress. *)
LEMMA AwaitInProgress ==
  ASSUME SyncInv, NEW w \in Worker, On(w, "await"), Owns(w)
  PROVE  run[w].job \in Job /\ InProgress(run[w].job)
<1>1. run[w].job \in Job
  BY DEF SyncInv, RunInv, On
<1>2. CASE run[w].fresh
  BY <1>1, <1>2 DEF InProgress, Inserting
<1>3. CASE ~run[w].fresh
  <2>1. checkpoint[run[w].job] = [page |-> run[w].page, status |-> "running"]
    BY <1>3 DEF SyncInv, HolderInv
  <2> QED
    BY <1>1, <2>1 DEF InProgress
<1> QED
  BY <1>1, <1>2, <1>3

(* So is the job of any awaited response, unless its sync is complete.     *)
LEMMA AnyAwaitInProgress ==
  ASSUME SyncInv, NEW w \in Worker, On(w, "await"),
         checkpoint[run[w].job].status # "completed"
  PROVE  run[w].job \in Job /\ InProgress(run[w].job)
<1>1. run[w].job \in Job /\ checkpoint[run[w].job] \in SyncCheckpoint
  BY DEF SyncInv, RunInv, On, TypeOK
<1>2. CASE run[w].fresh
  BY <1>1, <1>2 DEF InProgress, Inserting
<1>3. CASE ~run[w].fresh
  <2>1. checkpoint[run[w].job].status = "running"
    BY <1>1, <1>3 DEF SyncInv, RunInv, On, SyncCheckpoint
  <2> QED
    BY <1>1, <2>1 DEF InProgress
<1> QED
  BY <1>1, <1>2, <1>3

(* Responses still awaited stay true of a directory that does not change.  *)
LEMMA FoundKept ==
  ASSUME FoundInv, graph' = graph,
         \A v \in Worker : On(v, "await")' =>
           /\ run'[v] = run[v]
           /\ checkpoint[run[v].job].status = "completed"
                => checkpoint'[run[v].job].status = "completed"
           /\ disturbed[run[v].job] \subseteq disturbed'[run[v].job]
  PROVE  FoundInv'
<1> SUFFICES ASSUME NEW v \in Worker, On(v, "await")',
                    checkpoint'[run'[v].job].status # "completed"
             PROVE  run'[v].found \subseteq graph' \cup disturbed'[run'[v].job]
  BY DEF FoundInv
<1>1. /\ run'[v] = run[v] /\ On(v, "await")
      /\ checkpoint[run[v].job].status # "completed"
      /\ disturbed[run[v].job] \subseteq disturbed'[run[v].job]
  BY DEF On
<1> QED
  BY <1>1 DEF FoundInv

-----------------------------------------------------------------------------
(* Steps that take, leave or close jobs, and touch no row and no           *)
(* checkpoint, keep the invariant.                                         *)
LEMMA QuietStep ==
  ASSUME SyncInv, TypeOK',
         UNCHANGED <<graph, rows, checkpoint, disturbed>>,
         \A v \in Worker :
           \/ /\ run'[v] = run[v]
              /\ run[v].job \in Job /\ owner'[run[v].job] = v => owner[run[v].job] = v
           \/ /\ run'[v].step \notin {"page", "await"} /\ ~run'[v].fresh
              /\ run'[v].step # "idle" => run'[v].job \in Job
  PROVE  SyncInv'
<1> USE DEF SyncInv, On
<1>1. CheckpointInv' /\ StampInv' /\ CheckpointCovered'
  BY DEF CheckpointInv, StampInv, CheckpointCovered
<1>2. RunInv'
  BY DEF RunInv
<1>3. ResponseInv' /\ FoundInv'
  <2>1. \A v \in Worker : On(v, "await")' => run'[v] = run[v]
    OBVIOUS
  <2>2. FoundInv'
    BY <2>1, FoundKept
  <2> QED
    BY <2>2 DEF ResponseInv
<1>4. HolderInv'
  <2> SUFFICES ASSUME NEW v \in Worker, On(v, "await")', Owns(v)'
               PROVE  /\ ~run'[v].fresh =>
                           checkpoint'[run'[v].job] =
                             [page |-> run'[v].page, status |-> "running"]
                      /\ \A o \in Object \ disturbed'[run'[v].job] :
                           PageOf[o] = run'[v].page => (o \in run'[v].found <=> o \in graph')
    BY DEF HolderInv
  <2>1. run'[v] = run[v] /\ owner'[run[v].job] = v
    BY DEF Owns
  <2>2. run[v].job \in Job
    BY <2>1 DEF RunInv
  <2>3. On(v, "await") /\ Owns(v)
    BY <2>1, <2>2 DEF Owns
  <2> QED
    BY <2>1, <2>3 DEF HolderInv
<1> QED
  BY <1>1, <1>2, <1>3, <1>4

(* The queue's steps. *)
LEMMA TakeStep ==
  ASSUME SyncInv, NEW w \in Worker, NEW j \in Job, Take(w, j)
  PROVE  SyncInv'
<1> USE DEF SyncInv
<1>1. Doing(j, "start") \in Run /\ run' = [run EXCEPT ![w] = Doing(j, "start")]
  BY DoingType DEF Take, Step
<1>2. /\ run' \in [Worker -> Run]
      /\ run'[w] = Doing(j, "start")
      /\ \A v \in Worker : v # w => run'[v] = run[v]
  BY <1>1, RunUpdate DEF TypeOK
<1>3. /\ run'[w].job = j /\ run'[w].step = "start" /\ ~run'[w].fresh
  BY <1>2, DoingType DEF Step
<1>4. TypeOK'
  BY <1>2 DEF TypeOK, Take
<1>5. \A v \in Worker : v # w /\ run[v].job \in Job /\ owner'[run[v].job] = v
                          => owner[run[v].job] = v
  BY DEF Take, TypeOK
<1> QED
  BY <1>2, <1>3, <1>4, <1>5, QuietStep DEF Take

LEMMA LeaveStep ==
  ASSUME SyncInv, NEW w \in Worker, Leave(w)
  PROVE  SyncInv'
<1> USE DEF SyncInv
<1>1. Idle \in Run /\ Idle.step = "idle" /\ ~Idle.fresh
  BY DoingType DEF Idle, Step
<1>2. /\ run' \in [Worker -> Run]
      /\ run'[w] = Idle
      /\ \A v \in Worker : v # w => run'[v] = run[v]
  BY <1>1, RunUpdate DEF TypeOK, Leave
<1>3. TypeOK'
  BY <1>2 DEF TypeOK, Leave
<1> QED
  BY <1>1, <1>2, <1>3, QuietStep DEF Leave

LEMMA CloseStep ==
  ASSUME SyncInv, NEW w \in Worker, NEW s \in {"queued", "completed", "dead_letter"},
         run[w].job \in Job, Close(w, s)
  PROVE  SyncInv'
<1> USE DEF SyncInv
<1>1. Idle \in Run /\ Idle.step = "idle" /\ ~Idle.fresh
  BY DoingType DEF Idle, Step
<1>2. /\ run' \in [Worker -> Run]
      /\ run'[w] = Idle
      /\ \A v \in Worker : v # w => run'[v] = run[v]
  BY <1>1, RunUpdate DEF TypeOK, Close
<1>3. TypeOK'
  BY <1>2 DEF TypeOK, Close
<1>4. \A v \in Worker : run[v].job \in Job /\ owner'[run[v].job] = v
                          => owner[run[v].job] = v
  BY DEF Close, TypeOK
<1> QED
  BY <1>1, <1>2, <1>3, <1>4, QuietStep DEF Close

LEMMA LapseStep ==
  ASSUME SyncInv, NEW j \in Job, Lapse(j)
  PROVE  SyncInv'
<1> USE DEF SyncInv
<1>1. TypeOK'
  BY DEF TypeOK, Lapse
<1>2. \A v \in Worker : run[v].job \in Job /\ owner'[run[v].job] = v
                          => owner[run[v].job] = v
  BY DEF Lapse, TypeOK
<1> QED
  BY <1>1, <1>2, QuietStep DEF Lapse

-----------------------------------------------------------------------------
(* The handler's steps. *)

(* The checkpoint is found or inserted. *)
LEMMA BeginStep ==
  ASSUME SyncInv, NEW w \in Worker, Begin(w)
  PROVE  SyncInv'
<1> DEFINE j == run[w].job
<1> USE DEF SyncInv
<1>0. j \in Job /\ run[w].step = "start" /\ ~run[w].fresh /\ run[w] \in Run
  BY DEF Begin, RunInv, On, TypeOK
<1>u. UNCHANGED <<graph, rows, checkpoint, status, owner, connection>>
  BY DEF Begin
<1>1. CASE Insert(w, j)
  <2>1. /\ run' \in [Worker -> Run]
        /\ run'[w].job = j /\ run'[w].step = "page" /\ run'[w].fresh
        /\ \A v \in Worker : v # w => run'[v] = run[v]
    BY <1>0, <1>1 DEF Insert, TypeOK, Run, Step
  <2>2. /\ disturbed' \in [Job -> SUBSET Object]
        /\ \A k \in Job : k # j => disturbed'[k] = disturbed[k]
    BY <1>0, <1>1 DEF Insert, TypeOK
  <2>3. checkpoint[j].status = "absent" /\ \A v \in Worker : run[v].job = j => ~run[v].fresh
    BY <1>1 DEF Insert, Inserting
  <2>4. TypeOK'
    BY <1>u, <2>1, <2>2 DEF TypeOK
  <2>5. CheckpointInv' /\ StampInv'
    BY <1>u, <2>2, <2>3 DEF CheckpointInv, StampInv
  <2>6. RunInv'
    BY <1>0, <1>u, <2>1, <2>3 DEF RunInv, On
  <2>7. ResponseInv'
    BY <2>1 DEF ResponseInv, On
  <2>8. HolderInv'
    <3>1. \A v \in Worker : On(v, "await")' =>
            v # w /\ run'[v] = run[v] /\ run[v].job \in Job /\ run[v].job # j
      BY <1>0, <2>1, <2>3 DEF On, RunInv
    <3>2. \A v \in Worker : On(v, "await")' /\ Owns(v)' =>
            On(v, "await") /\ Owns(v) /\ disturbed'[run[v].job] = disturbed[run[v].job]
      BY <1>u, <2>2, <3>1 DEF On, Owns
    <3> QED
      BY <1>u, <3>1, <3>2 DEF HolderInv
  <2>a. FoundInv'
    <3>1. \A v \in Worker : On(v, "await")' =>
            v # w /\ run'[v] = run[v] /\ run[v].job \in Job /\ run[v].job # j
      BY <1>0, <2>1, <2>3 DEF On, RunInv
    <3>2. \A v \in Worker : On(v, "await")' =>
            disturbed[run[v].job] \subseteq disturbed'[run[v].job]
      BY <2>2, <3>1
    <3> QED
      BY <1>u, <3>1, <3>2, FoundKept
  <2>9. CheckpointCovered'
    BY <1>u, <2>2, <2>3 DEF CheckpointCovered
  <2> QED
    BY <2>4, <2>5, <2>6, <2>7, <2>8, <2>9, <2>a
<1>2. CASE Resume(w, j)
  <2>1. /\ run' \in [Worker -> Run]
        /\ run'[w].job = j /\ run'[w].step = "page" /\ ~run'[w].fresh
        /\ \A v \in Worker : v # w => run'[v] = run[v]
    BY <1>0, <1>2 DEF Resume, TypeOK, Run, Step
  <2>2. checkpoint[j].status = "running" /\ UNCHANGED disturbed
    BY <1>2 DEF Resume
  <2>3. TypeOK'
    BY <1>u, <2>1, <2>2 DEF TypeOK
  <2>4. CheckpointInv' /\ StampInv' /\ CheckpointCovered'
    BY <1>u, <2>2 DEF CheckpointInv, StampInv, CheckpointCovered
  <2>5. RunInv'
    BY <1>0, <1>u, <2>1, <2>2 DEF RunInv, On
  <2>6. ResponseInv'
    BY <2>1 DEF ResponseInv, On
  <2>7. HolderInv'
    <3>1. \A v \in Worker : On(v, "await")' /\ Owns(v)' =>
            run'[v] = run[v] /\ On(v, "await") /\ Owns(v)
      BY <1>u, <2>1 DEF On, Owns
    <3> QED
      BY <1>u, <2>2, <3>1 DEF HolderInv
  <2>8. FoundInv'
    <3>1. \A v \in Worker : On(v, "await")' => run'[v] = run[v]
      BY <2>1 DEF On
    <3> QED
      BY <1>u, <2>2, <3>1, FoundKept
  <2> QED
    BY <2>3, <2>4, <2>5, <2>6, <2>7, <2>8
<1>3. CASE Redelivered(w, j)
  <2>1. /\ run' \in [Worker -> Run]
        /\ run'[w].job = j /\ run'[w].step = "close" /\ ~run'[w].fresh
        /\ \A v \in Worker : v # w => run'[v] = run[v]
    BY <1>0, <1>3 DEF Redelivered, TypeOK, Run, Step
  <2>2. TypeOK'
    BY <1>3, <1>u, <2>1 DEF TypeOK, Redelivered
  <2> QED
    BY <1>0, <1>3, <1>u, <2>1, <2>2, QuietStep DEF Redelivered
<1> QED
  BY <1>1, <1>2, <1>3 DEF Begin

(* A page is requested; the response is that of the page the checkpoint is at. *)
LEMMA RequestStep ==
  ASSUME SyncInv, NEW w \in Worker, Request(w)
  PROVE  SyncInv'
<1> DEFINE j == run[w].job
           p == NextPage(w)
           shown == {o \in graph : PageOf[o] = p}
<1> USE DEF SyncInv
<1>0. j \in Job /\ run[w].step = "page" /\ run[w] \in Run /\ checkpoint[j] \in SyncCheckpoint
  BY DEF Request, RunInv, On, TypeOK
<1>u. UNCHANGED <<graph, rows, checkpoint, status, owner, connection, disturbed>>
  BY DEF Request
<1>1. /\ p \in 1 .. Pages
      /\ run[w].fresh => p = 1
      /\ ~run[w].fresh => checkpoint[j] = [page |-> p, status |-> "running"]
  <2>1. CASE run[w].fresh
    BY <2>1 DEF NextPage
  <2>2. CASE ~run[w].fresh
    <3>1. p = checkpoint[j].page /\ p # End
      BY <2>2 DEF NextPage, Request
    <3>2. checkpoint[j].status # "absent"
      BY <1>0, <2>2 DEF RunInv
    <3>3. checkpoint[j].status = "running" /\ p \in 1 .. End
      BY <1>0, <3>1, <3>2 DEF CheckpointInv, SyncCheckpoint
    <3> QED
      BY <1>0, <2>2, <3>1, <3>3 DEF End, SyncCheckpoint
  <2> QED
    BY <2>1, <2>2
<1>2. shown \subseteq Object
  BY DEF TypeOK
<1>3. /\ run' \in [Worker -> Run]
      /\ run'[w].job = j /\ run'[w].step = "await" /\ run'[w].fresh = run[w].fresh
      /\ run'[w].page = p /\ run'[w].found = shown
      /\ \A v \in Worker : v # w => run'[v] = run[v]
  <2> DEFINE known == IF run[w].known = "none" THEN connection ELSE run[w].known
             r == [job |-> j, step |-> "await", fresh |-> run[w].fresh,
                   known |-> known, page |-> p, found |-> shown]
  <2>1. run' = [run EXCEPT ![w] = r]
    BY DEF Request
  <2>0. known \in {"none", "active", "degraded"}
    BY <1>0 DEF Run, TypeOK
  <2> HIDE DEF known
  <2>2. r \in Run
    BY <1>0, <1>1, <1>2, <2>0 DEF Run, Step
  <2> QED
    BY <2>1, <2>2, RunUpdate DEF TypeOK
<1>4. TypeOK'
  BY <1>u, <1>3 DEF TypeOK
<1>5. CheckpointInv' /\ StampInv' /\ CheckpointCovered'
  BY <1>u DEF CheckpointInv, StampInv, CheckpointCovered
<1>6. RunInv'
  BY <1>0, <1>u, <1>3 DEF RunInv, On
<1>7. ResponseInv'
  BY <1>1, <1>3 DEF ResponseInv, On
<1>8. HolderInv'
  <2>1. \A v \in Worker : v # w /\ On(v, "await")' /\ Owns(v)' =>
          run'[v] = run[v] /\ On(v, "await") /\ Owns(v)
    BY <1>u, <1>3 DEF On, Owns
  <2>2. \A o \in Object : PageOf[o] = p => (o \in shown <=> o \in graph)
    OBVIOUS
  <2> QED
    BY <1>u, <1>1, <1>3, <2>1, <2>2 DEF HolderInv
<1>9. FoundInv'
  <2>1. \A v \in Worker : v # w /\ On(v, "await")' => run'[v] = run[v] /\ On(v, "await")
    BY <1>3 DEF On
  <2>2. shown \subseteq graph
    OBVIOUS
  <2> QED
    BY <1>u, <1>3, <2>1, <2>2 DEF FoundInv
<1> QED
  BY <1>4, <1>5, <1>6, <1>7, <1>8, <1>9

(* A page is written under the lease: the checkpoint covers one page more. *)
LEMMA WritePageStep ==
  ASSUME SyncInv, NEW w \in Worker, WritePage(w)
  PROVE  SyncInv'
<1> DEFINE j == run[w].job
           p == run[w].page
           found == run[w].found
<1> USE DEF SyncInv
<1>0. /\ j \in Job /\ On(w, "await") /\ owner[j] = w
      /\ run[w] \in Run /\ p \in 1 .. Pages /\ found \subseteq Object
      /\ checkpoint[j] \in SyncCheckpoint
  BY DEF WritePage, RunInv, On, TypeOK, ResponseInv, Owns, Run
<1>u. UNCHANGED <<graph, status, owner, connection>>
  BY DEF WritePage
<1>1. /\ run[w].fresh => checkpoint[j].status = "absent" /\ checkpoint[j].page = 0 /\ p = 1
      /\ ~run[w].fresh => checkpoint[j].status = "running" /\ checkpoint[j].page = p
  <2>1. CASE run[w].fresh
    BY <1>0, <2>1 DEF RunInv, CheckpointInv, ResponseInv
  <2>2. CASE ~run[w].fresh
    <3>1. checkpoint[j] = [page |-> p, status |-> "running"]
      BY <1>0, <2>2 DEF HolderInv, Owns
    <3> QED
      BY <2>2, <3>1
  <2> QED
    BY <2>1, <2>2
<1>2. /\ run' \in [Worker -> Run]
      /\ run'[w].job = j /\ run'[w].step = "page" /\ ~run'[w].fresh
      /\ \A v \in Worker : v # w => run'[v] = run[v]
  <2>1. run' = [run EXCEPT ![w] = Doing(j, "page")]
    BY DEF WritePage
  <2> QED
    BY <1>0, <2>1, DoingType, RunUpdate DEF TypeOK, Step
<1>3. /\ checkpoint' \in [Job -> SyncCheckpoint]
      /\ checkpoint'[j].page = p + 1 /\ checkpoint'[j].status = "running"
      /\ \A k \in Job : k # j => checkpoint'[k] = checkpoint[k]
  <2>1. checkpoint' = [checkpoint EXCEPT ![j] = [page |-> p + 1, status |-> "running"]]
    BY <1>0, <1>1 DEF WritePage, After, TypeOK
  <2>2. [page |-> p + 1, status |-> "running"] \in SyncCheckpoint
    BY <1>0 DEF SyncCheckpoint, End
  <2> QED
    BY <1>0, <2>1, <2>2 DEF TypeOK
<1>4. /\ rows' \in [Object -> Job \cup {NoSync, NoRow}]
      /\ \A o \in Object : rows'[o] = IF o \in found THEN j ELSE rows[o]
  BY <1>0 DEF WritePage, Stamped, TypeOK
<1>5. /\ disturbed' \in [Job -> SUBSET Object]
      /\ \A k \in Job : disturbed[k] \subseteq disturbed'[k]
      /\ \A k \in Job : k # j /\ InProgress(k) => found \subseteq disturbed'[k]
      /\ disturbed'[j] = disturbed[j]
  BY <1>0, DisturbingType DEF WritePage, TypeOK
<1>6. TypeOK'
  BY <1>u, <1>2, <1>3, <1>4, <1>5 DEF TypeOK
<1>7. CheckpointInv'
  BY <1>0, <1>3 DEF CheckpointInv, End
<1>8. RunInv'
  <2>1. \A v \in Worker : v # w /\ run[v].fresh => run[v].job # j
    BY <1>0, <1>1 DEF RunInv
  <2> QED
    BY <1>0, <1>2, <1>3, <2>1 DEF RunInv, On
<1>9. ResponseInv'
  BY <1>2 DEF ResponseInv, On
<1>10. HolderInv'
  <2>1. \A v \in Worker : On(v, "await")' /\ Owns(v)' =>
          /\ v # w /\ run'[v] = run[v] /\ On(v, "await") /\ Owns(v)
          /\ run[v].job # j /\ run[v].job \in Job
    BY <1>0, <1>u, <1>2 DEF On, Owns, RunInv
  <2>2. \A v \in Worker : On(v, "await")' /\ Owns(v)' =>
          /\ checkpoint'[run[v].job] = checkpoint[run[v].job]
          /\ disturbed[run[v].job] \subseteq disturbed'[run[v].job]
    BY <1>3, <1>5, <2>1
  <2> QED
    BY <1>u, <2>1, <2>2 DEF HolderInv
<1>a. FoundInv'
  <2>1. \A v \in Worker : On(v, "await")' => run'[v] = run[v] /\ run[v].job \in Job
    BY <1>2 DEF On, RunInv
  <2>2. \A v \in Worker : On(v, "await")' =>
          /\ checkpoint[run[v].job].status = "completed"
               => checkpoint'[run[v].job].status = "completed"
          /\ disturbed[run[v].job] \subseteq disturbed'[run[v].job]
    BY <1>1, <1>3, <1>5, <2>1
  <2> QED
    BY <1>u, <2>1, <2>2, FoundKept
<1>11. StampInv'
  <2> SUFFICES ASSUME NEW k \in Job, NEW o \in Object, rows'[o] = k
               PROVE  /\ checkpoint'[k].status # "absent"
                      /\ PageOf[o] < checkpoint'[k].page \/ o \in graph' \cup disturbed'[k]
    BY DEF StampInv
  <2>1. CASE o \in found
    BY <1>0, <1>3, <1>4, <2>1 DEF ResponseInv
  <2>2. CASE o \notin found
    <3>1. /\ checkpoint[k].status # "absent"
          /\ PageOf[o] < checkpoint[k].page \/ o \in graph \cup disturbed[k]
      BY <1>4, <2>2 DEF StampInv
    <3> QED
      BY <1>0, <1>1, <1>3, <1>5, <1>u, <3>1
  <2> QED
    BY <2>1, <2>2
<1>12. CheckpointCovered'
  <2> SUFFICES ASSUME NEW k \in Job, checkpoint'[k].status = "running",
                      NEW o \in Object \ disturbed'[k], PageOf[o] < checkpoint'[k].page
               PROVE  rows'[o] = k <=> o \in graph
    BY <1>u DEF CheckpointCovered
  <2>1. CASE k # j
    <3>1. checkpoint[k].status = "running" /\ PageOf[o] < checkpoint[k].page
      BY <1>3, <2>1
    <3>2. o \notin found /\ o \notin disturbed[k]
      BY <1>5, <2>1, <3>1 DEF InProgress
    <3> QED
      BY <1>4, <3>1, <3>2 DEF CheckpointCovered
  <2>2. CASE k = j /\ PageOf[o] = p
    <3>1. o \in found <=> o \in graph
      BY <1>0, <1>5, <2>2 DEF HolderInv, Owns
    <3>2. rows[o] = j => o \in graph
      BY <1>0, <1>1, <1>5, <2>2 DEF StampInv
    <3> QED
      BY <1>4, <2>2, <3>1, <3>2
  <2>3. CASE k = j /\ PageOf[o] # p
    <3>1. PageOf[o] < p
      BY <1>0, <1>3, <2>3
    <3>2. ~run[w].fresh /\ checkpoint[j].status = "running" /\ PageOf[o] < checkpoint[j].page
      BY <1>0, <1>1, <3>1
    <3>3. o \notin found
      BY <1>0, <2>3 DEF ResponseInv
    <3> QED
      BY <1>4, <1>5, <2>3, <3>2, <3>3 DEF CheckpointCovered
  <2> QED
    BY <2>1, <2>2, <2>3
<1> QED
  BY <1>6, <1>7, <1>8, <1>9, <1>10, <1>11, <1>12, <1>a

(* A connection degraded with the object at hand may commit a new          *)
(* checkpoint, at the first page, and rows of objects that the response    *)
(* showed.                                                                 *)
LEMMA Degraded ==
  ASSUME SyncInv, NEW w \in Worker, Degrade(w), run[w].known = "active"
  PROVE  LET j == run[w].job
         IN  /\ j \in Job
             /\ run[w].found \subseteq Object
             /\ checkpoint' \in [Job -> SyncCheckpoint]
             /\ \A k \in Job : k # j => checkpoint'[k] = checkpoint[k]
             /\ \/ /\ run[w].fresh
                   /\ checkpoint[j].status = "absent" /\ checkpoint[j].page = 0
                   /\ checkpoint'[j].status = "running" /\ checkpoint'[j].page = 1
                \/ /\ ~run[w].fresh
                   /\ checkpoint[j].status # "absent" /\ checkpoint'[j] = checkpoint[j]
<1> DEFINE j == run[w].job
<1> USE DEF SyncInv
<1>0. j \in Job /\ On(w, "await") /\ run[w].found \subseteq Object
  BY DEF Degrade, RunInv, On, TypeOK, Run
<1>1. CASE run[w].fresh
  <2>1. [page |-> 1, status |-> "running"] \in SyncCheckpoint
    BY DEF SyncCheckpoint, End
  <2>2. checkpoint[j].status = "absent" /\ checkpoint[j].page = 0
    BY <1>0, <1>1 DEF RunInv, CheckpointInv
  <2> QED
    BY <1>0, <1>1, <2>1, <2>2 DEF Degrade, TypeOK
<1>2. CASE ~run[w].fresh
  <2>1. checkpoint[j].status # "absent"
    BY <1>0, <1>2 DEF RunInv, On
  <2> QED
    BY <1>0, <1>2, <2>1 DEF Degrade, TypeOK
<1> QED
  BY <1>1, <1>2

(* Otherwise the sync just fails. *)
LEMMA FailStep ==
  ASSUME SyncInv, NEW w \in Worker, Degrade(w), run[w].known # "active"
  PROVE  /\ UNCHANGED <<rows, checkpoint>>
         /\ SyncInv'
<1> USE DEF SyncInv
<1>1. /\ run[w].job \in Job
      /\ run' = [run EXCEPT ![w] = Doing(run[w].job, "failed")]
      /\ UNCHANGED <<graph, rows, checkpoint, status, owner, connection, disturbed>>
  BY DEF Degrade, RunInv, On
<1>2. /\ Doing(run[w].job, "failed") \in Run
      /\ Doing(run[w].job, "failed").job = run[w].job
      /\ Doing(run[w].job, "failed").step = "failed"
      /\ ~Doing(run[w].job, "failed").fresh
  BY <1>1, DoingType DEF Step
<1>3. /\ run' \in [Worker -> Run]
      /\ run'[w] = Doing(run[w].job, "failed")
      /\ \A v \in Worker : v # w => run'[v] = run[v]
  BY <1>1, <1>2, RunUpdate DEF TypeOK
<1>4. TypeOK'
  BY <1>1, <1>3 DEF TypeOK
<1> QED
  BY <1>1, <1>2, <1>3, <1>4, QuietStep

LEMMA DegradeStep ==
  ASSUME SyncInv, NEW w \in Worker, Degrade(w), run[w].known = "active"
  PROVE  SyncInv'
<1> DEFINE j == run[w].job
           found == run[w].found
<1> USE DEF SyncInv
<1>0. /\ j \in Job /\ On(w, "await") /\ found \subseteq Object
      /\ checkpoint' \in [Job -> SyncCheckpoint]
      /\ \A k \in Job : k # j => checkpoint'[k] = checkpoint[k]
  BY Degraded DEF Degrade
<1>c. \/ /\ run[w].fresh
         /\ checkpoint[j].status = "absent" /\ checkpoint[j].page = 0
         /\ checkpoint'[j].status = "running" /\ checkpoint'[j].page = 1
      \/ /\ ~run[w].fresh
         /\ checkpoint[j].status # "absent" /\ checkpoint'[j] = checkpoint[j]
  BY Degraded
<1>u. UNCHANGED <<graph, status, owner>>
  BY DEF Degrade
<1>1. /\ run' \in [Worker -> Run]
      /\ run'[w].job = j /\ run'[w].step = "failed" /\ ~run'[w].fresh
      /\ \A v \in Worker : v # w => run'[v] = run[v]
  <2>1. run' = [run EXCEPT ![w] = Doing(j, "failed")]
    BY DEF Degrade
  <2> QED
    BY <1>0, <2>1, DoingType, RunUpdate DEF TypeOK, Step
<1>2. PICK done \in SUBSET found : /\ rows' = Stamped(j, done)
                                    /\ disturbed' = Disturbing(j, done)
  BY DEF Degrade
<1>3. /\ rows' \in [Object -> Job \cup {NoSync, NoRow}]
      /\ \A o \in Object : rows'[o] = IF o \in done THEN j ELSE rows[o]
  BY <1>0, <1>2 DEF Stamped, TypeOK
<1>4. /\ disturbed' \in [Job -> SUBSET Object]
      /\ \A k \in Job : disturbed[k] \subseteq disturbed'[k]
      /\ \A k \in Job : k # j /\ InProgress(k) => done \subseteq disturbed'[k]
      /\ disturbed'[j] = disturbed[j]
  <2>1. done \in SUBSET Object
    BY <1>0
  <2> QED
    BY <1>0, <1>2, <2>1, DisturbingType DEF TypeOK
<1>5. TypeOK'
  BY <1>0, <1>u, <1>1, <1>3, <1>4 DEF TypeOK, Degrade
<1>6. CheckpointInv'
  BY <1>0, <1>c DEF CheckpointInv, End
(* Another worker that awaits a response for this job has its checkpoint   *)
(* committed, so this one is not new.                                      *)
<1>7. \A v \in Worker : v # w /\ (run[v].fresh \/ On(v, "await")) =>
        run[v].job \in Job /\ checkpoint'[run[v].job] = checkpoint[run[v].job]
  <2> SUFFICES ASSUME NEW v \in Worker, v # w, run[v].fresh \/ On(v, "await")
               PROVE  run[v].job \in Job /\ checkpoint'[run[v].job] = checkpoint[run[v].job]
    OBVIOUS
  <2>1. run[v].job \in Job
    BY DEF RunInv, On
  <2>2. CASE run[v].job # j
    BY <1>0, <2>1, <2>2
  <2>3. CASE run[v].job = j
    BY <1>0, <1>c, <2>1, <2>3 DEF RunInv, On
  <2> QED
    BY <2>1, <2>2, <2>3
<1>8. RunInv'
  <2>1. \A k \in Job : checkpoint[k].status # "absent" => checkpoint'[k].status # "absent"
    BY <1>0, <1>c
  <2> QED
    BY <1>0, <1>1, <1>7, <2>1 DEF RunInv, On
<1>9. ResponseInv'
  BY <1>1 DEF ResponseInv, On
<1>10. \A v \in Worker : On(v, "await")' =>
         /\ v # w /\ run'[v] = run[v] /\ On(v, "await") /\ run[v].job \in Job
         /\ checkpoint'[run[v].job] = checkpoint[run[v].job]
         /\ disturbed[run[v].job] \subseteq disturbed'[run[v].job]
  BY <1>1, <1>4, <1>7 DEF On
<1>11. HolderInv'
  <2>1. \A v \in Worker : On(v, "await")' /\ Owns(v)' => Owns(v)
    BY <1>u, <1>10 DEF Owns
  <2> QED
    BY <1>u, <1>10, <2>1 DEF HolderInv
<1>12. FoundInv'
  BY <1>u, <1>10, FoundKept
<1>13. \A o \in done : PageOf[o] < checkpoint'[j].page \/ o \in graph \cup disturbed[j]
  <2>1. CASE checkpoint[j].status = "completed"
    BY <1>0, <1>c, <2>1 DEF CheckpointInv, End
  <2>2. CASE checkpoint[j].status # "completed"
    BY <1>0, <1>2, <2>2 DEF FoundInv
  <2> QED
    BY <2>1, <2>2
<1>14. StampInv'
  <2> SUFFICES ASSUME NEW k \in Job, NEW o \in Object, rows'[o] = k
               PROVE  /\ checkpoint'[k].status # "absent"
                      /\ PageOf[o] < checkpoint'[k].page \/ o \in graph' \cup disturbed'[k]
    BY DEF StampInv
  <2>1. CASE o \in done
    BY <1>0, <1>c, <1>u, <1>3, <1>4, <1>13, <2>1
  <2>2. CASE o \notin done
    <3>1. /\ checkpoint[k].status # "absent"
          /\ PageOf[o] < checkpoint[k].page \/ o \in graph \cup disturbed[k]
      BY <1>3, <2>2 DEF StampInv
    <3>2. checkpoint'[k] = checkpoint[k]
      BY <1>0, <1>c, <3>1
    <3> QED
      BY <1>u, <1>4, <3>1, <3>2
  <2> QED
    BY <2>1, <2>2
<1>15. CheckpointCovered'
  <2> SUFFICES ASSUME NEW k \in Job, checkpoint'[k].status = "running",
                      NEW o \in Object \ disturbed'[k], PageOf[o] < checkpoint'[k].page
               PROVE  rows'[o] = k <=> o \in graph
    BY <1>u DEF CheckpointCovered
  <2>1. CASE k # j
    <3>1. checkpoint'[k] = checkpoint[k] /\ o \notin done /\ o \notin disturbed[k]
      BY <1>0, <1>4, <2>1 DEF InProgress
    <3> QED
      BY <1>3, <3>1 DEF CheckpointCovered
  <2>2. CASE k = j
    <3>1. checkpoint[j].status = "running" /\ PageOf[o] < checkpoint[j].page
      BY <1>c, <2>2
    <3>2. rows[o] = j <=> o \in graph
      BY <1>4, <2>2, <3>1 DEF CheckpointCovered
    <3>3. o \in done => o \in graph
      BY <1>0, <1>2, <1>4, <2>2, <3>1 DEF FoundInv
    <3> QED
      BY <1>3, <2>2, <3>2, <3>3
  <2> QED
    BY <2>1, <2>2
<1> QED
  BY <1>5, <1>6, <1>8, <1>9, <1>11, <1>12, <1>14, <1>15

(* A sync has no page left only from a committed checkpoint. *)
LEMMA AtTheEnd ==
  ASSUME SyncInv, NEW w \in Worker, On(w, "page"), NextPage(w) = End
  PROVE  /\ run[w].job \in Job /\ ~run[w].fresh
         /\ checkpoint[run[w].job].page = End
         /\ checkpoint[run[w].job].status \in {"running", "completed"}
<1> USE DEF SyncInv
<1>1. run[w].job \in Job
  BY DEF RunInv, On
<1>2. ~run[w].fresh
  BY DEF NextPage, End
<1>3. checkpoint[run[w].job].status # "absent" /\ checkpoint[run[w].job] \in SyncCheckpoint
  BY <1>1, <1>2 DEF RunInv, On, TypeOK
<1> QED
  BY <1>1, <1>2, <1>3 DEF NextPage, SyncCheckpoint

(* The final delete and the completed checkpoint. *)
LEMMA FinalizeStep ==
  ASSUME SyncInv, NEW w \in Worker, Finalize(w)
  PROVE  SyncInv'
<1> DEFINE j == run[w].job
<1> USE DEF SyncInv
<1>0. /\ j \in Job /\ On(w, "page") /\ ~run[w].fresh /\ run[w] \in Run
      /\ checkpoint[j] \in SyncCheckpoint /\ checkpoint[j].page = End
      /\ checkpoint[j].status \in {"running", "completed"}
  BY AtTheEnd DEF Finalize, TypeOK
<1>u. UNCHANGED <<graph, status, owner, connection>>
  BY DEF Finalize
<1>1. /\ run' \in [Worker -> Run]
      /\ run'[w].job = j /\ run'[w].step = "close" /\ ~run'[w].fresh
      /\ \A v \in Worker : v # w => run'[v] = run[v]
  BY <1>0 DEF Finalize, TypeOK, Run, Step
<1>2. /\ checkpoint' \in [Job -> SyncCheckpoint]
      /\ checkpoint'[j].page = End /\ checkpoint'[j].status = "completed"
      /\ \A k \in Job : k # j => checkpoint'[k] = checkpoint[k]
  BY <1>0 DEF Finalize, TypeOK, SyncCheckpoint
<1>3. /\ rows' \in [Object -> Job \cup {NoSync, NoRow}]
      /\ \A o \in Object : rows'[o] = IF o \in Outdated(j) THEN NoRow ELSE rows[o]
  BY DEF Finalize, TypeOK
<1>4. Outdated(j) \in SUBSET Object
  BY DEF Outdated
<1>5. /\ disturbed' \in [Job -> SUBSET Object]
      /\ \A k \in Job : k # j => disturbed[k] \subseteq disturbed'[k]
      /\ \A k \in Job : k # j /\ InProgress(k) => Outdated(j) \subseteq disturbed'[k]
  <2>1. disturbed' = [Disturbing(j, Outdated(j)) EXCEPT ![j] = {}]
    BY DEF Finalize
  <2>2. /\ Disturbing(j, Outdated(j)) \in [Job -> SUBSET Object]
        /\ \A k \in Job : disturbed[k] \subseteq Disturbing(j, Outdated(j))[k]
        /\ \A k \in Job : k # j /\ InProgress(k)
                            => Outdated(j) \subseteq Disturbing(j, Outdated(j))[k]
    BY <1>4, DisturbingType DEF TypeOK
  <2> QED
    BY <2>1, <2>2
<1>6. TypeOK'
  BY <1>u, <1>1, <1>2, <1>3, <1>5 DEF TypeOK
<1>7. CheckpointInv'
  BY <1>2 DEF CheckpointInv
<1>8. RunInv'
  <2>1. \A v \in Worker : run[v].fresh => run[v].job # j
    BY <1>0 DEF RunInv
  <2> QED
    BY <1>0, <1>1, <1>2, <2>1 DEF RunInv, On
<1>9. ResponseInv'
  BY <1>1 DEF ResponseInv, On
<1>10. HolderInv'
  <2>1. \A v \in Worker : On(v, "await")' /\ Owns(v)' =>
          v # w /\ run'[v] = run[v] /\ On(v, "await") /\ Owns(v) /\ run[v].job \in Job
    BY <1>u, <1>1 DEF On, Owns, RunInv
  <2>2. ASSUME NEW v \in Worker, On(v, "await"), Owns(v), run[v].job = j PROVE FALSE
    <3>1. ~run[v].fresh
      BY <1>0, <2>2 DEF RunInv
    <3>2. checkpoint[j] = [page |-> run[v].page, status |-> "running"]
      BY <2>2, <3>1 DEF HolderInv
    <3>3. run[v].page \in 1 .. Pages /\ run[v].page = End
      BY <1>0, <2>2, <3>2 DEF ResponseInv
    <3> QED
      BY <3>3 DEF End
  <2>3. \A v \in Worker : On(v, "await")' /\ Owns(v)' =>
          /\ checkpoint'[run[v].job] = checkpoint[run[v].job]
          /\ disturbed[run[v].job] \subseteq disturbed'[run[v].job]
    BY <1>2, <1>5, <2>1, <2>2
  <2> QED
    BY <1>u, <2>1, <2>3 DEF HolderInv
<1>a. FoundInv'
  <2> SUFFICES ASSUME NEW v \in Worker, On(v, "await")',
                      checkpoint'[run'[v].job].status # "completed"
               PROVE  run'[v].found \subseteq graph' \cup disturbed'[run'[v].job]
    BY DEF FoundInv
  <2>1. v # w /\ run'[v] = run[v] /\ On(v, "await") /\ run[v].job \in Job
    BY <1>1 DEF On, RunInv
  <2>2. run[v].job # j
    BY <1>2, <2>1
  <2> QED
    BY <1>u, <1>2, <1>5, <2>1, <2>2 DEF FoundInv
<1>11. StampInv'
  <2> SUFFICES ASSUME NEW k \in Job, NEW o \in Object, rows'[o] = k
               PROVE  /\ checkpoint'[k].status # "absent"
                      /\ PageOf[o] < checkpoint'[k].page \/ o \in graph' \cup disturbed'[k]
    BY DEF StampInv
  <2>1. CASE k = j
    BY <1>2, <2>1 DEF End
  <2>2. CASE k # j
    BY <1>u, <1>2, <1>3, <1>5, <2>2 DEF StampInv
  <2> QED
    BY <2>1, <2>2
<1>12. CheckpointCovered'
  <2> SUFFICES ASSUME NEW k \in Job, checkpoint'[k].status = "running",
                      NEW o \in Object \ disturbed'[k], PageOf[o] < checkpoint'[k].page
               PROVE  rows'[o] = k <=> o \in graph
    BY <1>u DEF CheckpointCovered
  <2>1. k # j /\ checkpoint'[k] = checkpoint[k]
    BY <1>2
  <2>2. o \notin disturbed[k] /\ o \notin Outdated(j)
    BY <1>5, <2>1 DEF InProgress
  <2> QED
    BY <1>3, <2>1, <2>2 DEF CheckpointCovered
<1> QED
  BY <1>6, <1>7, <1>8, <1>9, <1>10, <1>11, <1>12, <1>a

(* A change of the directory disturbs every sync in progress. *)
LEMMA GraphStep ==
  ASSUME SyncInv, NEW x \in Changing, GraphChange(x)
  PROVE  SyncInv'
<1> USE DEF SyncInv
<1>u. UNCHANGED <<rows, checkpoint, status, owner, run, connection>>
  BY DEF GraphChange
<1>1. \A o \in Object : o # x => (o \in graph' <=> o \in graph)
  BY DEF GraphChange
<1>2. /\ disturbed' \in [Job -> SUBSET Object]
      /\ \A k \in Job : disturbed[k] \subseteq disturbed'[k]
      /\ \A k \in Job : InProgress(k) => x \in disturbed'[k]
  <2>1. {x} \in SUBSET Object /\ NoJob \notin Job
    OBVIOUS
  <2> QED
    BY <2>1, DisturbingType DEF GraphChange, TypeOK
<1>3. TypeOK'
  BY <1>u, <1>2 DEF TypeOK, GraphChange
<1>4. CheckpointInv' /\ ResponseInv' /\ RunInv'
  BY <1>u DEF CheckpointInv, ResponseInv, RunInv, On
<1>a. FoundInv'
  <2> SUFFICES ASSUME NEW v \in Worker, On(v, "await"),
                      checkpoint[run[v].job].status # "completed"
               PROVE  run[v].found \subseteq graph' \cup disturbed'[run[v].job]
    BY <1>u DEF FoundInv, On
  <2>1. run[v].job \in Job /\ x \in disturbed'[run[v].job] /\ run[v].found \subseteq Object
    BY <1>2, AnyAwaitInProgress DEF TypeOK, Run
  <2> QED
    BY <1>1, <1>2, <2>1 DEF FoundInv
<1>b. StampInv'
  <2> SUFFICES ASSUME NEW k \in Job, NEW o \in Object, rows[o] = k
               PROVE  /\ checkpoint[k].status # "absent"
                      /\ PageOf[o] < checkpoint[k].page \/ o \in graph' \cup disturbed'[k]
    BY <1>u DEF StampInv
  <2>0. checkpoint[k].status # "absent" /\ checkpoint[k] \in SyncCheckpoint
    BY DEF StampInv, TypeOK
  <2>1. CASE checkpoint[k].status = "completed"
    BY <2>1 DEF CheckpointInv, End
  <2>2. CASE checkpoint[k].status = "running"
    <3>1. x \in disturbed'[k]
      BY <1>2, <2>2 DEF InProgress
    <3> QED
      BY <1>1, <1>2, <2>0, <3>1 DEF StampInv
  <2> QED
    BY <2>0, <2>1, <2>2 DEF SyncCheckpoint
<1>5. HolderInv'
  <2>1. \A v \in Worker : On(v, "await")' /\ Owns(v)' =>
          /\ On(v, "await") /\ Owns(v) /\ run[v].job \in Job
          /\ x \in disturbed'[run[v].job]
    BY <1>u, <1>2, AwaitInProgress DEF On, Owns
  <2> QED
    BY <1>u, <1>1, <1>2, <2>1 DEF HolderInv
<1>6. CheckpointCovered'
  BY <1>u, <1>1, <1>2 DEF CheckpointCovered, InProgress
<1> QED
  BY <1>3, <1>4, <1>5, <1>6, <1>a, <1>b

-----------------------------------------------------------------------------
(* Every step keeps the invariant. *)
LEMMA SyncStep == SyncInv /\ [Next]_vars => SyncInv'
<1> SUFFICES ASSUME SyncInv, [Next]_vars PROVE SyncInv'
  OBVIOUS
<1>j. \A w \in Worker : ~On(w, "idle") => run[w].job \in Job
  BY DEF SyncInv, RunInv
<1>1. ASSUME NEW w \in Worker, Complete(w) \/ Abandon(w) \/ DeadLetter(w) PROVE SyncInv'
  <2>1. run[w].job \in Job
    BY <1>j, <1>1 DEF Complete, Abandon, DeadLetter, On
  <2> QED
    BY <1>1, <2>1, CloseStep DEF Complete, Abandon, DeadLetter
<1>2. ASSUME \/ \E result \in {"active", "degraded"} : ApplyTestResult(result)
             \/ UNCHANGED vars
      PROVE  SyncInv'
  <2>1. TypeOK'
    BY <1>2 DEF ApplyTestResult, vars, SyncInv, TypeOK
  <2>2. UNCHANGED <<graph, rows, checkpoint, owner, run, disturbed>>
    BY <1>2 DEF ApplyTestResult, vars
  <2> QED
    BY <2>1, <2>2, QuietStep
<1> QED
  BY <1>1, <1>2, TakeStep, BeginStep, RequestStep, WritePageStep, DegradeStep, FailStep,
     FinalizeStep, LeaveStep, LapseStep, GraphStep DEF Next

THEOREM SyncInvariant == Spec => []SyncInv
<1> QED
  BY SyncInit, SyncStep, PTL DEF Spec

-----------------------------------------------------------------------------
(* Each variable keeps the values the program gives it. *)
THEOREM TypeCorrect == Spec => []TypeOK
<1>1. SyncInv => TypeOK
  BY DEF SyncInv
<1> QED
  BY <1>1, SyncInvariant, PTL

(* A sync can be resumed from its checkpoint after any crash or lapse of   *)
(* its lease: the rows of the pages before it are up to date.              *)
THEOREM CheckpointAlwaysCovered == Spec => []CheckpointCovered
<1>1. SyncInv => CheckpointCovered
  BY DEF SyncInv
<1> QED
  BY <1>1, SyncInvariant, PTL

-----------------------------------------------------------------------------
(* The action properties. *)

(* Only three steps touch rows or checkpoints. *)
LEMMA OtherSteps ==
  ASSUME [Next]_vars,
         \A w \in Worker : ~WritePage(w) /\ ~Degrade(w) /\ ~Finalize(w)
  PROVE  UNCHANGED <<rows, checkpoint>>
BY DEF Next, vars, Take, Begin, Request, Complete, Abandon, DeadLetter, Close, Leave,
       Lapse, GraphChange, ApplyTestResult

(* A page extends the checkpoint of a sync that is not complete. *)
LEMMA PageWritten ==
  ASSUME SyncInv, NEW w \in Worker, WritePage(w)
  PROVE  /\ run[w].job \in Job
         /\ checkpoint[run[w].job].status \in {"absent", "running"}
         /\ checkpoint'[run[w].job].status = "running"
         /\ checkpoint'[run[w].job].page > checkpoint[run[w].job].page
         /\ \A k \in Job : k # run[w].job => checkpoint'[k] = checkpoint[k]
         /\ \A o \in Object : rows'[o] \in {run[w].job, rows[o]}
<1> DEFINE j == run[w].job
           p == run[w].page
<1> USE DEF SyncInv
<1>0. /\ j \in Job /\ On(w, "await") /\ Owns(w) /\ p \in 1 .. Pages
  BY DEF WritePage, RunInv, On, ResponseInv
<1>1. /\ run[w].fresh => checkpoint[j].status = "absent" /\ checkpoint[j].page = 0
      /\ ~run[w].fresh => checkpoint[j].status = "running" /\ checkpoint[j].page = p
  <2>1. CASE run[w].fresh
    BY <1>0, <2>1 DEF RunInv, CheckpointInv
  <2>2. CASE ~run[w].fresh
    <3>1. checkpoint[j] = [page |-> p, status |-> "running"]
      BY <1>0, <2>2 DEF HolderInv
    <3> QED
      BY <2>2, <3>1
  <2> QED
    BY <2>1, <2>2
<1>2. checkpoint' = [checkpoint EXCEPT ![j] = [page |-> p + 1, status |-> "running"]]
  BY <1>0, <1>1 DEF WritePage, After, TypeOK
<1>3. checkpoint'[j] = [page |-> p + 1, status |-> "running"]
  BY <1>0, <1>2 DEF TypeOK
<1>4. \A k \in Job : k # j => checkpoint'[k] = checkpoint[k]
  BY <1>2 DEF TypeOK
<1>5. \A o \in Object : rows'[o] \in {j, rows[o]}
  BY DEF WritePage, Stamped
<1>6. checkpoint'[j].status = "running" /\ checkpoint'[j].page > checkpoint[j].page
  BY <1>0, <1>1, <1>3
<1> QED
  BY <1>0, <1>1, <1>4, <1>5, <1>6

(* The end of a sync. *)
LEMMA Finalized ==
  ASSUME SyncInv, NEW w \in Worker, Finalize(w)
  PROVE  /\ run[w].job \in Job
         /\ checkpoint[run[w].job].page = End
         /\ checkpoint[run[w].job].status \in {"running", "completed"}
         /\ checkpoint'[run[w].job].page = End
         /\ checkpoint'[run[w].job].status = "completed"
         /\ \A k \in Job : k # run[w].job => checkpoint'[k] = checkpoint[k]
         /\ \A o \in Object :
              rows'[o] = IF rows[o] = run[w].job THEN rows[o] ELSE NoRow
<1>1. /\ run[w].job \in Job /\ checkpoint[run[w].job].page = End
      /\ checkpoint[run[w].job].status \in {"running", "completed"}
  BY AtTheEnd DEF Finalize
<1>2. /\ checkpoint'[run[w].job].page = End
      /\ checkpoint'[run[w].job].status = "completed"
      /\ \A k \in Job : k # run[w].job => checkpoint'[k] = checkpoint[k]
  BY <1>1 DEF Finalize, SyncInv, TypeOK, SyncCheckpoint
<1>3. \A o \in Object : rows'[o] = IF rows[o] = run[w].job THEN rows[o] ELSE NoRow
  BY <1>1 DEF Finalize, Outdated
<1> QED
  BY <1>1, <1>2, <1>3

(* A checkpoint never goes back and a completed sync is never reopened,    *)
(* whatever late responses the workers of lapsed leases still have.        *)
THEOREM CheckpointNeverBack == Spec => CheckpointMonotone
<1> DEFINE P(k) == /\ checkpoint'[k].page >= checkpoint[k].page
                   /\ checkpoint[k].status = "completed" => checkpoint'[k].status = "completed"
<1>1. ASSUME SyncInv, [Next]_vars, NEW k \in Job PROVE P(k)
  <2>0. checkpoint[k].page \in Int
    BY <1>1 DEF SyncInv, TypeOK, SyncCheckpoint, End
  <2>1. ASSUME NEW w \in Worker, WritePage(w) PROVE P(k)
    <3>1. CASE k = run[w].job
      BY <1>1, <2>0, <2>1, <3>1, PageWritten, SyncStep DEF SyncInv, TypeOK, SyncCheckpoint, End
    <3>2. CASE k # run[w].job
      BY <1>1, <2>0, <2>1, <3>2, PageWritten
    <3> QED
      BY <3>1, <3>2
  <2>2. ASSUME NEW w \in Worker, Degrade(w) PROVE P(k)
    <3>1. CASE run[w].known = "active"
      BY <1>1, <2>0, <2>2, <3>1, Degraded
    <3>2. CASE run[w].known # "active"
      BY <1>1, <2>0, <2>2, <3>2, FailStep
    <3> QED
      BY <3>1, <3>2
  <2>3. ASSUME NEW w \in Worker, Finalize(w) PROVE P(k)
    BY <1>1, <2>0, <2>3, Finalized
  <2>4. CASE UNCHANGED <<rows, checkpoint>>
    BY <2>0, <2>4
  <2> QED
    BY <1>1, <2>1, <2>2, <2>3, <2>4, OtherSteps
<1>2. SyncInv /\ [Next]_vars =>
        [\A j \in Job :
           /\ checkpoint'[j].page >= checkpoint[j].page
           /\ checkpoint[j].status = "completed" => checkpoint'[j].status = "completed"]_vars
  BY <1>1
<1> QED
  BY <1>2, SyncInvariant, PTL DEF Spec, CheckpointMonotone

(* No row gets the stamp of a sync that is complete, but from an overtaken *)
(* handler refused in the middle of a page, whose session holds the        *)
(* connection as active.                                                   *)
THEOREM CompletedStaysFinal == Spec => CompletedIsFinal
<1> DEFINE P(k) == checkpoint[k].status = "completed" =>
                     \A o \in Object : rows'[o] = k /\ rows[o] # k =>
                       \E w \in Worker : DegradesMidPage(w, k, o)
<1>1. ASSUME SyncInv, [Next]_vars, NEW k \in Job PROVE P(k)
  <2>1. ASSUME NEW w \in Worker, WritePage(w) PROVE P(k)
    BY <1>1, <2>1, PageWritten
  <2>2. ASSUME NEW w \in Worker, Degrade(w) PROVE P(k)
    <3> SUFFICES ASSUME checkpoint[k].status = "completed",
                        NEW o \in Object, rows'[o] = k, rows[o] # k
                 PROVE  DegradesMidPage(w, k, o)
      OBVIOUS
    <3>1. run[w].known = "active"
      BY <1>1, <2>2, FailStep
    <3>2. PICK done \in SUBSET run[w].found :
            /\ PerObject \/ done = {}
            /\ rows' = Stamped(run[w].job, done)
      BY <2>2, <3>1 DEF Degrade
    <3>3. o \in done /\ run[w].job = k
      BY <3>2 DEF Stamped
    <3>4. PerObject /\ o \in run[w].found
      BY <3>2, <3>3
    <3>5. On(w, "await") /\ connection' = "degraded"
      BY <2>2, <3>1 DEF Degrade
    <3>6. run'[w].step = "failed"
      <4>1. run' = [run EXCEPT ![w] = Doing(run[w].job, "failed")] /\ run \in [Worker -> Run]
        BY <1>1, <2>2 DEF Degrade, SyncInv, TypeOK
      <4> QED
        BY <4>1 DEF Doing
    <3>7. ~Owns(w)
      <4>1. CASE run[w].fresh
        BY <1>1, <3>3, <4>1 DEF SyncInv, RunInv
      <4>2. CASE ~run[w].fresh
        <5>1. Owns(w) => checkpoint[k] = [page |-> run[w].page, status |-> "running"]
          BY <1>1, <3>3, <3>5, <4>2 DEF SyncInv, HolderInv
        <5>2. Owns(w) => checkpoint[k].status = "running"
          BY <5>1
        <5> QED
          BY <5>2
      <4> QED
        BY <4>1, <4>2
    <3> QED
      BY <3>1, <3>3, <3>4, <3>5, <3>6, <3>7 DEF DegradesMidPage
  <2>3. ASSUME NEW w \in Worker, Finalize(w) PROVE P(k)
    BY <1>1, <2>3, Finalized
  <2>4. CASE UNCHANGED <<rows, checkpoint>>
    BY <2>4
  <2> QED
    BY <1>1, <2>1, <2>2, <2>3, <2>4, OtherSteps
<1>2. SyncInv /\ [Next]_vars =>
        [\A j \in Job : checkpoint[j].status = "completed" =>
           \A o \in Object : rows'[o] = j /\ rows[o] # j =>
             \E w \in Worker : DegradesMidPage(w, j, o)]_vars
  BY <1>1
<1> QED
  BY <1>2, SyncInvariant, PTL DEF Spec, CompletedIsFinal

(* A sync that completes leaves exactly what Graph holds, but for objects  *)
(* that Graph or another sync changed while it ran.                        *)
THEOREM CompletedExact == Spec => CompletedSyncIsExact
<1> DEFINE P(k) == checkpoint[k].status # "completed" /\ checkpoint'[k].status = "completed"
                     => \A o \in Object \ disturbed[k] : rows'[o] # NoRow <=> o \in graph
<1>1. ASSUME SyncInv, [Next]_vars, NEW k \in Job PROVE P(k)
  <2>1. ASSUME NEW w \in Worker, WritePage(w) PROVE P(k)
    BY <1>1, <2>1, PageWritten
  <2>2. ASSUME NEW w \in Worker, Degrade(w) PROVE P(k)
    <3>1. CASE run[w].known = "active"
      BY <1>1, <2>2, <3>1, Degraded
    <3>2. CASE run[w].known # "active"
      BY <1>1, <2>2, <3>2, FailStep
    <3> QED
      BY <3>1, <3>2
  <2>3. ASSUME NEW w \in Worker, Finalize(w) PROVE P(k)
    <3> SUFFICES ASSUME checkpoint[k].status # "completed", checkpoint'[k].status = "completed",
                        NEW o \in Object \ disturbed[k]
                 PROVE  rows'[o] # NoRow <=> o \in graph
      OBVIOUS
    <3>1. k = run[w].job /\ checkpoint[k].status = "running" /\ checkpoint[k].page = End
      BY <1>1, <2>3, Finalized
    <3>2. PageOf[o] < checkpoint[k].page
      BY <3>1 DEF End
    <3>3. rows[o] = k <=> o \in graph
      BY <1>1, <3>1, <3>2 DEF SyncInv, CheckpointCovered
    <3>4. rows'[o] = IF rows[o] = k THEN rows[o] ELSE NoRow
      BY <1>1, <2>3, <3>1, Finalized
    <3> QED
      BY <3>3, <3>4
  <2>4. CASE UNCHANGED <<rows, checkpoint>>
    BY <2>4
  <2> QED
    BY <1>1, <2>1, <2>2, <2>3, <2>4, OtherSteps
<1>2. SyncInv /\ [Next]_vars =>
        [\A j \in Job :
           checkpoint[j].status # "completed" /\ checkpoint'[j].status = "completed"
           => \A o \in Object \ disturbed[j] : rows'[o] # NoRow <=> o \in graph]_vars
  BY <1>1
<1> QED
  BY <1>2, SyncInvariant, PTL DEF Spec, CompletedSyncIsExact

(* An overtaken worker, one whose lease has lapsed while it waited for     *)
(* Graph, neither sets a sync back nor goes on after its end.              *)
THEOREM OvertakenNeverHarms == Spec => OvertakenIsHarmless
BY CheckpointNeverBack, CompletedStaysFinal DEF OvertakenIsHarmless

-----------------------------------------------------------------------------
(* Two syncs of one tenant lose rows to each other only where they overlap. *)

(* From the first request to the completed checkpoint, crashes included,   *)
(* and for as long as a worker is still in the page loop.                  *)
Underway(j) ==
  \/ InProgress(j)
  \/ \E w \in Worker : run[w].job = j /\ run[w].step \in {"page", "await"}

Alone == \A i, j \in Job : Underway(i) /\ Underway(j) => i = j

(* A sync that is alone is disturbed by Graph and by nobody else.          *)
Confined == \A j \in Job : disturbed[j] \subseteq Changing

LEMMA ConfinedStep == SyncInv /\ Alone /\ Confined /\ [Next]_vars => Confined'
<1> SUFFICES ASSUME SyncInv, Alone, Confined, [Next]_vars PROVE Confined'
  OBVIOUS
<1> USE DEF Confined
<1>1. ASSUME NEW j \in Job, Underway(j), NEW objects, NEW k \in Job
      PROVE  Disturbing(j, objects)[k] = disturbed[k]
  BY <1>1 DEF Alone, Underway, Disturbing
<1>2. ASSUME NEW w \in Worker, WritePage(w) \/ Degrade(w) PROVE Confined'
  <2>1. run[w].job \in Job /\ Underway(run[w].job)
    BY <1>2 DEF WritePage, Degrade, SyncInv, RunInv, On, Underway
  <2>2. disturbed' = disturbed \/ \E objects : disturbed' = Disturbing(run[w].job, objects)
    BY <1>2 DEF WritePage, Degrade
  <2> QED
    BY <1>1, <2>1, <2>2
<1>3. ASSUME NEW w \in Worker, Finalize(w) PROVE Confined'
  <2>1. run[w].job \in Job /\ Underway(run[w].job)
    BY <1>3 DEF Finalize, SyncInv, RunInv, On, Underway
  <2>2. disturbed' = [Disturbing(run[w].job, Outdated(run[w].job)) EXCEPT ![run[w].job] = {}]
    BY <1>3 DEF Finalize
  <2>3. DOMAIN Disturbing(run[w].job, Outdated(run[w].job)) = Job
    BY DEF Disturbing
  <2> QED
    BY <1>1, <2>1, <2>2, <2>3
<1>4. ASSUME NEW w \in Worker, Begin(w) PROVE Confined'
  BY <1>4 DEF Begin, Insert, Resume, Redelivered, SyncInv, TypeOK
<1>5. ASSUME NEW o \in Changing, GraphChange(o) PROVE Confined'
  BY <1>5 DEF GraphChange, Disturbing
<1>6. CASE UNCHANGED disturbed
  BY <1>6
<1> QED
  BY <1>2, <1>3, <1>4, <1>5, <1>6
  DEF Next, vars, Take, Request, Complete, Abandon, DeadLetter, Close, Leave, Lapse,
      ApplyTestResult

(* As long as no two syncs of the tenant are under way at once, a sync     *)
(* that completes keeps a row for whatever was in the directory all along, *)
(* through any crash, lapse and overtaken worker: the overlap is what      *)
(* NoLostObjects fails of, and a window that kept syncs apart would mend it. *)
THEOREM AloneLosesNothing == Spec /\ []Alone => NoLostObjects
<1>1. Init => Confined
  BY DEF Init, Confined
<1>2. ASSUME Confined, TypeOK,
             [\A j \in Job :
                checkpoint[j].status # "completed" /\ checkpoint'[j].status = "completed"
                => \A o \in Object \ disturbed[j] : rows'[o] # NoRow <=> o \in graph]_vars
      PROVE  [\A j \in Job :
                checkpoint[j].status # "completed" /\ checkpoint'[j].status = "completed"
                => \A o \in graph \ Changing : rows'[o] # NoRow]_vars
  BY <1>2 DEF Confined, TypeOK
<1> QED
  BY <1>1, <1>2, ConfinedStep, SyncInvariant, TypeCorrect, CompletedExact, PTL
  DEF Spec, CompletedSyncIsExact, NoLostObjects

-----------------------------------------------------------------------------
(* The queue as JobLease. *)

(* A worker that does nothing has no job.                                  *)
AtRest == \A w \in Worker : On(w, "idle") => run[w].job = NoJob

LEMMA AtRestStep == TypeOK /\ AtRest /\ [Next]_vars => AtRest'
<1> SUFFICES ASSUME TypeOK, AtRest, [Next]_vars PROVE AtRest'
  OBVIOUS
<1>1. ASSUME NEW w \in Worker, NEW r,
             run' = [run EXCEPT ![w] = r], r.step = "idle" => r.job = NoJob
      PROVE  AtRest'
  BY <1>1 DEF AtRest, On, TypeOK
<1>2. ASSUME NEW w \in Worker, NEW j \in Job, Take(w, j) PROVE AtRest'
  BY <1>1, <1>2 DEF Take, Doing
<1>3. ASSUME NEW w \in Worker, Begin(w) PROVE AtRest'
  BY <1>3 DEF Begin, Insert, Resume, Redelivered, AtRest, On, TypeOK, Run
<1>4. ASSUME NEW w \in Worker, Request(w) PROVE AtRest'
  <2>1. PICK known :
          run' = [run EXCEPT ![w] = [job |-> run[w].job, step |-> "await",
                                     fresh |-> run[w].fresh, known |-> known,
                                     page |-> NextPage(w),
                                     found |-> {o \in graph : PageOf[o] = NextPage(w)}]]
    BY <1>4 DEF Request
  <2> QED
    BY <1>1, <2>1
<1>5. ASSUME NEW w \in Worker, WritePage(w) \/ Degrade(w) PROVE AtRest'
  BY <1>1, <1>5 DEF WritePage, Degrade, Doing
<1>6. ASSUME NEW w \in Worker, Finalize(w) PROVE AtRest'
  BY <1>6 DEF Finalize, AtRest, On, TypeOK, Run
<1>7. ASSUME NEW w \in Worker, run' = [run EXCEPT ![w] = Idle] PROVE AtRest'
  BY <1>1, <1>7 DEF Idle, Doing
<1>8. CASE run' = run
  BY <1>8 DEF AtRest, On
<1> QED
  BY <1>2, <1>3, <1>4, <1>5, <1>6, <1>7, <1>8
  DEF Next, vars, Complete, Abandon, DeadLetter, Close, Leave, Lapse, GraphChange,
      ApplyTestResult

WorkMap == [w \in Worker |-> run[w].job]

(* The syncs leave it to the queue to whom it gives a job, and when a      *)
(* lease lapses: whatever JobLease may do there, the model does.           *)
THEOREM SyncLeavesQueueFree ==
  ASSUME SyncInv, AtRest, NEW w \in Worker, NEW j \in Job,
         UNCHANGED <<graph, rows, checkpoint, connection, disturbed>>
  PROVE  /\ run' = [run EXCEPT ![w] = Doing(j, "start")]
              => (Take(w, j) <=> Lease!Take(w, j))
         /\ run' = run
              => (Lapse(j) <=> owner[j] # NoWorker /\ Lease!Lapse({j}))
<1>a. run \in [Worker -> Run] /\ owner \in [Job -> Worker \cup {NoWorker}]
  BY DEF SyncInv, TypeOK
<1>1. On(w, "idle") <=> WorkMap[w] = NoJob
  BY NameAssumption DEF SyncInv, RunInv, AtRest, WorkMap
<1>2. ASSUME run' = [run EXCEPT ![w] = Doing(j, "start")]
      PROVE  Take(w, j) <=> Lease!Take(w, j)
  <2>1. WorkMap' = [WorkMap EXCEPT ![w] = j]
    BY <1>a, <1>2 DEF WorkMap, Doing
  <2> QED
    BY <1>1, <1>2, <2>1 DEF Take, Lease!Take, Lease!Available, WorkMap
<1>3. ASSUME run' = run
      PROVE  Lapse(j) <=> owner[j] # NoWorker /\ Lease!Lapse({j})
  <2>1. [owner EXCEPT ![j] = NoWorker] = [k \in Job |-> IF k \in {j} THEN NoWorker ELSE owner[k]]
    BY <1>a
  <2> QED
    BY <1>3, <2>1 DEF Lapse, Lease!Lapse
<1> QED
  BY <1>2, <1>3

(* Refinement: the syncs use the queue as JobLease allows; a job that is   *)
(* not theirs any more they leave as it is.                                *)
THEOREM SyncsUseLease == Spec => UsesLease
<1>1. Init => AtRest /\ Lease!Init
  BY DEF Init, AtRest, Idle, Doing, Lease!Init
<1>2. ASSUME SyncInv, AtRest, [Next]_vars PROVE [Lease!Next]_Lease!vars
  <2>a. TypeOK /\ run \in [Worker -> Run] /\ owner \in [Job -> Worker \cup {NoWorker}]
    BY <1>2 DEF SyncInv, TypeOK
  <2>j. \A w \in Worker : ~On(w, "idle") => run[w].job \in Job
    BY <1>2 DEF SyncInv, RunInv
  <2>1. ASSUME NEW w \in Worker, NEW j \in Job, Take(w, j)
        PROVE  Lease!Next
    <3>1. Lease!Take(w, j)
      BY <1>2, <2>1, SyncLeavesQueueFree DEF Take
    <3> QED
      BY <3>1 DEF Lease!Next, Lease!WorkerStep
  <2>2. ASSUME NEW j \in Job, Lapse(j) PROVE Lease!Next
    <3>1. Lease!Lapse({j}) /\ {j} \in SUBSET Job
      BY <2>2, <2>a DEF Lapse, Lease!Lapse
    <3> QED
      BY <3>1 DEF Lease!Next
  <2>3. ASSUME NEW w \in Worker, run' = [run EXCEPT ![w] = Idle]
        PROVE  WorkMap' = [WorkMap EXCEPT ![w] = NoJob]
    BY <2>3, <2>a DEF WorkMap, Idle, Doing
  <2>4. ASSUME NEW w \in Worker, Complete(w) \/ Abandon(w) \/ DeadLetter(w)
        PROVE  Lease!Next
    <3>1. PICK s \in {"completed", "queued", "dead_letter"} : Close(w, s)
      BY <2>4 DEF Complete, Abandon, DeadLetter
    <3>2. run[w].job \in Job
      BY <2>4, <2>j DEF Complete, Abandon, DeadLetter, On
    <3>3. Lease!Close(w, s)
      BY <3>1, <3>2, <2>3 DEF Close, Owns, Lease!Close, Lease!Holds, WorkMap
    <3> QED
      BY <3>3 DEF Lease!Next, Lease!WorkerStep
  <2>5. ASSUME NEW w \in Worker, Leave(w) PROVE Lease!Next
    <3>1. Lease!Leave(w)
      BY <2>5, <2>3, <2>j DEF Leave, Lease!Leave, WorkMap
    <3> QED
      BY <3>1 DEF Lease!Next, Lease!WorkerStep
  <2>6. ASSUME NEW w \in Worker,
               Begin(w) \/ Request(w) \/ WritePage(w) \/ Degrade(w) \/ Finalize(w)
        PROVE  UNCHANGED Lease!vars
    <3>1. UNCHANGED <<status, owner>>
      BY <2>6 DEF Begin, Request, WritePage, Degrade, Finalize
    <3>2. \A v \in Worker : run'[v].job = run[v].job
      <4>1. CASE Begin(w) \/ Finalize(w)
        BY <4>1, <2>a DEF Begin, Insert, Resume, Redelivered, Finalize, Run
      <4>2. CASE WritePage(w) \/ Degrade(w)
        BY <4>2, <2>a DEF WritePage, Degrade, Doing
      <4>3. CASE Request(w)
        <5>1. PICK known :
                run' = [run EXCEPT ![w] = [job |-> run[w].job, step |-> "await",
                                           fresh |-> run[w].fresh, known |-> known,
                                           page |-> NextPage(w),
                                           found |-> {o \in graph : PageOf[o] = NextPage(w)}]]
          BY <4>3 DEF Request
        <5> QED
          BY <5>1, <2>a
      <4> QED
        BY <2>6, <4>1, <4>2, <4>3
    <3>3. WorkMap' = WorkMap
      BY <3>2 DEF WorkMap
    <3> QED
      BY <3>1, <3>3 DEF Lease!vars, WorkMap
  <2>7. CASE \/ \E o \in Changing : GraphChange(o)
             \/ \E result \in {"active", "degraded"} : ApplyTestResult(result)
             \/ UNCHANGED vars
    BY <2>7 DEF GraphChange, ApplyTestResult, vars, Lease!vars
  <2> QED
    BY <1>2, <2>1, <2>2, <2>4, <2>5, <2>6, <2>7 DEF Next
<1>3. SyncInv => TypeOK
  BY DEF SyncInv
<1> QED
  BY <1>1, <1>2, <1>3, AtRestStep, SyncInvariant, PTL DEF Spec, UsesLease, Lease!Spec

=============================================================================
