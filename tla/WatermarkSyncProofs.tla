------------------------ MODULE WatermarkSyncProofs -------------------------
(***************************************************************************)
(* Proofs about WatermarkSync, for any jobs, workers and events, any       *)
(* order in which Graph begins to show them, and any unit of its filter.   *)
(***************************************************************************)
EXTENDS WatermarkSync, WellFoundedInduction, TLAPS

USE NameAssumption, EventAssumption, UnitAssumption

InTime == published \ late

(* A window begins no later than base or than some stored event: nothing   *)
(* that can still appear in time lies before it.                           *)
Based(t, stored, start) == t <= start \/ \E r \in stored : t <= Created[r]

(* Before the events of S, in Graph's order, no event is missing.          *)
Seamless(S, stored, intime, start) ==
  \A e \in intime, r \in S : start <= Created[e] /\ e <= r => e \in stored

(* What the sync was to fetch is stored up to the place next.              *)
Covers(asked, window, stored, next) ==
  \A e \in asked : Created[e] >= window /\ e <= next => e \in stored

StoredInv == rows \subseteq published /\ Seamless(rows, rows, InTime, base)

CheckpointOk(c, shown, stored, start) ==
  /\ c.window \in Time /\ Based(c.window, stored, start)
  /\ c.asked \subseteq shown
  /\ c.next \in Event => c.next \in stored
  /\ Covers(c.asked, c.window, stored, c.next)
  /\ c.status = "completed" => c.next = End

CheckpointInv ==
  \A j \in Job : checkpoint[j].status # "absent" =>
                   CheckpointOk(checkpoint[j], published, rows, base)

(* A checkpoint that is inserted and not committed is the only one of its  *)
(* job; without one, the job's is committed.                               *)
InsertOk(w) ==
  /\ run[w].step # "idle" => run[w].job \in Job
  /\ Fresh(w) => /\ run[w].step \in {"page", "await"}
                 /\ checkpoint[run[w].job].status = "absent"
                 /\ Based(run[w].window, rows, base) /\ run[w].asked \subseteq published
  /\ run[w].step \in {"page", "await"} /\ ~Fresh(w) =>
       checkpoint[run[w].job].status # "absent"

Alone == \A w, v \in Worker : Fresh(w) /\ Fresh(v) /\ run[w].job = run[v].job => w = v

InsertInv == Alone /\ \A w \in Worker : InsertOk(w)

AskedOf(w) == IF Fresh(w) THEN run[w].asked ELSE checkpoint[run[w].job].asked

(* A page in hand closes the gap between what is stored and its own end,   *)
(* and the owner's goes on from the place the checkpoint is at.            *)
PageOk(w) ==
  run[w].step = "await" =>
    /\ run[w].found \subseteq published
    /\ run[w].link \in Event => run[w].link \in run[w].found
    /\ Seamless(run[w].found, rows \cup run[w].found, InTime, base)
    /\ Covers(AskedOf(w), WindowOf(w), rows \cup run[w].found, run[w].link)
    /\ ~Fresh(w) /\ Owns(w) =>
         /\ checkpoint[run[w].job].next # End
         /\ checkpoint[run[w].job].next <= run[w].link

PageInv == \A w \in Worker : PageOk(w)

Inv == TypeOK /\ StoredInv /\ CheckpointInv /\ InsertInv /\ PageInv

-----------------------------------------------------------------------------
(* Times, and what grows.                                                  *)

(* A nonempty set of natural numbers has a least element.                  *)
LEMMA Least ==
  ASSUME NEW T \in SUBSET Nat, T # {}
  PROVE  \E x \in T : \A y \in T : x <= y
<1> DEFINE Less == {p \in Nat \X Nat : p[1] < p[2]}
<1>1. IsWellFoundedOn(Less, Nat)
  BY NatLessThanWellFounded DEF OpToRel
<1>2. PICK x \in T : \A y \in T : ~(<<y, x>> \in Less)
  <2> HIDE DEF Less
  <2> QED
    BY <1>1, WFMin
<1>3. ASSUME NEW y \in T PROVE x <= y
  <2>1. x \in Nat /\ y \in Nat
    OBVIOUS
  <2>2. ~(y < x)
    BY <1>2, <2>1
  <2> QED
    BY <2>1, <2>2
<1> QED
  BY <1>3

(* A nonempty set of times has a latest one.                               *)
LEMMA Latest ==
  ASSUME NEW T \in SUBSET Time, T # {}
  PROVE  \E x \in T : \A y \in T : y <= x
<1> DEFINE D == {Horizon - t : t \in T}
<1>1. \A t \in T : t \in 0 .. Horizon
  BY DEF Time
<1>2. D \in SUBSET Nat
  BY <1>1
<1>3. D # {}
  OBVIOUS
<1>4. PICK d \in D : \A y \in D : d <= y
  <2> HIDE DEF D
  <2> QED
    BY <1>2, <1>3, Least
<1>5. PICK t \in T : d = Horizon - t
  OBVIOUS
<1>6. ASSUME NEW y \in T PROVE y <= t
  <2>1. d <= Horizon - y
    BY <1>4
  <2> QED
    BY <1>1, <1>5, <2>1
<1> QED
  BY <1>6

(* The watermark is the time of a stored event.                            *)
LEMMA WatermarkStored ==
  ASSUME rows \subseteq Event, rows # {}
  PROVE  \E r \in rows : Watermark = Created[r]
<1> DEFINE T == {Created[e] : e \in rows}
<1>1. T \in SUBSET Time /\ T # {}
  BY DEF Event, Time
<1>2. PICK t \in T : \A y \in T : y <= t
  <2> HIDE DEF T
  <2> QED
    BY <1>1, Latest
<1>3. \A e \in rows : Created[e] <= t
  BY <1>2
<1>4. Watermark \in T
  <2>1. \E x \in T : \A e \in rows : Created[e] <= x
    BY <1>3
  <2> HIDE DEF T
  <2>2. Watermark = CHOOSE x \in T : \A e \in rows : Created[e] <= x
    BY DEF Watermark, T
  <2> QED
    BY <2>1, <2>2
<1> QED
  BY <1>4

(* Graph's filter cuts a time down to whole units.                         *)
LEMMA CutType ==
  ASSUME NEW t \in Time
  PROVE  Cut(t) \in Time /\ Cut(t) <= t
<1>1. t \in Nat /\ t <= Horizon
  BY DEF Time
<1>2. t % Second \in 0 .. t
  BY <1>1
<1> QED
  BY <1>1, <1>2 DEF Cut, Time

LEMMA BasedGrows ==
  ASSUME NEW t \in Int, NEW stored, NEW more, stored \subseteq more,
         NEW start \in Int, NEW later \in Int, start <= later, Based(t, stored, start)
  PROVE  Based(t, more, later)
BY DEF Based

LEMMA BasedStays ==
  ASSUME NEW t, NEW stored, NEW more, stored \subseteq more, NEW start, Based(t, stored, start)
  PROVE  Based(t, more, start)
BY DEF Based

LEMMA SeamlessGrows ==
  ASSUME NEW S, NEW stored, NEW more, stored \subseteq more, NEW intime \in SUBSET Event,
         NEW start \in Int, NEW later \in Int, start <= later,
         Seamless(S, stored, intime, start)
  PROVE  Seamless(S, more, intime, later)
<1>1. \A e \in intime : Created[e] \in Int
  BY DEF Event
<1> QED
  BY <1>1 DEF Seamless

LEMMA CoversGrows ==
  ASSUME NEW asked, NEW window, NEW stored, NEW more, stored \subseteq more, NEW next,
         Covers(asked, window, stored, next)
  PROVE  Covers(asked, window, more, next)
BY DEF Covers

LEMMA CheckpointGrows ==
  ASSUME NEW c, NEW shown, NEW seen, shown \subseteq seen,
         NEW stored, NEW more, stored \subseteq more,
         NEW start \in Int, NEW later \in Int, start <= later,
         CheckpointOk(c, shown, stored, start)
  PROVE  CheckpointOk(c, seen, more, later)
<1>1. c.window \in Int
  BY DEF CheckpointOk, Time
<1>2. Based(c.window, more, later)
  BY <1>1, BasedGrows DEF CheckpointOk
<1>3. Covers(c.asked, c.window, more, c.next)
  BY CoversGrows DEF CheckpointOk
<1> QED
  BY <1>2, <1>3 DEF CheckpointOk

LEMMA InitInv == Init => Inv
<1> SUFFICES ASSUME Init PROVE Inv
  OBVIOUS
<1>1. NoCheckpoint \in Checkpoint /\ NoCheckpoint.status = "absent"
  BY DEF NoCheckpoint, Checkpoint, Window, Link, First, End
<1>2. Idle \in Run /\ Idle.step = "idle" /\ Idle.window = Unset
  BY DEF Idle, Doing, Run, Step, Window, Link, First, End
<1>3. TypeOK
  <2>1. checkpoint \in [Job -> Checkpoint] /\ run \in [Worker -> Run]
    BY <1>1, <1>2 DEF Init
  <2>2. base \in Time
    BY DEF Init, Time
  <2> QED
    BY <2>1, <2>2 DEF Init, TypeOK
<1>4. StoredInv /\ CheckpointInv
  BY <1>1 DEF Init, StoredInv, Seamless, CheckpointInv
<1>5. InsertInv /\ PageInv
  BY <1>2 DEF Init, InsertInv, InsertOk, Alone, PageInv, PageOk, Fresh
<1> QED
  BY <1>3, <1>4, <1>5 DEF Inv

-----------------------------------------------------------------------------
(* Steps that leave data and checkpoints alone.                            *)

Data == <<published, late, rows, checkpoint, base>>

(* A worker that has no page in hand and no checkpoint of its own.         *)
Plain(w) ==
  /\ run[w].window = Unset
  /\ run[w].step # "await"
  /\ run[w].step # "idle" => run[w].job \in Job
  /\ run[w].step = "page" => checkpoint[run[w].job].status # "absent"

LEMMA QueueStep ==
  ASSUME Inv, TypeOK', UNCHANGED Data,
         \A w \in Worker :
           \/ run'[w] = run[w] /\ (run[w].step # "idle" /\ Owns(w)' => Owns(w))
           \/ Plain(w)'
  PROVE  Inv'
<1>1. StoredInv' /\ CheckpointInv'
  BY DEF Inv, StoredInv, CheckpointInv, InTime, Data
<1>2. ASSUME NEW w \in Worker, run'[w] = run[w], run[w].step # "idle" /\ Owns(w)' => Owns(w)
      PROVE  InsertOk(w)' /\ PageOk(w)' /\ (Fresh(w)' => Fresh(w))
  <2>1. InsertOk(w) /\ PageOk(w)
    BY DEF Inv, InsertInv, PageInv
  <2> QED
    BY <1>2, <2>1 DEF InsertOk, PageOk, Fresh, AskedOf, WindowOf, InTime, Data
<1>3. ASSUME NEW w \in Worker, Plain(w)'
      PROVE  InsertOk(w)' /\ PageOk(w)' /\ ~Fresh(w)'
  BY <1>3 DEF Plain, InsertOk, PageOk, Fresh
<1>4. Alone'
  <2> SUFFICES ASSUME NEW w \in Worker, NEW v \in Worker, Fresh(w)', Fresh(v)',
                      run'[w].job = run'[v].job
               PROVE  w = v
    BY DEF Alone
  <2>1. run'[w] = run[w] /\ run'[v] = run[v] /\ Fresh(w) /\ Fresh(v)
    BY <1>2, <1>3
  <2> QED
    BY <2>1 DEF Inv, InsertInv, Alone
<1> QED
  BY <1>1, <1>2, <1>3, <1>4 DEF Inv, InsertInv, PageInv

LEMMA DoingType ==
  ASSUME NEW j \in Job \cup {NoJob}, NEW s \in Step
  PROVE  /\ Doing(j, s) \in Run
         /\ Doing(j, s).job = j /\ Doing(j, s).step = s /\ Doing(j, s).window = Unset
BY DEF Doing, Run, Window, Link, First, End

LEMMA TakeInv ==
  ASSUME Inv, NEW w \in Worker, NEW j \in Job, Take(w, j)
  PROVE  Inv'
<1>1. /\ status' = [status EXCEPT ![j] = "leased"]
      /\ owner' = [owner EXCEPT ![j] = w]
      /\ run' = [run EXCEPT ![w] = Doing(j, "start")]
      /\ UNCHANGED Data
  BY DEF Take, Data
<1>2. Doing(j, "start") \in Run
  BY DoingType DEF Step
<1>3. TypeOK'
  BY <1>1, <1>2 DEF Inv, TypeOK, Data
<1>4. Plain(w)'
  <2>1. run'[w] = Doing(j, "start")
    BY <1>1 DEF Inv, TypeOK
  <2>2. run'[w].job = j /\ run'[w].step = "start" /\ run'[w].window = Unset
    BY <2>1, DoingType DEF Step
  <2> QED
    BY <2>2 DEF Plain
<1>5. \A v \in Worker \ {w} : run'[v] = run[v] /\ (Owns(v)' => Owns(v))
  BY <1>1 DEF Inv, TypeOK, Owns
<1> QED
  BY <1>1, <1>3, <1>4, <1>5, QueueStep

LEMMA LapseInv == ASSUME Inv, NEW j \in Job, Lapse(j) PROVE Inv'
<1>1. owner' = [owner EXCEPT ![j] = NoWorker] /\ UNCHANGED <<status, run>> /\ UNCHANGED Data
  BY DEF Lapse, Data
<1>2. TypeOK'
  BY <1>1 DEF Inv, TypeOK, Data
<1>3. \A v \in Worker : run'[v] = run[v] /\ (Owns(v)' => Owns(v))
  BY <1>1 DEF Inv, TypeOK, Owns
<1> QED
  BY <1>1, <1>2, <1>3, QueueStep

(* A worker lets go of its job, with its lease or without.                 *)
LEMMA IdleInv ==
  ASSUME Inv, NEW w \in Worker, run' = [run EXCEPT ![w] = Idle], UNCHANGED Data,
         status' \in [Job -> {"queued", "leased", "completed", "dead_letter"}],
         owner' = [owner EXCEPT ![run[w].job] = NoWorker] \/ owner' = owner
  PROVE  Inv'
<1>1. Idle \in Run /\ Idle.step = "idle" /\ Idle.window = Unset
  BY DoingType DEF Idle, Step
<1>2. TypeOK'
  BY <1>1 DEF Inv, TypeOK, Data
<1>3. Plain(w)'
  BY <1>1 DEF Inv, TypeOK, Plain
<1>4. ASSUME NEW v \in Worker \ {w}
      PROVE  run'[v] = run[v] /\ (run[v].step # "idle" /\ Owns(v)' => Owns(v))
  <2>1. run'[v] = run[v]
    BY DEF Inv, TypeOK
  <2>2. run[v].step # "idle" => run[v].job \in Job
    BY DEF Inv, InsertInv, InsertOk
  <2> QED
    BY <2>1, <2>2 DEF Inv, TypeOK, Owns
<1> QED
  BY <1>2, <1>3, <1>4, QueueStep

LEMMA CloseInv ==
  ASSUME Inv, NEW w \in Worker, NEW s \in {"queued", "completed", "dead_letter"}, Close(w, s)
  PROVE  Inv'
<1>1. /\ run' = [run EXCEPT ![w] = Idle] /\ UNCHANGED Data
      /\ status' \in [Job -> {"queued", "leased", "completed", "dead_letter"}]
      /\ owner' = [owner EXCEPT ![run[w].job] = NoWorker]
  BY DEF Close, Data, Inv, TypeOK
<1> QED
  BY <1>1, IdleInv

LEMMA LeaveInv == ASSUME Inv, NEW w \in Worker, Leave(w) PROVE Inv'
<1>1. /\ run' = [run EXCEPT ![w] = Idle] /\ UNCHANGED Data
      /\ status' \in [Job -> {"queued", "leased", "completed", "dead_letter"}]
      /\ owner' = owner
  BY DEF Leave, Data, Inv, TypeOK
<1> QED
  BY <1>1, IdleInv

LEMMA ResumeInv == ASSUME Inv, NEW w \in Worker, Resume(w) PROVE Inv'
<1>1. /\ run[w].step = "start" /\ checkpoint[run[w].job].status # "absent"
      /\ \E s \in {"close", "page"} : run' = [run EXCEPT ![w].step = s]
      /\ UNCHANGED <<status, owner>> /\ UNCHANGED Data
  BY DEF Resume, On, Data
<1>2. PICK s \in {"close", "page"} : run' = [run EXCEPT ![w].step = s]
  BY <1>1
<1>3. /\ run'[w].step = s /\ run'[w].job = run[w].job /\ run'[w].window = run[w].window
      /\ \A v \in Worker \ {w} : run'[v] = run[v]
      /\ run' \in [Worker -> Run]
  BY <1>2 DEF Inv, TypeOK, Run, Step
<1>4. TypeOK'
  BY <1>1, <1>3 DEF Inv, TypeOK, Data
<1>5. Plain(w)'
  BY <1>1, <1>3 DEF Inv, InsertInv, InsertOk, Fresh, Plain, Data
<1>6. \A v \in Worker \ {w} : run'[v] = run[v] /\ (Owns(v)' => Owns(v))
  BY <1>1, <1>3 DEF Owns
<1> QED
  BY <1>1, <1>4, <1>5, <1>6, QueueStep

-----------------------------------------------------------------------------
(* Steps that commit a checkpoint.                                         *)

(* Worker w commits checkpoint c of its job, with rows or without: its     *)
(* own one, or the one that is there with another place or status.         *)
LEMMA CommitInv ==
  ASSUME Inv, TypeOK', StoredInv', NEW w \in Worker, run[w].step \in {"page", "await"},
         rows \subseteq rows', UNCHANGED <<published, late, owner, base>>,
         NEW c, checkpoint' = [checkpoint EXCEPT ![run[w].job] = c], c.status # "absent",
         CheckpointOk(c, published, rows', base),
         ~Fresh(w) => /\ c.window = checkpoint[run[w].job].window
                      /\ c.asked = checkpoint[run[w].job].asked
                      /\ Owns(w) \/ c.next = checkpoint[run[w].job].next,
         Plain(w)', \A v \in Worker \ {w} : run'[v] = run[v]
  PROVE  Inv'
<1> DEFINE j == run[w].job
<1>0. /\ j \in Job /\ base \in Int /\ published' = published /\ base' = base
      /\ InTime' = InTime /\ InTime \in SUBSET Event
      /\ checkpoint'[j] = c /\ \A i \in Job \ {j} : checkpoint'[i] = checkpoint[i]
      /\ \A i \in Job : checkpoint[i].status # "absent" => checkpoint'[i].status # "absent"
  BY DEF Inv, TypeOK, InsertInv, InsertOk, InTime, Time
<1> HIDE DEF j
<1>1. CheckpointInv'
  <2> SUFFICES ASSUME NEW i \in Job, checkpoint'[i].status # "absent"
               PROVE  CheckpointOk(checkpoint'[i], published, rows', base)
    BY <1>0 DEF CheckpointInv
  <2>1. CASE i = j
    BY <1>0, <2>1
  <2>2. CASE i # j
    <3>1. CheckpointOk(checkpoint'[i], published, rows, base)
      BY <1>0, <2>2 DEF Inv, CheckpointInv
    <3> QED
      BY <1>0, <3>1, CheckpointGrows
  <2> QED
    BY <2>1, <2>2
<1>2. ASSUME NEW v \in Worker \ {w}, Fresh(v)
      PROVE  run[v].job \in Job /\ run[v].job # j
  BY <1>2 DEF Inv, InsertInv, InsertOk, Alone, Fresh, j
<1>3. ASSUME NEW v \in Worker \ {w}
      PROVE  InsertOk(v)' /\ (Fresh(v)' <=> Fresh(v))
  <2>1. run'[v] = run[v] /\ InsertOk(v) /\ (Fresh(v)' <=> Fresh(v))
    BY DEF Inv, InsertInv, Fresh
  <2>2. CASE Fresh(v)
    <3>1. run[v].window \in Int
      BY DEF Inv, TypeOK, Run, Window, Time, Unset
    <3>2. Based(run[v].window, rows', base)
      BY <1>0, <2>1, <2>2, <3>1, BasedGrows DEF InsertOk
    <3>3. run[v].job \in Job /\ checkpoint'[run[v].job] = checkpoint[run[v].job]
      BY <1>0, <1>2, <2>2
    <3> QED
      BY <1>0, <2>1, <2>2, <3>2, <3>3 DEF InsertOk
  <2>3. CASE ~Fresh(v)
    BY <1>0, <2>1, <2>3 DEF InsertOk
  <2> QED
    BY <2>1, <2>2, <2>3
<1>4. InsertOk(w)' /\ ~Fresh(w)' /\ PageOk(w)'
  BY DEF Plain, InsertOk, Fresh, PageOk
<1>5. InsertInv'
  BY <1>3, <1>4 DEF Inv, InsertInv, Alone
<1>6. ASSUME NEW v \in Worker \ {w} PROVE PageOk(v)'
  <2> SUFFICES ASSUME run'[v].step = "await" PROVE PageOk(v)'
    BY DEF PageOk
  <2>1. run'[v] = run[v] /\ run[v].step = "await" /\ PageOk(v) /\ InsertOk(v)
    BY DEF Inv, PageInv, InsertInv
  <2>2. /\ AskedOf(v)' = AskedOf(v) /\ WindowOf(v)' = WindowOf(v)
        /\ ~Fresh(v) /\ Owns(v) => checkpoint'[run[v].job].next = checkpoint[run[v].job].next
    <3>1. CASE Fresh(v)
      BY <1>3, <2>1, <3>1 DEF AskedOf, WindowOf
    <3>2. CASE ~Fresh(v) /\ run[v].job # j
      BY <1>0, <1>3, <2>1, <3>2 DEF AskedOf, WindowOf, InsertOk
    <3>3. CASE ~Fresh(v) /\ run[v].job = j
      <4>1. ~Fresh(w)
        BY <2>1, <3>3 DEF Inv, InsertInv, InsertOk, j
      <4>2. ~(Owns(v) /\ Owns(w))
        BY <3>3 DEF Owns, j
      <4> QED
        BY <1>0, <1>3, <2>1, <3>3, <4>1, <4>2 DEF AskedOf, WindowOf, j
    <3> QED
      BY <3>1, <3>2, <3>3
  <2>3. Owns(v)' <=> Owns(v)
    BY <2>1 DEF Owns
  <2>4. Seamless(run[v].found, rows' \cup run[v].found, InTime, base)
    BY <1>0, <2>1, SeamlessGrows DEF PageOk
  <2>5. Covers(AskedOf(v), WindowOf(v), rows' \cup run[v].found, run[v].link)
    BY <2>1, CoversGrows DEF PageOk
  <2> QED
    BY <1>0, <1>3, <2>1, <2>2, <2>3, <2>4, <2>5 DEF PageOk
<1> QED
  BY <1>1, <1>4, <1>5, <1>6 DEF Inv, PageInv

(* A page without a gap makes the table no gap.                            *)
LEMMA WritePageInv == ASSUME Inv, NEW w \in Worker, WritePage(w) PROVE Inv'
<1> DEFINE j == run[w].job
           c == IF Fresh(w) THEN Inserted(w, run[w].link)
                            ELSE [checkpoint[j] EXCEPT !.next = run[w].link]
<1>1. /\ run[w].step = "await" /\ Owns(w)
      /\ rows' = rows \cup run[w].found
      /\ checkpoint' = [checkpoint EXCEPT ![j] = c]
      /\ run' = [run EXCEPT ![w] = Doing(j, "page")]
      /\ UNCHANGED <<published, late, status, owner, base>>
  BY DEF WritePage, On
<1>2. /\ j \in Job /\ run[w] \in Run /\ checkpoint[j] \in Checkpoint /\ rows \subseteq Event
      /\ PageOk(w) /\ InsertOk(w)
      /\ checkpoint[j].status # "absent" => CheckpointOk(checkpoint[j], published, rows, base)
  BY <1>1 DEF Inv, TypeOK, InsertInv, InsertOk, PageInv, CheckpointInv
<1>3. run[w].found \subseteq published /\ run[w].found \subseteq Event
  BY <1>1, <1>2 DEF PageOk, Run
<1>4. c \in Checkpoint /\ c.status # "absent" /\ c.next = run[w].link
  <2>1. CASE Fresh(w)
    BY <1>2, <2>1 DEF Inserted, Run, Checkpoint
  <2>2. CASE ~Fresh(w)
    BY <1>1, <1>2, <2>2 DEF InsertOk, Run, Checkpoint
  <2> QED
    BY <2>1, <2>2
<1>5. c.window = WindowOf(w) /\ c.asked = AskedOf(w)
  BY <1>2 DEF Inserted, WindowOf, AskedOf, Checkpoint
<1>6. IF Fresh(w) THEN c.status = "running" ELSE c.status = checkpoint[j].status
  BY <1>2 DEF Inserted, Checkpoint
<1>7. rows' = rows \cup run[w].found /\ run[w].step = "await" /\ Owns(w)
  BY <1>1
<1> HIDE DEF c
<1>8. CheckpointOk(c, published, rows', base)
  <2>1. Covers(c.asked, c.window, rows', c.next)
    BY <1>2, <1>4, <1>5, <1>7 DEF PageOk
  <2>2. c.next \in Event => c.next \in rows'
    BY <1>2, <1>4, <1>7 DEF PageOk
  <2>3. rows \subseteq rows'
    BY <1>7
  <2>4. CASE Fresh(w)
    <3>1. c.window = run[w].window /\ c.asked = run[w].asked /\ c.status = "running"
      BY <1>5, <1>6, <2>4 DEF WindowOf, AskedOf
    <3>2. c.window \in Time
      BY <1>2, <2>4, <3>1 DEF Run, Window, Fresh
    <3>3. c.window \in Int /\ Based(c.window, rows, base) /\ c.asked \subseteq published
      BY <1>2, <2>4, <3>1, <3>2 DEF InsertOk, Time
    <3>4. Based(c.window, rows', base)
      BY <2>3, <3>3, BasedStays
    <3> QED
      BY <2>1, <2>2, <3>1, <3>2, <3>3, <3>4 DEF CheckpointOk
  <2>5. CASE ~Fresh(w)
    <3>1. /\ c.window = checkpoint[j].window /\ c.asked = checkpoint[j].asked
          /\ c.status = checkpoint[j].status
      BY <1>5, <1>6, <2>5 DEF WindowOf, AskedOf
    <3>2. CheckpointOk(checkpoint[j], published, rows, base)
      BY <1>2, <1>7, <2>5 DEF InsertOk
    <3>3. checkpoint[j].next # End
      BY <1>2, <1>7, <2>5 DEF PageOk
    <3>4. c.status # "completed"
      BY <3>1, <3>2, <3>3 DEF CheckpointOk
    <3>5. c.window \in Time /\ c.window \in Int /\ Based(c.window, rows, base)
          /\ c.asked \subseteq published
      BY <3>1, <3>2 DEF CheckpointOk, Time
    <3>6. Based(c.window, rows', base)
      BY <2>3, <3>5, BasedStays
    <3> QED
      BY <2>1, <2>2, <3>4, <3>5, <3>6 DEF CheckpointOk
  <2> QED
    BY <2>4, <2>5
<1>9. ~Fresh(w) => c.window = checkpoint[j].window /\ c.asked = checkpoint[j].asked
  BY <1>5 DEF WindowOf, AskedOf
<1>10. Doing(j, "page") \in Run /\ run'[w] = Doing(j, "page")
  BY <1>1, <1>2, DoingType DEF Inv, TypeOK, Step
<1>11. TypeOK'
  BY <1>1, <1>2, <1>3, <1>4, <1>10 DEF Inv, TypeOK
<1>12. StoredInv'
  <2>1. rows' \subseteq published'
    BY <1>1, <1>3 DEF Inv, StoredInv
  <2>2. Seamless(rows', rows', InTime, base)
    BY <1>1, <1>2 DEF Inv, StoredInv, PageOk, Seamless
  <2> QED
    BY <1>1, <2>1, <2>2 DEF StoredInv, InTime
<1>13. Plain(w)'
  <2>1. run'[w].job = j /\ run'[w].step = "page" /\ run'[w].window = Unset
    BY <1>2, <1>10, DoingType DEF Step
  <2>2. checkpoint'[j].status # "absent"
    BY <1>1, <1>2, <1>4 DEF Inv, TypeOK
  <2> QED
    BY <1>2, <2>1, <2>2 DEF Plain
<1>14. \A v \in Worker \ {w} : run'[v] = run[v]
  BY <1>1 DEF Inv, TypeOK
<1> QED
  BY <1>1, <1>4, <1>8, <1>9, <1>11, <1>12, <1>13, <1>14, CommitInv

LEMMA DegradeInv == ASSUME Inv, NEW w \in Worker, Degrade(w) PROVE Inv'
<1> DEFINE j == run[w].job
           c == Inserted(w, First)
<1>1. /\ run[w].step = "await"
      /\ run' = [run EXCEPT ![w] = Doing(j, "failed")]
      /\ UNCHANGED <<published, late, rows, status, owner, base>>
  BY DEF Degrade, On
<1>2. /\ j \in Job /\ run[w] \in Run /\ InsertOk(w)
  BY <1>1 DEF Inv, TypeOK, InsertInv, InsertOk
<1>3. Doing(j, "failed") \in Run /\ run'[w] = Doing(j, "failed")
  BY <1>1, <1>2, DoingType DEF Inv, TypeOK, Step
<1>4. Plain(w)'
  <2>1. run'[w].job = j /\ run'[w].step = "failed" /\ run'[w].window = Unset
    BY <1>2, <1>3, DoingType DEF Step
  <2> QED
    BY <1>2, <2>1 DEF Plain
<1>5. \A v \in Worker \ {w} : run'[v] = run[v]
  BY <1>1 DEF Inv, TypeOK
<1>6. CASE ~Fresh(w)
  <2>1. checkpoint' = checkpoint
    BY <1>6 DEF Degrade, Inv, TypeOK
  <2>2. TypeOK'
    BY <1>1, <1>3, <2>1 DEF Inv, TypeOK
  <2>3. \A v \in Worker \ {w} : Owns(v)' => Owns(v)
    BY <1>1, <1>5 DEF Owns
  <2> QED
    BY <1>1, <1>4, <1>5, <2>1, <2>2, <2>3, QueueStep DEF Data
<1>7. CASE Fresh(w)
  <2>1. checkpoint' = [checkpoint EXCEPT ![j] = c]
    BY <1>7 DEF Degrade
  <2>2. /\ c.window = run[w].window /\ c.asked = run[w].asked /\ c.next = First
        /\ c.status = "running" /\ c \in Checkpoint
    BY <1>2 DEF Inserted, Run, Checkpoint, Link, First, End
  <2>3. CheckpointOk(c, published, rows', base)
    <3>1. c.window \in Time
      BY <1>2, <1>7, <2>2 DEF Run, Window, Fresh
    <3>2. Based(c.window, rows', base) /\ c.asked \subseteq published
      BY <1>1, <1>2, <1>7, <2>2 DEF InsertOk
    <3>3. c.asked \subseteq Event /\ c.next \notin Event
      BY <1>2, <2>2 DEF Run, Event, First
    <3>4. Covers(c.asked, c.window, rows', c.next)
      BY <2>2, <3>3 DEF Covers, Event, First
    <3> QED
      BY <2>2, <3>1, <3>2, <3>3, <3>4 DEF CheckpointOk
  <2> HIDE DEF c
  <2>4. TypeOK'
    BY <1>1, <1>2, <1>3, <2>1, <2>2 DEF Inv, TypeOK
  <2>5. StoredInv'
    BY <1>1 DEF Inv, StoredInv, InTime
  <2> QED
    BY <1>1, <1>4, <1>5, <1>7, <2>1, <2>2, <2>3, <2>4, <2>5, CommitInv
<1> QED
  BY <1>6, <1>7

LEMMA FinishInv == ASSUME Inv, NEW w \in Worker, Finish(w) PROVE Inv'
<1> DEFINE j == run[w].job
           c == [checkpoint[j] EXCEPT !.status = "completed"]
<1>1. /\ run[w].step = "page" /\ NextLink(w) = End
      /\ checkpoint' = [checkpoint EXCEPT ![j] = c]
      /\ run' = [run EXCEPT ![w].step = "close"]
      /\ UNCHANGED <<published, late, rows, status, owner, base>>
  BY DEF Finish, On
<1>2. /\ ~Fresh(w) /\ checkpoint[j].next = End
  BY <1>1 DEF NextLink, First, End
<1>3. /\ j \in Job /\ run[w] \in Run /\ checkpoint[j] \in Checkpoint
      /\ CheckpointOk(checkpoint[j], published, rows, base)
  BY <1>1, <1>2 DEF Inv, TypeOK, InsertInv, InsertOk, CheckpointInv
<1>4. /\ c \in Checkpoint /\ c.status = "completed" /\ c.window = checkpoint[j].window
      /\ c.asked = checkpoint[j].asked /\ c.next = checkpoint[j].next
  BY <1>3 DEF Checkpoint
<1> HIDE DEF c
<1>5. CheckpointOk(c, published, rows', base)
  BY <1>1, <1>2, <1>3, <1>4 DEF CheckpointOk
<1>6. /\ run' \in [Worker -> Run] /\ run'[w].step = "close"
      /\ run'[w].job = j /\ run'[w].window = run[w].window
      /\ \A v \in Worker \ {w} : run'[v] = run[v]
  BY <1>1 DEF Inv, TypeOK, Run, Step
<1>7. TypeOK'
  BY <1>1, <1>3, <1>4, <1>6 DEF Inv, TypeOK
<1>8. StoredInv'
  BY <1>1 DEF Inv, StoredInv, InTime
<1>9. Plain(w)'
  BY <1>2, <1>3, <1>6 DEF Plain, Fresh
<1> QED
  BY <1>1, <1>2, <1>4, <1>5, <1>6, <1>7, <1>8, <1>9, CommitInv

-----------------------------------------------------------------------------
(* The window, the page and Graph.                                         *)

(* A window is computed from what is stored, or base follows it.           *)
LEMMA InsertStepInv ==
  ASSUME Inv, NEW w \in Worker, NEW now \in Time, Insert(w, now)
  PROVE  Inv'
<1> DEFINE j == run[w].job
           start == Cut(IF rows = {} THEN now ELSE Watermark)
           new == [Doing(j, "page") EXCEPT !.window = start, !.asked = published]
<1>1. /\ run[w].step = "start" /\ checkpoint[j].status = "absent" /\ ~Inserting(j)
      /\ run' = [run EXCEPT ![w] = new]
      /\ base' = IF rows = {} /\ Cut(now) > base THEN Cut(now) ELSE base
      /\ UNCHANGED <<published, late, rows, checkpoint, status, owner>>
  BY DEF Insert, On
<1>2. /\ j \in Job /\ rows \subseteq Event /\ published \subseteq Event /\ rows \subseteq published
      /\ base \in Time /\ base \in Int /\ Cut(now) \in Time
  BY <1>1, CutType DEF Inv, TypeOK, InsertInv, InsertOk, StoredInv, Time
<1>3. base' \in Time /\ base' \in Int /\ base <= base'
  BY <1>1, <1>2 DEF Time
<1>4. start \in Time /\ Based(start, rows, base')
  <2>1. CASE rows = {}
    <3>1. start = Cut(now)
      BY <2>1
    <3>2. start <= base'
      BY <1>1, <1>2, <2>1, <3>1 DEF Time
    <3> QED
      BY <1>2, <3>1, <3>2 DEF Based
  <2>2. CASE rows # {}
    <3>1. PICK r \in rows : Watermark = Created[r]
      BY <1>2, <2>2, WatermarkStored
    <3>2. Created[r] \in Time
      BY <1>2 DEF Event, Time
    <3>3. start \in Time /\ start <= Created[r]
      BY <2>2, <3>1, <3>2, CutType
    <3> QED
      BY <3>3 DEF Based
  <2> QED
    BY <2>1, <2>2
<1> HIDE DEF start
<1>5. /\ new \in Run /\ new.job = j /\ new.step = "page" /\ new.window = start
      /\ new.asked = published
  <2>1. /\ Doing(j, "page") \in Run
        /\ Doing(j, "page").job = j /\ Doing(j, "page").step = "page"
    BY <1>2, DoingType DEF Step
  <2> QED
    BY <1>2, <1>4, <2>1 DEF Run, Window
<1>6. start # Unset
  BY <1>4 DEF Time, Unset
<1> HIDE DEF new
<1>7. /\ run' \in [Worker -> Run] /\ run'[w] = new
      /\ \A v \in Worker \ {w} : run'[v] = run[v]
  BY <1>1, <1>5 DEF Inv, TypeOK
<1>8. TypeOK'
  BY <1>1, <1>3, <1>7 DEF Inv, TypeOK
<1>9. InTime' = InTime /\ InTime \in SUBSET Event
  BY <1>1, <1>2 DEF InTime
<1>10. StoredInv'
  <2>1. Seamless(rows, rows, InTime, base')
    BY <1>2, <1>3, <1>9, SeamlessGrows DEF Inv, StoredInv
  <2> QED
    BY <1>1, <1>9, <2>1 DEF Inv, StoredInv
<1>11. CheckpointInv'
  <2> SUFFICES ASSUME NEW i \in Job, checkpoint[i].status # "absent"
               PROVE  CheckpointOk(checkpoint[i], published, rows, base')
    BY <1>1 DEF CheckpointInv
  <2>1. CheckpointOk(checkpoint[i], published, rows, base)
    BY DEF Inv, CheckpointInv
  <2> QED
    BY <1>2, <1>3, <2>1, CheckpointGrows
<1>12. InsertOk(w)'
  BY <1>1, <1>2, <1>4, <1>5, <1>6, <1>7 DEF InsertOk, Fresh
<1>13. ASSUME NEW v \in Worker \ {w} PROVE InsertOk(v)' /\ PageOk(v)'
  <2>1. run'[v] = run[v] /\ InsertOk(v) /\ PageOk(v) /\ (Fresh(v)' <=> Fresh(v))
    BY <1>7 DEF Inv, InsertInv, PageInv, Fresh
  <2>2. Fresh(v) => Based(run[v].window, rows, base')
    <3>1. run[v].window \in Int
      BY DEF Inv, TypeOK, Run, Window, Time, Unset
    <3> QED
      BY <1>2, <1>3, <2>1, <3>1, BasedGrows DEF InsertOk
  <2>3. InsertOk(v)'
    BY <1>1, <2>1, <2>2 DEF InsertOk
  <2>4. run[v].step = "await" =>
          Seamless(run[v].found, rows \cup run[v].found, InTime, base')
    BY <1>2, <1>3, <1>9, <2>1, SeamlessGrows DEF PageOk
  <2>5. PageOk(v)'
    BY <1>1, <1>9, <2>1, <2>4 DEF PageOk, AskedOf, WindowOf, Owns
  <2> QED
    BY <2>3, <2>5
<1>14. PageOk(w)'
  BY <1>5, <1>7 DEF PageOk
<1>15. Alone'
  <2> SUFFICES ASSUME NEW u \in Worker, NEW v \in Worker, Fresh(u)', Fresh(v)',
                      run'[u].job = run'[v].job, u # v
               PROVE  FALSE
    BY DEF Alone
  <2>1. \A x \in Worker \ {w} : Fresh(x)' => Fresh(x) /\ run[x].job # j
    BY <1>1, <1>7 DEF Fresh, Inserting
  <2>2. CASE u = w
    BY <1>5, <1>7, <2>1, <2>2
  <2>3. CASE v = w
    BY <1>5, <1>7, <2>1, <2>3
  <2>4. CASE u # w /\ v # w
    BY <1>7, <2>1, <2>4 DEF Inv, InsertInv, Alone
  <2> QED
    BY <2>2, <2>3, <2>4
<1> QED
  BY <1>8, <1>10, <1>11, <1>12, <1>13, <1>14, <1>15 DEF Inv, InsertInv, PageInv

(* The link after a page is the end, or the page's last event.             *)
LEMMA LinkType ==
  ASSUME NEW list \in SUBSET Event, NEW page, IsPage(page, list)
  PROVE  /\ page \subseteq list
         /\ LinkAfter(page, list) \in Link
         /\ LinkAfter(page, list) \in Event => LinkAfter(page, list) \in page
         /\ \A e \in list : e <= LinkAfter(page, list) => e \in page
         /\ LinkAfter(page, list) # First
<1>1. page \subseteq list /\ page \subseteq Event
  BY DEF IsPage
<1>2. CASE page = list
  BY <1>1, <1>2 DEF LinkAfter, Link, First, End, Event
<1>3. CASE page # list
  <2>1. page # {}
    BY <1>3 DEF IsPage
  <2>2. \E e \in page : \A f \in page : f <= e
    <3>1. page \in SUBSET (0 .. Events)
      BY <1>1 DEF Event
    <3> DEFINE D == {Events - e : e \in page}
    <3>2. D \in SUBSET Nat
      BY <3>1
    <3>3. D # {}
      BY <2>1
    <3>4. PICK d \in D : \A y \in D : d <= y
      <4> HIDE DEF D
      <4> QED
        BY <3>2, <3>3, Least
    <3>5. PICK e \in page : d = Events - e
      OBVIOUS
    <3>6. ASSUME NEW f \in page PROVE f <= e
      <4>1. d <= Events - f
        BY <3>4
      <4>2. e \in 0 .. Events /\ f \in 0 .. Events
        BY <3>1
      <4> QED
        BY <3>5, <4>1, <4>2
    <3> QED
      BY <3>6
  <2>3. Longest(page) \in page /\ \A f \in page : f <= Longest(page)
    BY <2>1, <2>2 DEF Longest
  <2>4. LinkAfter(page, list) = Longest(page)
    BY <1>3 DEF LinkAfter
  <2>5. \A e \in list : e <= Longest(page) => e \in page
    <3> SUFFICES ASSUME NEW e \in list, e <= Longest(page) PROVE e \in page
      OBVIOUS
    <3>1. e \in Int /\ Longest(page) \in Int
      <4>1. e \in Event /\ Longest(page) \in Event
        BY <1>1, <2>3
      <4>2. \A f \in Event : f \in Int
        BY DEF Event
      <4> QED
        BY <4>1, <4>2
    <3>2. e = Longest(page) \/ e < Longest(page)
      BY <3>1
    <3> QED
      BY <2>3, <3>2 DEF IsPage
  <2>6. Longest(page) \in Event
    BY <1>1, <2>3
  <2>7. Longest(page) \in Link /\ Longest(page) # First
    BY <2>6 DEF Link, First, End, Event
  <2> QED
    BY <1>1, <2>3, <2>4, <2>5, <2>7
<1> QED
  BY <1>2, <1>3

(* Graph's page begins where the stored events of the window end.          *)
LEMMA RequestInv ==
  ASSUME Inv, NEW w \in Worker, NEW page \in SUBSET Event, Request(w, page)
  PROVE  Inv'
<1> DEFINE j == run[w].job
           n == NextLink(w)
           window == WindowOf(w)
           list == Listed(n, window)
           link == LinkAfter(page, list)
<1>1. /\ run[w].step = "page" /\ n # End /\ IsPage(page, list)
      /\ run' = [run EXCEPT ![w] = [run[w] EXCEPT !.step = "await", !.found = page,
                                                   !.link = link]]
      /\ UNCHANGED <<published, late, rows, checkpoint, status, owner, base>>
  BY DEF Request, On
<1>2. /\ run[w] \in Run /\ j \in Job /\ InsertOk(w) /\ rows \subseteq Event
      /\ published \subseteq Event /\ checkpoint[j] \in Checkpoint
      /\ ~Fresh(w) => /\ checkpoint[j].status # "absent"
                      /\ CheckpointOk(checkpoint[j], published, rows, base)
      /\ base \in Int
  BY <1>1 DEF Inv, TypeOK, InsertInv, InsertOk, CheckpointInv, Time
<1>3. list \in SUBSET Event /\ list \subseteq published
  BY <1>2 DEF Listed
<1>4. n \in Link
  BY <1>2 DEF NextLink, Checkpoint, Link, First, End
<1>5. /\ window \in Int /\ Based(window, rows, base) /\ AskedOf(w) \subseteq published
  <2>1. CASE Fresh(w)
    BY <1>2, <2>1 DEF InsertOk, WindowOf, AskedOf, Run, Window, Time, Unset
  <2>2. CASE ~Fresh(w)
    BY <1>2, <2>2 DEF CheckpointOk, WindowOf, AskedOf, Time
  <2> QED
    BY <2>1, <2>2
<1>6. n \in Event => n \in rows /\ Covers(AskedOf(w), window, rows, n)
  BY <1>2 DEF NextLink, CheckpointOk, WindowOf, AskedOf, First, Event
<1>7. n = First \/ n \in Event
  BY <1>1, <1>4 DEF Link, First, End, Event
<1>8. /\ list \in SUBSET Event /\ list \subseteq published
      /\ n = First => list = {e \in published : Created[e] >= window}
      /\ n # First => list = {e \in published : e > n}
  BY <1>3 DEF Listed
<1>9. ~Fresh(w) => n = checkpoint[j].next
  BY DEF NextLink
<1> HIDE DEF n, window, list, link
<1>10. /\ page \subseteq list /\ link \in Link /\ link # First
       /\ link \in Event => link \in page
       /\ \A e \in list : e <= link => e \in page
  BY <1>1, <1>8, LinkType DEF link
<1>11. Seamless(page, rows \cup page, InTime, base)
  <2> SUFFICES ASSUME NEW e \in InTime, NEW r \in page, base <= Created[e], e <= r,
                      e \notin rows
               PROVE  e \in page
    BY DEF Seamless
  <2>1. e \in published /\ e \in Event /\ r \in list /\ r \in Event
    BY <1>2, <1>8, <1>10 DEF InTime
  <2>2. e \in list
    <3>1. CASE n = First
      <4>1. ASSUME Created[e] < window PROVE FALSE
        <5>1. Created[e] \in Int
          BY <2>1 DEF Event
        <5>2. PICK q \in rows : window <= Created[q]
          BY <1>2, <1>5, <4>1, <5>1 DEF Based
        <5>3. q \in Event /\ Created[q] \in Int
          BY <1>2 DEF Event
        <5>4. ~(q < e)
          BY <1>5, <2>1, <4>1, <5>1, <5>2, <5>3 DEF Event
        <5>5. e <= q
          BY <2>1, <5>3, <5>4 DEF Event
        <5> QED
          BY <5>2, <5>5 DEF Inv, StoredInv, Seamless
      <4>2. Created[e] >= window
        BY <1>5, <2>1, <4>1 DEF Event
      <4> QED
        BY <1>8, <2>1, <3>1, <4>2
    <3>2. CASE n \in Event
      <4>1. n \in rows
        BY <1>6, <3>2
      <4>2. ~(e <= n)
        BY <4>1 DEF Inv, StoredInv, Seamless
      <4> QED
        BY <1>8, <2>1, <3>2, <4>2 DEF Event, First
    <3> QED
      BY <1>7, <3>1, <3>2
  <2>3. e = r \/ e < r
    BY <2>1 DEF Event
  <2> QED
    BY <1>1, <2>1, <2>2, <2>3 DEF IsPage
<1>12. Covers(AskedOf(w), window, rows \cup page, link)
  <2> SUFFICES ASSUME NEW e \in AskedOf(w), Created[e] >= window, e <= link, e \notin rows
               PROVE  e \in page
    BY DEF Covers
  <2>1. e \in published /\ e \in Event
    BY <1>2, <1>5
  <2>2. e \in list
    <3>1. CASE n = First
      BY <1>8, <2>1, <3>1
    <3>2. CASE n \in Event
      <4>1. ~(e <= n)
        BY <1>6, <3>2 DEF Covers
      <4> QED
        BY <1>8, <2>1, <3>2, <4>1 DEF Event, First
    <3> QED
      BY <1>7, <3>1, <3>2
  <2> QED
    BY <1>10, <2>2
<1>13. n <= link
  <2>1. CASE n = First
    BY <1>10, <2>1 DEF Link, First, End
  <2>2. CASE n \in Event /\ link \in Event
    BY <1>8, <1>10, <2>2 DEF Event, First
  <2>3. CASE n \in Event /\ link \notin Event
    BY <1>10, <2>3 DEF Link, First, End, Event
  <2> QED
    BY <1>7, <2>1, <2>2, <2>3
<1>14. /\ run' \in [Worker -> Run]
       /\ run'[w].step = "await" /\ run'[w].found = page /\ run'[w].link = link
       /\ run'[w].job = j /\ run'[w].window = run[w].window /\ run'[w].asked = run[w].asked
       /\ \A v \in Worker \ {w} : run'[v] = run[v]
  BY <1>1, <1>2, <1>10 DEF Inv, TypeOK, Run, Step
<1>15. TypeOK'
  BY <1>1, <1>14 DEF Inv, TypeOK
<1>16. StoredInv' /\ CheckpointInv'
  BY <1>1 DEF Inv, StoredInv, CheckpointInv, InTime
<1>17. \A v \in Worker : /\ Fresh(v)' <=> Fresh(v)
                         /\ run'[v].job = run[v].job /\ run'[v].window = run[v].window
                         /\ run'[v].asked = run[v].asked
  BY <1>14 DEF Fresh
<1>18. InsertInv'
  <2>1. Alone'
    BY <1>17 DEF Inv, InsertInv, Alone
  <2>2. ASSUME NEW v \in Worker PROVE InsertOk(v)'
    <3>1. InsertOk(v) /\ (run'[v].step = run[v].step
                            \/ (run[v].step = "page" /\ run'[v].step = "await"))
      BY <1>1, <1>14 DEF Inv, InsertInv
    <3> QED
      BY <1>1, <1>17, <3>1 DEF InsertOk
  <2> QED
    BY <2>1, <2>2 DEF InsertInv
<1>19. ASSUME NEW v \in Worker \ {w} PROVE PageOk(v)'
  <2>1. run'[v] = run[v] /\ PageOk(v)
    BY <1>14 DEF Inv, PageInv
  <2> QED
    BY <1>1, <2>1 DEF PageOk, Fresh, Owns, AskedOf, WindowOf, InTime
<1>20. PageOk(w)'
  <2>1. AskedOf(w)' = AskedOf(w) /\ WindowOf(w)' = window
    BY <1>1, <1>14, <1>17 DEF AskedOf, WindowOf, window
  <2>2. InTime' = InTime
    BY <1>1 DEF InTime
  <2> QED
    BY <1>1, <1>8, <1>9, <1>10, <1>11, <1>12, <1>13, <1>14, <1>17, <2>1, <2>2 DEF PageOk
<1> QED
  BY <1>15, <1>16, <1>18, <1>19, <1>20 DEF Inv, PageInv

(* What appears in time appears behind everything shown before.            *)
LEMMA PublishInv == ASSUME Inv, NEW e \in Coming, Publish(e) PROVE Inv'
<1>1. /\ e \in Event /\ e \notin published /\ published' = published \cup {e}
      /\ late' = IF \E f \in published : Created[f] >= Created[e] THEN late \cup {e} ELSE late
      /\ UNCHANGED <<rows, checkpoint, status, owner, run, base>>
  BY DEF Publish, Event
<1>2. published \subseteq Event /\ rows \subseteq published
  BY DEF Inv, TypeOK, StoredInv
<1>3. TypeOK'
  BY <1>1 DEF Inv, TypeOK
<1>4. ASSUME NEW d \in InTime', d \notin InTime
      PROVE  d \in Event /\ \A f \in published : ~(d <= f)
  <2>1. d = e /\ \A f \in published : ~(Created[f] >= Created[e])
    BY <1>1, <1>4 DEF InTime
  <2>2. ASSUME NEW f \in published, e <= f PROVE FALSE
    <3>1. f \in Event /\ Created[f] \in Int /\ Created[e] \in Int /\ e # f
      BY <1>1, <1>2 DEF Event
    <3>2. e < f
      BY <1>1, <2>2, <3>1 DEF Event
    <3>3. Created[e] <= Created[f]
      BY <1>1, <3>1, <3>2 DEF Event
    <3> QED
      BY <2>1, <3>1, <3>3
  <2> QED
    BY <1>1, <2>1, <2>2
<1>5. ASSUME NEW S \in SUBSET published, NEW stored, Seamless(S, stored, InTime, base)
      PROVE  Seamless(S, stored, InTime', base)
  BY <1>4, <1>5 DEF Seamless
<1>6. StoredInv'
  <2>1. Seamless(rows, rows, InTime', base)
    BY <1>2, <1>5 DEF Inv, StoredInv
  <2> QED
    BY <1>1, <1>2, <2>1 DEF StoredInv
<1>7. CheckpointInv'
  BY <1>1 DEF Inv, CheckpointInv, CheckpointOk
<1>8. InsertInv'
  BY <1>1 DEF Inv, InsertInv, InsertOk, Alone, Fresh
<1>9. ASSUME NEW w \in Worker PROVE PageOk(w)'
  <2> SUFFICES ASSUME run[w].step = "await" PROVE PageOk(w)'
    BY <1>1 DEF PageOk
  <2>1. PageOk(w) /\ run[w].found \in SUBSET published
    BY DEF Inv, PageInv, PageOk
  <2>2. Seamless(run[w].found, rows \cup run[w].found, InTime', base)
    BY <1>5, <2>1 DEF PageOk
  <2> QED
    BY <1>1, <2>1, <2>2 DEF PageOk, Fresh, Owns, AskedOf, WindowOf
<1> QED
  BY <1>3, <1>6, <1>7, <1>8, <1>9 DEF Inv, PageInv

LEMMA StepInv == Inv /\ [Next]_vars => Inv'
<1> SUFFICES ASSUME Inv, [Next]_vars PROVE Inv'
  OBVIOUS
<1>1. ASSUME NEW w \in Worker,
             \/ \E j \in Job : Take(w, j)
             \/ \E now \in Time : Insert(w, now)
             \/ \E page \in SUBSET Event : Request(w, page)
             \/ Resume(w) \/ WritePage(w) \/ Degrade(w) \/ Finish(w) \/ Leave(w)
      PROVE  Inv'
  BY <1>1, TakeInv, InsertStepInv, RequestInv, ResumeInv, WritePageInv, DegradeInv,
     FinishInv, LeaveInv
<1>2. ASSUME NEW w \in Worker, Retry(w) \/ Complete(w) \/ Abandon(w) \/ DeadLetter(w)
      PROVE  Inv'
  <2>1. PICK s \in {"queued", "completed", "dead_letter"} : Close(w, s)
    BY <1>2 DEF Retry, Complete, Abandon, DeadLetter
  <2> QED
    BY <2>1, CloseInv
<1>3. ASSUME NEW j \in Job, Lapse(j) PROVE Inv'
  BY <1>3, LapseInv
<1>4. ASSUME NEW e \in Coming, Publish(e) PROVE Inv'
  BY <1>4, PublishInv
<1>5. CASE UNCHANGED vars
  <2>1. TypeOK'
    BY <1>5 DEF Inv, TypeOK, vars
  <2>2. \A w \in Worker : run'[w] = run[w] /\ (Owns(w)' => Owns(w))
    BY <1>5 DEF Owns, vars
  <2> QED
    BY <1>5, <2>1, <2>2, QueueStep DEF vars, Data
<1> QED
  BY <1>1, <1>2, <1>3, <1>4, <1>5 DEF Next

THEOREM Invariant == Spec => []Inv
<1> QED
  BY InitInv, StepInv, PTL DEF Spec

-----------------------------------------------------------------------------
(* The theorems.                                                           *)

(* Every variable keeps its type: windows and links stay in their range.   *)
THEOREM TypeCorrect == Spec => []TypeOK
<1>1. Inv => TypeOK
  BY DEF Inv
<1> QED
  BY <1>1, Invariant, PTL

(* However syncs overlap, die and are overtaken, the newest stored event   *)
(* has no gap before it, so the watermark taken from it is safe.           *)
THEOREM NothingLost == Spec => []NothingPassedOver
<1>1. Inv => NothingPassedOver
  <2> SUFFICES ASSUME Inv, NEW e \in published \ late, NEW r \in rows,
                      base <= Created[e], Created[e] < Created[r]
               PROVE  e \in rows
    BY DEF NothingPassedOver
  <2>1. e \in Event /\ r \in Event
    BY DEF Inv, TypeOK
  <2>2. Created[e] \in Int /\ Created[r] \in Int
    BY <2>1 DEF Event
  <2>3. ~(r < e)
    BY <2>1, <2>2 DEF Event
  <2>4. e <= r
    BY <2>1, <2>2, <2>3 DEF Event
  <2> QED
    BY <2>4 DEF Inv, StoredInv, Seamless, InTime
<1> QED
  BY <1>1, Invariant, PTL

(* A checkpoint claims nothing that is not stored, for whoever resumes it. *)
THEOREM CoveredWindow == Spec => []WindowCovered
<1>1. Inv => WindowCovered
  BY DEF Inv, CheckpointInv, CheckpointOk, Covers, WindowCovered
<1> QED
  BY <1>1, Invariant, PTL

Kept(j) ==
  /\ checkpoint'[j].window = checkpoint[j].window
  /\ checkpoint'[j].next >= checkpoint[j].next
  /\ checkpoint[j].status = "completed" => checkpoint'[j] = checkpoint[j]

(* A committed window never changes, its place never goes back, and a      *)
(* completed checkpoint stays as it is.                                    *)
THEOREM PinnedWindow == Spec => WindowPinned
<1>1. ASSUME Inv, [Next]_vars, NEW j \in Job, checkpoint[j].status # "absent"
      PROVE  Kept(j)
  <2>0. /\ checkpoint[j] \in Checkpoint /\ checkpoint[j].next \in Int
        /\ CheckpointOk(checkpoint[j], published, rows, base)
    BY <1>1 DEF Inv, TypeOK, CheckpointInv, Checkpoint, Link, First, End
  <2>1. CASE checkpoint' = checkpoint
    BY <2>0, <2>1 DEF Kept
  <2>2. ASSUME NEW w \in Worker, WritePage(w) \/ Degrade(w) PROVE Kept(j)
    <3>1. /\ run[w].step = "await" /\ run[w].job \in Job /\ PageOk(w)
          /\ Fresh(w) => checkpoint[run[w].job].status = "absent"
      BY <1>1, <2>2 DEF WritePage, Degrade, On, Inv, InsertInv, InsertOk, PageInv
    <3>2. CASE run[w].job # j
      <4>1. checkpoint'[j] = checkpoint[j]
        BY <1>1, <2>2, <3>2 DEF WritePage, Degrade, Inv, TypeOK
      <4> QED
        BY <2>0, <4>1 DEF Kept
    <3>3. CASE run[w].job = j /\ Degrade(w)
      <4>1. checkpoint'[j] = checkpoint[j]
        BY <1>1, <3>1, <3>3 DEF Degrade, Inv, TypeOK
      <4> QED
        BY <2>0, <4>1 DEF Kept
    <3>4. CASE run[w].job = j /\ WritePage(w)
      <4>1. checkpoint'[j] = [checkpoint[j] EXCEPT !.next = run[w].link]
        BY <1>1, <3>1, <3>4 DEF WritePage, Inv, TypeOK
      <4>2. checkpoint[j].next # End /\ checkpoint[j].next <= run[w].link
        BY <1>1, <3>1, <3>4 DEF WritePage, PageOk
      <4>3. run[w].link \in Int
        BY <1>1 DEF Inv, TypeOK, Run, Link, First, End
      <4>4. checkpoint[j].status # "completed"
        BY <2>0, <4>2 DEF CheckpointOk
      <4> QED
        BY <2>0, <4>1, <4>2, <4>3, <4>4 DEF Checkpoint, Kept
    <3> QED
      BY <2>2, <3>2, <3>3, <3>4
  <2>3. ASSUME NEW w \in Worker, Finish(w) PROVE Kept(j)
    <3>1. CASE run[w].job # j
      <4>1. checkpoint'[j] = checkpoint[j]
        BY <1>1, <2>3, <3>1 DEF Finish, Inv, TypeOK
      <4> QED
        BY <2>0, <4>1 DEF Kept
    <3>2. CASE run[w].job = j
      <4>1. checkpoint'[j] = [checkpoint[j] EXCEPT !.status = "completed"]
        BY <1>1, <2>3, <3>2 DEF Finish, Inv, TypeOK
      <4> QED
        BY <2>0, <4>1 DEF Checkpoint, Kept
    <3> QED
      BY <3>1, <3>2
  <2>4. \/ checkpoint' = checkpoint
        \/ \E w \in Worker : WritePage(w) \/ Degrade(w) \/ Finish(w)
    BY <1>1 DEF Next, vars, Take, Insert, Request, Resume, Retry, Complete, Abandon, DeadLetter,
                Close, Leave, Lapse, Publish
  <2> QED
    BY <2>1, <2>2, <2>3, <2>4
<1>2. Inv /\ [Next]_vars =>
        [\A j \in Job : checkpoint[j].status # "absent" =>
           /\ checkpoint'[j].window = checkpoint[j].window
           /\ checkpoint'[j].next >= checkpoint[j].next
           /\ checkpoint[j].status = "completed" => checkpoint'[j] = checkpoint[j]]_vars
  BY <1>1 DEF Kept
<1> QED
  BY <1>2, Invariant, PTL DEF Spec, WindowPinned

-----------------------------------------------------------------------------
(* The queue as JobLease.                                                  *)

(* A worker that does nothing has no job.                                  *)
AtRest == \A w \in Worker : On(w, "idle") => run[w].job = NoJob

(* What Insert makes of a run: the job stays, a page is next.              *)
Inserts(w, t, S) == [Doing(run[w].job, "page") EXCEPT !.window = t, !.asked = S]

LEMMA InsertsFields ==
  ASSUME NEW w \in Worker, NEW t, NEW S
  PROVE  Inserts(w, t, S).step = "page" /\ Inserts(w, t, S).job = run[w].job
<1> DEFINE r == [Doing(run[w].job, "page") EXCEPT !.window = t]
<1>1. /\ r.step = "page" /\ r.job = run[w].job
      /\ DOMAIN r = {"job", "step", "window", "asked", "found", "link"}
  BY DEF Doing
<1>2. Inserts(w, t, S) = [r EXCEPT !.asked = S]
  BY DEF Inserts
<1> HIDE DEF r
<1>3. [r EXCEPT !.asked = S].step = "page" /\ [r EXCEPT !.asked = S].job = run[w].job
  BY <1>1
<1> QED
  BY <1>2, <1>3

LEMMA AtRestStep == TypeOK /\ AtRest /\ [Next]_vars => AtRest'
<1> SUFFICES ASSUME TypeOK, AtRest, [Next]_vars PROVE AtRest'
  OBVIOUS
<1>1. ASSUME NEW w \in Worker, NEW r,
             run' = [run EXCEPT ![w] = r], r.step = "idle" => r.job = NoJob
      PROVE  AtRest'
  BY <1>1 DEF AtRest, On, TypeOK
<1>2. ASSUME NEW w \in Worker, NEW j \in Job, Take(w, j) PROVE AtRest'
  BY <1>1, <1>2 DEF Take, Doing
<1>3. ASSUME NEW w \in Worker, NEW now \in Time, Insert(w, now) PROVE AtRest'
  <2>1. PICK t, S : run' = [run EXCEPT ![w] = Inserts(w, t, S)]
    BY <1>3 DEF Insert, Inserts
  <2> QED
    BY <1>1, <2>1, InsertsFields
<1>4. ASSUME NEW w \in Worker, NEW step \in Step \ {"idle"},
             run' = [run EXCEPT ![w].step = step]
      PROVE  AtRest'
  BY <1>4 DEF AtRest, On, TypeOK, Run
<1>5. ASSUME NEW w \in Worker, Resume(w) \/ Finish(w) PROVE AtRest'
  <2>1. PICK step \in {"close", "page"} : run' = [run EXCEPT ![w].step = step]
    BY <1>5 DEF Resume, Finish
  <2> QED
    BY <1>4, <2>1 DEF Step
<1>6. ASSUME NEW w \in Worker, NEW page \in SUBSET Event, Request(w, page) PROVE AtRest'
  BY <1>6 DEF Request, AtRest, On, TypeOK, Run
<1>7. ASSUME NEW w \in Worker, WritePage(w) \/ Degrade(w) PROVE AtRest'
  BY <1>1, <1>7 DEF WritePage, Degrade, Doing
<1>8. ASSUME NEW w \in Worker, run' = [run EXCEPT ![w] = Idle] PROVE AtRest'
  BY <1>1, <1>8 DEF Idle, Doing
<1>9. CASE run' = run
  BY <1>9 DEF AtRest, On
<1> QED
  BY <1>2, <1>3, <1>5, <1>6, <1>7, <1>8, <1>9
  DEF Next, vars, Retry, Complete, Abandon, DeadLetter, Close, Leave, Lapse, Publish

WorkMap == [w \in Worker |-> run[w].job]

(* Whatever JobLease may do with a job that no worker's lease keeps, the   *)
(* model of the incremental syncs does.                                    *)
THEOREM SyncLeavesQueueFree ==
  ASSUME Inv, AtRest, NEW w \in Worker, NEW j \in Job,
         UNCHANGED <<published, late, rows, checkpoint, base>>
  PROVE  /\ run' = [run EXCEPT ![w] = Doing(j, "start")]
              => (Take(w, j) <=> Lease!Take(w, j))
         /\ run' = run
              => (Lapse(j) <=> owner[j] # NoWorker /\ Lease!Lapse({j}))
<1>a. run \in [Worker -> Run] /\ owner \in [Job -> Worker \cup {NoWorker}]
  BY DEF Inv, TypeOK
<1>1. On(w, "idle") <=> WorkMap[w] = NoJob
  BY NameAssumption DEF Inv, InsertInv, InsertOk, On, AtRest, WorkMap
<1>2. ASSUME run' = [run EXCEPT ![w] = Doing(j, "start")]
      PROVE  Take(w, j) <=> Lease!Take(w, j)
  <2>1. WorkMap' = [WorkMap EXCEPT ![w] = j]
    BY <1>a, <1>2 DEF WorkMap, Doing
  <2> QED
    BY <1>1, <1>2, <2>1 DEF Take, Lease!Take, Lease!Available, WorkMap
<1>3. ASSUME run' = run
      PROVE  Lapse(j) <=> owner[j] # NoWorker /\ Lease!Lapse({j})
  <2>1. [owner EXCEPT ![j] = NoWorker] = [k \in Job |-> IF k \in {j} THEN NoWorker ELSE owner[k]]
    BY <1>a
  <2> QED
    BY <1>3, <2>1 DEF Lapse, Lease!Lapse
<1> QED
  BY <1>2, <1>3

(* Refinement: the incremental syncs use the queue as JobLease allows.     *)
THEOREM SyncsUseLease == Spec => UsesLease
<1>1. Init => AtRest /\ Lease!Init
  BY DEF Init, AtRest, Idle, Doing, Lease!Init
<1>2. ASSUME Inv, AtRest, [Next]_vars PROVE [Lease!Next]_Lease!vars
  <2>a. TypeOK /\ run \in [Worker -> Run] /\ owner \in [Job -> Worker \cup {NoWorker}]
    BY <1>2 DEF Inv, TypeOK
  <2>j. \A w \in Worker : ~On(w, "idle") => run[w].job \in Job
    BY <1>2 DEF Inv, InsertInv, InsertOk, On
  <2>1. ASSUME NEW w \in Worker, NEW j \in Job, Take(w, j)
        PROVE  Lease!Next
    <3>1. Lease!Take(w, j)
      BY <1>2, <2>1, SyncLeavesQueueFree DEF Take
    <3> QED
      BY <3>1 DEF Lease!Next, Lease!WorkerStep
  <2>2. ASSUME NEW j \in Job, Lapse(j) PROVE Lease!Next
    <3>1. Lease!Lapse({j}) /\ {j} \in SUBSET Job
      BY <2>2, <2>a DEF Lapse, Lease!Lapse
    <3> QED
      BY <3>1 DEF Lease!Next
  <2>3. ASSUME NEW w \in Worker, run' = [run EXCEPT ![w] = Idle]
        PROVE  WorkMap' = [WorkMap EXCEPT ![w] = NoJob]
    BY <2>3, <2>a DEF WorkMap, Idle, Doing
  <2>4. ASSUME NEW w \in Worker, Retry(w) \/ Complete(w) \/ Abandon(w) \/ DeadLetter(w)
        PROVE  Lease!Next
    <3>1. PICK s \in {"completed", "queued", "dead_letter"} : Close(w, s)
      BY <2>4 DEF Retry, Complete, Abandon, DeadLetter
    <3>2. run[w].job \in Job
      BY <2>4, <2>j DEF Retry, Complete, Abandon, DeadLetter, On
    <3>3. Lease!Close(w, s)
      BY <3>1, <3>2, <2>3 DEF Close, Owns, Lease!Close, Lease!Holds, WorkMap
    <3> QED
      BY <3>3 DEF Lease!Next, Lease!WorkerStep
  <2>5. ASSUME NEW w \in Worker, Leave(w) PROVE Lease!Next
    <3>1. Lease!Leave(w)
      BY <2>5, <2>3, <2>j DEF Leave, Lease!Leave, WorkMap
    <3> QED
      BY <3>1 DEF Lease!Next, Lease!WorkerStep
  <2>6. ASSUME NEW w \in Worker,
               \/ \E now \in Time : Insert(w, now)
               \/ \E page \in SUBSET Event : Request(w, page)
               \/ Resume(w) \/ WritePage(w) \/ Degrade(w) \/ Finish(w)
        PROVE  UNCHANGED Lease!vars
    <3>1. UNCHANGED <<status, owner>>
      BY <2>6 DEF Insert, Resume, Request, WritePage, Degrade, Finish
    <3>2. \A v \in Worker : run'[v].job = run[v].job
      <4>1. CASE \E now \in Time : Insert(w, now)
        <5>1. PICK t, S : run' = [run EXCEPT ![w] = Inserts(w, t, S)]
          BY <4>1 DEF Insert, Inserts
        <5> QED
          BY <5>1, <2>a, InsertsFields
      <4>2. CASE \E page \in SUBSET Event : Request(w, page)
        <5>1. PICK page : Request(w, page)
          BY <4>2
        <5>2. PICK s, f, l : run' = [run EXCEPT ![w] =
                                       [@ EXCEPT !.step = s, !.found = f, !.link = l]]
          BY <5>1 DEF Request
        <5>3. run[w] \in Run
          BY <2>a
        <5>4. [run[w] EXCEPT !.step = s, !.found = f, !.link = l].job = run[w].job
          BY <5>3 DEF Run
        <5> QED
          BY <5>2, <5>4, <2>a
      <4>3. CASE Resume(w) \/ Finish(w)
        <5>1. PICK step : run' = [run EXCEPT ![w].step = step]
          BY <4>3 DEF Resume, Finish
        <5> QED
          BY <5>1, <2>a DEF Run
      <4>4. CASE WritePage(w) \/ Degrade(w)
        BY <4>4, <2>a DEF WritePage, Degrade, Doing
      <4> QED
        BY <2>6, <4>1, <4>2, <4>3, <4>4
    <3>3. WorkMap' = WorkMap
      BY <3>2 DEF WorkMap
    <3> QED
      BY <3>1, <3>3 DEF Lease!vars, WorkMap
  <2>7. CASE (\E e \in Coming : Publish(e)) \/ UNCHANGED vars
    BY <2>7 DEF Publish, vars, Lease!vars
  <2> QED
    BY <1>2, <2>1, <2>2, <2>4, <2>5, <2>6, <2>7 DEF Next
<1>3. Inv => TypeOK
  BY DEF Inv
<1> QED
  BY <1>1, <1>2, <1>3, AtRestStep, Invariant, PTL DEF Spec, UsesLease, Lease!Spec

=============================================================================
