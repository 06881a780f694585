------------------------ MODULE WorkerProcessProofs ------------------------
(***************************************************************************)
(* The worker loops use the durable queue as its specification allows, for *)
(* any jobs, environments and workers, whatever the clock does, and so     *)
(* inherit what is proved of it.  What is theirs alone: a living loop      *)
(* holds one row, a loop asked to stop only goes downhill, and handlers    *)
(* that renew in time keep the loops alive and the retry budget.           *)
(***************************************************************************)
EXTENDS WorkerProcess, WellFoundedInduction, TLAPS

USE EnvironmentOrder, JobsPlaced, UnexpectedDelay, QueueAssumption

(* A cycle lists environments.                                             *)
CycleOK == cycle \in [Worker -> SUBSET Environment]

(* The first environment of a cycle that is not over is one of its list.   *)
LEMMA CurrentListed ==
  ASSUME CycleOK, NEW w \in Worker, cycle[w] # {}
  PROVE  Current(w) \in Environment
<1> DEFINE Less == {p \in Nat \X Nat : p[1] < p[2]}
           left == cycle[w]
<1>0. left \in SUBSET Nat /\ left # {} /\ left \subseteq Environment
  BY DEF CycleOK
<1>1. IsWellFoundedOn(Less, Nat)
  BY NatLessThanWellFounded DEF OpToRel
<1>2. PICK e \in left : \A f \in left : ~(<<f, e>> \in Less)
  <2> HIDE DEF Less, left
  <2> QED
    BY <1>0, <1>1, WFMin
<1>3. ASSUME NEW f \in left PROVE e <= f
  <2>1. e \in Nat /\ f \in Nat
    BY <1>0
  <2>2. ~(f < e)
    BY <1>2, <2>1
  <2> QED
    BY <2>1, <2>2
<1>4. Current(w) \in left
  BY <1>3 DEF Current
<1> QED
  BY <1>0, <1>4

(* run_cycle's list is read from the rows and only ever gets shorter.      *)
LEMMA CycleStep == CycleOK /\ [Next]_vars => CycleOK'
<1> SUFFICES ASSUME CycleOK, [Next]_vars PROVE CycleOK'
  OBVIOUS
<1> USE DEF CycleOK
<1>1. ASSUME NEW w \in Worker, NEW left \in SUBSET Environment,
             cycle' = [cycle EXCEPT ![w] = left]
      PROVE  CycleOK'
  BY <1>1
<1>2. ASSUME NEW w \in Worker, StartCycle(w) PROVE CycleOK'
  <2>1. ClaimableEnvironments \in SUBSET Environment
    BY DEF ClaimableEnvironments
  <2> QED
    BY <1>1, <1>2, <2>1 DEF StartCycle
<1>3. ASSUME NEW w \in Worker, EndCycle(w) \/ Dies(w) PROVE CycleOK'
  BY <1>3 DEF EndCycle, Dies
<1>4. ASSUME NEW w \in Worker, ClaimCommit(w) \/ NothingToClaim(w) PROVE CycleOK'
  BY <1>4 DEF ClaimCommit, NothingToClaim
<1>5. CASE cycle' = cycle
  BY <1>5
<1> QED
  BY <1>2, <1>3, <1>4, <1>5
  DEF Next, Step, vars, Tick, Enqueue, RequestStop, Kill, Stop, Claim,
      HeartbeatCheck, HeartbeatCommit, HandlerEnds, LeaseFoundLost, LastCheck,
      JobClosed, LoopDies

-----------------------------------------------------------------------------
(* The refinement. *)

(* Every step of a loop, of its environment or of its clock is a step of   *)
(* the queue, or does not touch it.                                        *)
LEMMA QueueStep ==
  ASSUME CycleOK, [Next]_vars
  PROVE  Queue!Next \/ UNCHANGED queueVars
<1>0. ASSUME NEW w \in Worker, Queue!WorkerStep(w) PROVE Queue!Next
  BY <1>0 DEF Queue!Next
<1>1. CASE Tick
  BY <1>1 DEF Tick, Queue!Next
<1>2. CASE Enqueue
  BY <1>2 DEF Enqueue, Queue!Next
<1>3. ASSUME NEW w \in Worker, Claim(w) PROVE Queue!Next
  <2>1. Current(w) \in Environment
    BY <1>3, CurrentListed DEF Claim, AtNextEnvironment
  <2>2. Queue!WorkerStep(w)
    BY <1>3, <2>1 DEF Claim, Queue!WorkerStep
  <2> QED
    BY <1>0, <2>2
<1>4. ASSUME NEW w \in Worker, NothingToClaim(w) PROVE Queue!Next
  <2>1. Current(w) \in Environment
    BY <1>4, CurrentListed DEF NothingToClaim, AtNextEnvironment
  <2>2. Queue!WorkerStep(w)
    BY <1>4, <2>1 DEF NothingToClaim, Queue!WorkerStep
  <2> QED
    BY <1>0, <2>2
<1>5. ASSUME NEW w \in Worker, ClaimCommit(w) \/ HeartbeatCommit(w) PROVE Queue!Next
  <2>1. Queue!WorkerStep(w)
    BY <1>5 DEF ClaimCommit, HeartbeatCommit, Queue!WorkerStep
  <2> QED
    BY <1>0, <2>1
<1>6. ASSUME NEW w \in Worker, HeartbeatCheck(w) \/ LastCheck(w) PROVE Queue!Next
  <2>1. PICK op \in {"heartbeat", "complete", "abandon", "dead_letter"} : Queue!CheckLease(w, op)
    BY <1>6 DEF HeartbeatCheck, LastCheck, LastCall
  <2>2. Queue!WorkerStep(w)
    BY <2>1 DEF Queue!WorkerStep, Queue!LeaseOp
  <2> QED
    BY <1>0, <2>2
<1>7. ASSUME NEW w \in Worker, JobClosed(w) PROVE Queue!Next
  <2>1. DelaysOf(w) \subseteq Delays
    BY DEF DelaysOf
  <2>2. Queue!WorkerStep(w)
    BY <1>7, <2>1 DEF JobClosed, Queue!WorkerStep
  <2> QED
    BY <1>0, <2>2
<1>8. ASSUME NEW w \in Worker, LoopDies(w) PROVE Queue!Next
  <2>1. Queue!WorkerStep(w)
    BY <1>8 DEF LoopDies, Queue!WorkerStep
  <2> QED
    BY <1>0, <2>1
<1>9. ASSUME NEW w \in Worker, Kill(w) PROVE Queue!Next \/ UNCHANGED queueVars
  <2>1. CASE Queue!Crash(w)
    BY <1>0, <2>1 DEF Queue!WorkerStep
  <2> QED
    BY <1>9, <2>1 DEF Kill
<1>10. ASSUME NEW w \in Worker,
              \/ Stop(w) \/ StartCycle(w) \/ EndCycle(w) \/ HandlerEnds(w)
              \/ LeaseFoundLost(w) \/ RequestStop(w)
       PROVE  UNCHANGED queueVars
  BY <1>10 DEF Stop, StartCycle, EndCycle, HandlerEnds, LeaseFoundLost, RequestStop
<1>11. CASE UNCHANGED vars
  BY <1>11 DEF vars
<1> QED
  BY <1>1, <1>2, <1>3, <1>4, <1>5, <1>6, <1>7, <1>8, <1>9, <1>10, <1>11 DEF Next, Step

(* Their behaviours are behaviours of the queue, so what is proved of it   *)
(* can be used below.  The steps are the queue's by construction: what is  *)
(* said of the loops themselves starts after SpecIsQueue.                  *)
LEMMA LoopsImplementQueue == Spec => Queue!Spec
<1>1. Init => CycleOK /\ Queue!Init
  BY DEF Init, CycleOK
<1>2. CycleOK /\ [Next]_vars => [Queue!Next]_queueVars
  BY QueueStep
<1>3. queueVars = Queue!vars
  BY DEF queueVars, Queue!vars
<1>4. CycleOK /\ [Next]_vars => [Queue!Next]_Queue!vars
  BY <1>2, <1>3 DEF queueVars, Queue!vars
<1> QED
  BY <1>1, <1>4, CycleStep, PTL DEF Spec, Queue!Spec

-----------------------------------------------------------------------------
(* What the loops inherit from the queue.  QP is JobQueue with its proofs, *)
(* instantiated like Queue: the two name the same actions and properties.  *)
QP == INSTANCE JobQueueProofs

LEMMA SameQueue == QP!vars = Queue!vars /\ (QP!Init <=> Queue!Init) /\ (QP!Next <=> Queue!Next)
BY
  DEF Queue!Init, QP!Init, Queue!Next, QP!Next, Queue!WorkerStep,
      QP!WorkerStep, Queue!Tick, QP!Tick, Queue!Enqueue, QP!Enqueue,
      Queue!ClaimSelect, QP!ClaimSelect, Queue!ClaimCommit,
      QP!ClaimCommit, Queue!ClaimNothing, QP!ClaimNothing,
      Queue!CheckLease, QP!CheckLease, Queue!LeaseLost,
      QP!LeaseLost, Queue!HeartbeatCommit, QP!HeartbeatCommit,
      Queue!CompleteCommit, QP!CompleteCommit, Queue!AbandonCommit,
      QP!AbandonCommit, Queue!DeadLetterCommit, QP!DeadLetterCommit,
      Queue!DeadLetterConflict, QP!DeadLetterConflict, Queue!Crash,
      QP!Crash, Queue!vars, QP!vars, Queue!LetGo, QP!LetGo,
      Queue!Free, QP!Free, Queue!Idle, QP!Idle, Queue!Locked,
      QP!Locked, Queue!Lapsed, QP!Lapsed, Queue!Claimable,
      QP!Claimable, Queue!Precedes, QP!Precedes, Queue!Eligible,
      QP!Eligible, Queue!Renewed, QP!Renewed, Queue!Leased,
      QP!Leased, Queue!OwnsLease, QP!OwnsLease, Queue!Writing,
      QP!Writing, Queue!WriteTimes, QP!WriteTimes, Queue!Unleased,
      QP!Unleased, Queue!Requeued, QP!Requeued, Queue!Exhausted,
      QP!Exhausted, Queue!Burying, QP!Burying, Queue!QueuedRow,
      QP!QueuedRow, Queue!AbsentRow, QP!AbsentRow, Queue!NoEnvelope,
      QP!NoEnvelope, Queue!NoTxn, QP!NoTxn, Queue!NoTime, QP!NoTime,
      Queue!NoRow, QP!NoRow, Queue!LeaseOp, QP!LeaseOp

LEMMA SpecIsQueue == Spec => QP!Spec
<1>1. [Queue!Next]_Queue!vars => [QP!Next]_QP!vars
  BY SameQueue DEF Queue!vars, QP!vars
<1> QED
  BY <1>1, SameQueue, LoopsImplementQueue, PTL
  DEF Queue!Spec, QP!Spec

(* For every schedule, Stall included: no loop leaves a row leased without *)
(* an owner and an expiry, hands an attempt to two workers, or buries a    *)
(* job without its dead letter.                                            *)
THEOREM LoopsKeepQueueSafe ==
  Spec => [](/\ Queue!LeaseIsRecoverable
             /\ Queue!AttemptHandedOnce
             /\ Queue!DeadLetterRecorded)
<1>1. QP!LeaseIsRecoverable => Queue!LeaseIsRecoverable
  BY DEF QP!LeaseIsRecoverable, Queue!LeaseIsRecoverable
<1>2. QP!AttemptHandedOnce => Queue!AttemptHandedOnce
  BY DEF QP!AttemptHandedOnce, Queue!AttemptHandedOnce, QP!Free, Queue!Free
<1>3. QP!DeadLetterRecorded => Queue!DeadLetterRecorded
  BY DEF QP!DeadLetterRecorded, Queue!DeadLetterRecorded, QP!NoRow, Queue!NoRow
<1>4. QP!Spec => []QP!LeaseIsRecoverable
  BY QP!LeaseRecoverable
<1>5. QP!Spec => []QP!AttemptHandedOnce
  BY QP!ClaimExactlyOnce
<1>6. QP!Spec => []QP!DeadLetterRecorded
  BY QP!DeadLetterAlwaysRecorded
<1> QED
  BY <1>1, <1>2, <1>3, <1>4, <1>5, <1>6, SpecIsQueue, PTL

(* With transactions short against the clock, the loops keep the retry     *)
(* budget, the dead-letter table in step with the rows, and the fence      *)
(* around every lease.                                                     *)
THEOREM ShortLoopsKeepPromises ==
  ASSUME Stall = FALSE
  PROVE  Spec => /\ [](Queue!QueuedHasBudget /\ Queue!DeadLettersAgree)
                 /\ Queue!LeaseFences
<1>1. QP!QueuedHasBudget => Queue!QueuedHasBudget
  BY DEF QP!QueuedHasBudget, Queue!QueuedHasBudget
<1>2. QP!DeadLettersAgree => Queue!DeadLettersAgree
  BY DEF QP!DeadLettersAgree, Queue!DeadLettersAgree, QP!NoRow, Queue!NoRow
<1>3. QP!Spec => []QP!QueuedHasBudget
  BY QP!BudgetKept
<1>4. QP!Spec => []QP!DeadLettersAgree
  BY QP!DeadLettersExact
<1>5. QP!Spec => QP!LeaseFences
  BY QP!LeasesFence
<1>6. QP!LeaseFences => Queue!LeaseFences
  BY DEF QP!LeaseFences, Queue!LeaseFences, QP!LapsedOnlyReclaimed,
         Queue!LapsedOnlyReclaimed, QP!HolderOnlyWrites, Queue!HolderOnlyWrites,
         QP!Lapsed, Queue!Lapsed, QP!NoTime, Queue!NoTime, QP!LeaseOp,
         Queue!LeaseOp, QP!NoTxn, Queue!NoTxn, QP!vars, Queue!vars
<1> QED
  BY <1>1, <1>2, <1>3, <1>4, <1>5, <1>6, SpecIsQueue, PTL

(* And with them each job lives JobLifecycle's life, by the leases of      *)
(* JobLease: a loop adds nothing a dispatcher or a handler has to know.    *)
THEOREM ShortLoopsImplementAbstractions ==
  ASSUME Stall = FALSE
  PROVE  Spec => Queue!ImplementsLifecycle /\ Queue!ImplementsLease
<1>1. QP!Spec => QP!ImplementsLifecycle
  BY QP!QueueImplementsLifecycle
<1>2. QP!Spec => QP!ImplementsLease
  BY QP!QueueImplementsLease
<1>3. QP!ImplementsLifecycle => Queue!ImplementsLifecycle
  <2>1. QP!Lifecycle!Init => Queue!Lifecycle!Init
    BY DEF QP!Lifecycle!Init, Queue!Lifecycle!Init
  <2>2. [QP!Lifecycle!Next]_QP!Lifecycle!vars => [Queue!Lifecycle!Next]_Queue!Lifecycle!vars
    BY DEF QP!Lifecycle!Next, Queue!Lifecycle!Next, QP!Lifecycle!vars,
           Queue!Lifecycle!vars, QP!Lifecycle!Submit,
           Queue!Lifecycle!Submit, QP!Lifecycle!Attempt,
           Queue!Lifecycle!Attempt, QP!Lifecycle!Retry,
           Queue!Lifecycle!Retry, QP!Lifecycle!Finish,
           Queue!Lifecycle!Finish, QP!Lifecycle!Bury, Queue!Lifecycle!Bury,
           QP!Lifecycle!Move, Queue!Lifecycle!Move
  <2> QED
    BY <2>1, <2>2, PTL
    DEF QP!ImplementsLifecycle, Queue!ImplementsLifecycle, QP!Lifecycle!Spec, Queue!Lifecycle!Spec
<1>4. QP!ImplementsLease => Queue!ImplementsLease
  <2>1. QP!Lease!Init => Queue!Lease!Init
    BY DEF QP!Lease!Init, Queue!Lease!Init, QP!Holder, Queue!Holder,
           QP!WorksOn, Queue!WorksOn, QP!Lapsed, Queue!Lapsed, QP!NoTime,
           Queue!NoTime
  <2>2. [QP!Lease!Next]_QP!Lease!vars => [Queue!Lease!Next]_Queue!Lease!vars
    BY DEF QP!Lease!Next, Queue!Lease!Next, QP!Lease!vars, Queue!Lease!vars,
           QP!Lease!Submit, Queue!Lease!Submit, QP!Lease!Lapse,
           Queue!Lease!Lapse, QP!Lease!WorkerStep, Queue!Lease!WorkerStep,
           QP!Lease!Take, Queue!Lease!Take, QP!Lease!Available,
           Queue!Lease!Available, QP!Lease!Close, Queue!Lease!Close,
           QP!Lease!Holds, Queue!Lease!Holds, QP!Lease!Leave,
           Queue!Lease!Leave, QP!Holder, Queue!Holder, QP!WorksOn,
           Queue!WorksOn, QP!Lapsed, Queue!Lapsed, QP!NoTime, Queue!NoTime
  <2> QED
    BY <2>1, <2>2, PTL
    DEF QP!ImplementsLease, Queue!ImplementsLease, QP!Lease!Spec, Queue!Lease!Spec
<1> QED
  BY <1>1, <1>2, <1>3, <1>4, SpecIsQueue, PTL

-----------------------------------------------------------------------------
(* A leased row is in the hands of a loop, or its loop is dead. *)

(* Type correctness: the queue's from its own proof, the loop's from its   *)
(* steps.                                                                  *)
THEOREM TypeCorrect == Spec => []TypeOK
<1> DEFINE LoopOK == pc \in [Worker -> PC] /\ stop \in [Worker -> BOOLEAN]
<1>1. Init => LoopOK
  BY DEF Init, PC, Live
<1>2. LoopOK /\ [Next]_vars => LoopOK'
  <2> SUFFICES ASSUME LoopOK, [Next]_vars PROVE LoopOK'
    OBVIOUS
  <2>1. ASSUME NEW w \in Worker, NEW l \in PC, Goto(w, l), stop' = stop PROVE LoopOK'
    BY <2>1 DEF Goto
  <2>2. CASE pc' = pc /\ stop' = stop
    BY <2>2
  <2>3. ASSUME NEW w \in Worker, RequestStop(w) PROVE LoopOK'
    BY <2>3 DEF RequestStop
  <2>4. ASSUME NEW w \in Worker, HandlerEnds(w) PROVE LoopOK'
    BY <2>1, <2>4 DEF HandlerEnds, PC, Live, AtWork, Raised
  <2>5. ASSUME NEW w \in Worker, Step(w) \/ Kill(w), ~HandlerEnds(w) PROVE LoopOK'
    BY <2>1, <2>2, <2>5
    DEF PC, Live, AtWork, Raised, Step, Kill, Stop, StartCycle, EndCycle, Claim,
        ClaimCommit, NothingToClaim, HeartbeatCheck, HeartbeatCommit, LeaseFoundLost,
        LastCheck, JobClosed, LoopDies, Dies
  <2> QED
    BY <2>2, <2>3, <2>4, <2>5 DEF Next, vars, Tick, Enqueue
<1>3. Init => CycleOK
  BY DEF Init, CycleOK
<1>4. QP!TypeOK => Queue!TypeOK
  BY DEF QP!TypeOK, Queue!TypeOK, QP!Row, Queue!Row, QP!Status, Queue!Status,
         QP!Terminal, Queue!Terminal, QP!LeaseOp, Queue!LeaseOp, QP!NoTime, Queue!NoTime
<1>5. QP!Spec => []QP!TypeOK
  BY QP!TypeCorrect
<1>6. LoopOK /\ CycleOK /\ Queue!TypeOK => TypeOK
  BY DEF TypeOK, CycleOK
<1> QED
  BY <1>1, <1>2, <1>3, <1>4, <1>5, <1>6, CycleStep, SpecIsQueue, PTL DEF Spec

(* What a loop has of the queue where: nothing between two jobs, the row   *)
(* lock while it claims, and an envelope while it works.                   *)
Settled(w) ==
  /\ pc[w] \in {"polling", "cycle", "stopped", "dead"} => Queue!Free(w) /\ Queue!Idle(w)
  /\ pc[w] = "claim" => ~Queue!Free(w) /\ txn[w].op = "claim"
  /\ pc[w] \in AtWork => ~Queue!Free(w) /\ txn[w].op # "claim"

InHand(w) ==
  \A j \in Job :
    /\ jobs[j].status = "leased" /\ jobs[j].lease_owner = w
    /\ pc[w] # "dead"
    => pc[w] \in AtWork /\ envelope[w].job = j

LoopInv == TypeOK /\ \A w \in Worker : Settled(w) /\ InHand(w)

(* A step of a worker leaves the others where they are.                    *)
LEMMA OthersStay ==
  ASSUME TypeOK, NEW w \in Worker, Step(w) \/ RequestStop(w) \/ Kill(w),
         NEW v \in Worker, v # w
  PROVE  pc'[v] = pc[v] /\ envelope'[v] = envelope[v] /\ txn'[v] = txn[v]
<1> USE DEF TypeOK, Queue!TypeOK, queueVars, Queue!vars, Goto
<1>1. CASE \/ Stop(w) \/ StartCycle(w) \/ EndCycle(w) \/ HandlerEnds(w)
           \/ LeaseFoundLost(w) \/ RequestStop(w)
  BY <1>1 DEF Stop, StartCycle, EndCycle, HandlerEnds, LeaseFoundLost, RequestStop
<1>2. CASE Claim(w) \/ ClaimCommit(w) \/ NothingToClaim(w)
  BY <1>2 DEF Claim, ClaimCommit, NothingToClaim, Queue!ClaimSelect, Queue!ClaimCommit,
              Queue!ClaimNothing
<1>3. CASE HeartbeatCheck(w) \/ HeartbeatCommit(w) \/ LastCheck(w)
  BY <1>3 DEF HeartbeatCheck, HeartbeatCommit, LastCheck, Queue!CheckLease,
              Queue!HeartbeatCommit
<1>4. CASE JobClosed(w)
  BY <1>4 DEF JobClosed, Queue!CompleteCommit, Queue!AbandonCommit,
              Queue!DeadLetterCommit, Queue!LetGo
<1>5. CASE LoopDies(w) \/ Kill(w)
  BY <1>5 DEF LoopDies, Kill, Dies, Queue!LeaseLost, Queue!DeadLetterConflict,
              Queue!Crash, Queue!LetGo
<1> QED
  BY <1>1, <1>2, <1>3, <1>4, <1>5 DEF Step

(* Whatever run_once's last call is, the row it writes is leased no more.  *)
LEMMA ClosedRow ==
  ASSUME TypeOK, NEW w \in Worker, JobClosed(w), NEW j \in Job
  PROVE  IF envelope[w].job = j THEN jobs'[j].status # "leased" ELSE jobs'[j] = jobs[j]
<1>0. jobs \in [Job -> Queue!Row]
  BY DEF TypeOK, Queue!TypeOK
<1>1. CASE Queue!CompleteCommit(w) \/ Queue!DeadLetterCommit(w)
  <2>1. PICK s \in {"completed", "dead_letter"} :
          jobs' = [jobs EXCEPT ![envelope[w].job] = Queue!Unleased(@, s)]
    BY <1>1 DEF Queue!CompleteCommit, Queue!DeadLetterCommit
  <2> QED
    BY <1>0, <2>1 DEF Queue!Unleased, Queue!Row
<1>2. ASSUME NEW d, Queue!AbandonCommit(w, d)
      PROVE  IF envelope[w].job = j THEN jobs'[j].status # "leased" ELSE jobs'[j] = jobs[j]
  <2>1. PICK t : jobs' = [jobs EXCEPT ![envelope[w].job] = Queue!Requeued(@, t + d)]
    BY <1>2 DEF Queue!AbandonCommit
  <2> QED
    BY <1>0, <2>1 DEF Queue!Requeued, Queue!Unleased, Queue!Row
<1> QED
  BY <1>1, <1>2 DEF JobClosed

(* A row comes to be leased by the commit of a claim alone.                *)
LEMMA RowsKept ==
  ASSUME TypeOK, NEW w \in Worker, Step(w) \/ RequestStop(w) \/ Kill(w),
         NEW j \in Job, jobs'[j].status = "leased"
  PROVE  \/ jobs[j].status = "leased" /\ jobs'[j].lease_owner = jobs[j].lease_owner
         \/ ClaimCommit(w) /\ envelope[w].job = j /\ jobs'[j].lease_owner = w
<1> USE DEF TypeOK, Queue!TypeOK, Queue!Row
<1>1. CASE ClaimCommit(w)
  BY <1>1 DEF ClaimCommit, Queue!ClaimCommit, Queue!Leased, Queue!Renewed
<1>2. CASE HeartbeatCommit(w)
  BY <1>2 DEF HeartbeatCommit, Queue!HeartbeatCommit, Queue!Renewed
<1>3. CASE JobClosed(w)
  BY <1>3, ClosedRow
<1>4. CASE jobs' = jobs
  BY <1>4
<1> QED
  BY <1>1, <1>2, <1>3, <1>4
  DEF Step, RequestStop, Kill, queueVars, Stop, StartCycle, EndCycle, Claim,
      NothingToClaim, HeartbeatCheck, HandlerEnds, LeaseFoundLost, LastCheck, LoopDies,
      Queue!ClaimSelect, Queue!ClaimNothing, Queue!vars, Queue!CheckLease,
      Queue!LeaseLost, Queue!DeadLetterConflict, Queue!Crash

(* Each way in and out of run_once keeps a loop settled.                   *)
LEMMA SettledStep ==
  ASSUME TypeOK, TypeOK', NEW w \in Worker, Settled(w),
         Step(w) \/ RequestStop(w) \/ Kill(w)
  PROVE  Settled(w)'
<1> USE DEF Queue!Free, Queue!Idle
<1>0. /\ pc[w] \in PC /\ envelope[w].job \in Job \cup {NoJob}
      /\ DOMAIN pc = Worker /\ DOMAIN txn = Worker /\ DOMAIN envelope = Worker
  BY DEF TypeOK, Queue!TypeOK
<1>1. CASE Stop(w) \/ StartCycle(w) \/ EndCycle(w) \/ HandlerEnds(w)
           \/ LeaseFoundLost(w) \/ RequestStop(w)
  BY <1>0, <1>1 DEF Settled, Stop, StartCycle, EndCycle, HandlerEnds, LeaseFoundLost,
                    RequestStop, Goto, AtWork, Raised, queueVars
<1>2. CASE Claim(w)
  BY <1>0, <1>2 DEF Settled, Claim, Queue!ClaimSelect, Queue!Eligible, Goto, AtWork, Raised
<1>3. CASE ClaimCommit(w)
  BY <1>0, <1>3 DEF Settled, ClaimCommit, Queue!ClaimCommit, Queue!NoTxn, Goto, AtWork, Raised
<1>4. CASE NothingToClaim(w)
  BY <1>4 DEF Settled, NothingToClaim, Queue!ClaimNothing, Queue!vars
<1>5. CASE HeartbeatCheck(w) \/ LastCheck(w)
  BY <1>0, <1>5 DEF Settled, HeartbeatCheck, LastCheck, LastCall, Queue!CheckLease,
                    AtWork, Raised
<1>6. CASE HeartbeatCommit(w)
  BY <1>0, <1>6 DEF Settled, HeartbeatCommit, Queue!HeartbeatCommit, Queue!Writing,
                    Queue!NoTxn, AtWork, Raised, PC, Live
<1>7. CASE JobClosed(w) \/ LoopDies(w) \/ Kill(w)
  <2>1. CASE Queue!LetGo(w)
    BY <1>0, <1>7, <2>1 DEF Settled, JobClosed, LoopDies, Kill, Dies, Goto, Queue!LetGo,
                       Queue!NoTxn, Queue!NoEnvelope, AtWork, Raised
  <2>2. CASE Kill(w) /\ Queue!Free(w) /\ UNCHANGED queueVars
    BY <1>0, <2>2 DEF Settled, Kill, Dies, Goto, queueVars, AtWork, Raised, Live
  <2>3. CASE LoopDies(w) /\ Queue!LeaseLost(w)
    BY <1>0, <2>3 DEF Settled, LoopDies, Dies, Goto, Queue!LeaseLost, Queue!NoEnvelope,
                      AtWork, Raised
  <2> QED
    BY <1>7, <2>1, <2>2, <2>3
    DEF JobClosed, LoopDies, Kill, Queue!CompleteCommit, Queue!AbandonCommit,
        Queue!DeadLetterCommit, Queue!DeadLetterConflict, Queue!Crash
<1> QED
  BY <1>1, <1>2, <1>3, <1>4, <1>5, <1>6, <1>7 DEF Step

(* A loop that goes on has closed the row it held.                         *)
LEMMA InHandStep ==
  ASSUME TypeOK, TypeOK', NEW w \in Worker, Settled(w), InHand(w),
         Step(w) \/ RequestStop(w) \/ Kill(w)
  PROVE  InHand(w)'
<1> SUFFICES ASSUME NEW j \in Job, jobs'[j].status = "leased", jobs'[j].lease_owner = w,
                    pc'[w] # "dead"
             PROVE  pc'[w] \in AtWork /\ envelope'[w].job = j
  BY DEF InHand
<1>0. /\ pc[w] \in PC /\ DOMAIN pc = Worker /\ DOMAIN envelope = Worker
      /\ DOMAIN jobs = Job
  BY DEF TypeOK, Queue!TypeOK
<1>1. CASE ClaimCommit(w)
  <2>1. ~(jobs[j].status = "leased" /\ jobs[j].lease_owner = w)
    BY <1>1 DEF InHand, ClaimCommit, AtWork, Raised
  <2> QED
    BY <1>0, <1>1, <2>1, RowsKept
    DEF ClaimCommit, Queue!ClaimCommit, Goto, AtWork, Raised
<1>2. ASSUME ~ClaimCommit(w)
      PROVE  jobs[j].status = "leased" /\ jobs[j].lease_owner = w
  BY <1>2, RowsKept
<1>3. CASE LoopDies(w) \/ Kill(w)
  BY <1>0, <1>3 DEF LoopDies, Kill, Dies, Goto
<1>4. ASSUME ~ClaimCommit(w), pc[w] # "dead"
      PROVE  pc[w] \in AtWork /\ envelope[w].job = j
  BY <1>2, <1>4 DEF InHand
<1>5. CASE JobClosed(w)
  <2>1. pc[w] # "dead" /\ ~ClaimCommit(w)
    BY <1>5 DEF Settled, JobClosed, ClaimCommit, Queue!CompleteCommit,
                Queue!AbandonCommit, Queue!DeadLetterCommit, Queue!ClaimCommit,
                Queue!Burying, Queue!Writing, Queue!Idle
  <2>2. envelope[w].job = j
    BY <1>4, <2>1
  <2> QED
    BY <1>5, <2>2, ClosedRow
<1>6. CASE Stop(w) \/ StartCycle(w) \/ EndCycle(w) \/ Claim(w) \/ NothingToClaim(w)
  BY <1>0, <1>4, <1>6 DEF Stop, StartCycle, EndCycle, Claim, NothingToClaim,
     AtNextEnvironment, AtWork, Raised, ClaimCommit
<1>7. CASE HeartbeatCheck(w) \/ HandlerEnds(w) \/ LeaseFoundLost(w) \/ LastCheck(w)
  BY <1>0, <1>4, <1>7
  DEF HeartbeatCheck, HandlerEnds, LeaseFoundLost, LastCheck, Queue!CheckLease,
      queueVars, Goto, AtWork, Raised, ClaimCommit
<1>8. CASE HeartbeatCommit(w)
  <2>1. pc[w] \in AtWork
    BY <1>0, <1>8 DEF Settled, HeartbeatCommit, Queue!HeartbeatCommit, Queue!Writing,
                      Queue!Idle, PC, Live
  <2> QED
    BY <1>0, <1>4, <1>8, <2>1
    DEF HeartbeatCommit, Queue!HeartbeatCommit, Queue!Writing, ClaimCommit,
        Queue!ClaimCommit, AtWork, Raised
<1>9. CASE RequestStop(w)
  BY <1>0, <1>4, <1>9 DEF RequestStop, ClaimCommit, queueVars, Goto
<1> QED
  BY <1>1, <1>3, <1>5, <1>6, <1>7, <1>8, <1>9 DEF Step

LEMMA LoopStep ==
  ASSUME LoopInv, TypeOK', [Next]_vars
  PROVE  LoopInv'
<1>1. ASSUME NEW w \in Worker, Step(w) \/ RequestStop(w) \/ Kill(w), NEW v \in Worker
      PROVE  Settled(v)' /\ InHand(v)'
  <2>1. CASE v = w
    BY <1>1, <2>1, SettledStep, InHandStep DEF LoopInv
  <2>2. CASE v # w
    <3>1. pc'[v] = pc[v] /\ envelope'[v] = envelope[v] /\ txn'[v] = txn[v]
      BY <1>1, <2>2, OthersStay DEF LoopInv
    <3>2. Settled(v)'
      BY <3>1 DEF LoopInv, Settled, Queue!Free, Queue!Idle
    <3>3. ASSUME NEW j \in Job, jobs'[j].status = "leased", jobs'[j].lease_owner = v
          PROVE  jobs[j].status = "leased" /\ jobs[j].lease_owner = v
      BY <1>1, <2>2, <3>3, RowsKept DEF LoopInv
    <3>4. InHand(v)'
      BY <3>1, <3>3 DEF LoopInv, InHand
    <3> QED
      BY <3>2, <3>4
  <2> QED
    BY <2>1, <2>2
<1>2. CASE Enqueue
  <2>1. ASSUME NEW j \in Job, jobs'[j].status = "leased" PROVE jobs'[j] = jobs[j]
    BY <1>2, <2>1
    DEF Enqueue, Queue!Enqueue, Queue!QueuedRow, Queue!AbsentRow, LoopInv, TypeOK, Queue!TypeOK
  <2> QED
    BY <1>2, <2>1
    DEF Enqueue, Queue!Enqueue, LoopInv, Settled, InHand, Queue!Free, Queue!Idle
<1>3. CASE Tick \/ UNCHANGED vars
  BY <1>3 DEF Tick, Queue!Tick, vars, queueVars, LoopInv, Settled, InHand, Queue!Free, Queue!Idle
<1> QED
  BY <1>1, <1>2, <1>3 DEF Next, LoopInv

(* Between two jobs a loop has nothing of the queue; at work, one row.     *)
THEOREM LoopInvariant == Spec => []LoopInv
<1>1. Init => \A w \in Worker : Settled(w) /\ InHand(w)
  BY DEF Init, Queue!Init, Queue!AbsentRow, Queue!NoEnvelope, Queue!NoTxn, Settled, InHand,
         Queue!Free, Queue!Idle, AtWork, Raised
<1>2. TypeOK /\ (\A w \in Worker : Settled(w) /\ InHand(w)) => LoopInv
  BY DEF LoopInv
<1>3. LoopInv /\ TypeOK' /\ [Next]_vars => LoopInv'
  BY LoopStep
<1> QED
  BY <1>1, <1>2, <1>3, TypeCorrect, PTL DEF Spec

(* A row leased to a loop is the job the loop is at work on, unless the    *)
(* loop died of it: what run_once's except clauses leave leased is lost to *)
(* this worker only together with the worker.  Holds for every Stall.      *)
THEOREM LoopHoldsOneRow == Spec => []LeasedIsInHand
<1>1. LoopInv => LeasedIsInHand
  BY DEF LoopInv, InHand, LeasedIsInHand
<1> QED
  BY <1>1, LoopInvariant, PTL

-----------------------------------------------------------------------------
(* What StopDrains rests on: a loop asked to stop only goes downhill. *)

(* How far a loop is from its end, if it starts nothing new.               *)
Stage(w) == CASE pc[w] \in {"stopped", "dead"} -> 0
              [] pc[w] = "polling"  -> 1
              [] pc[w] = "cycle"    -> 2
              [] pc[w] \in Raised   -> 4
              [] pc[w] = "returned" -> 5
              [] pc[w] = "handling" -> 7
              [] OTHER              -> 9

(* An open transaction is half of the way to the next stage.               *)
Left(w) == Stage(w) + (IF Queue!Idle(w) THEN 1 ELSE 0)

LEMMA LeftType == ASSUME NEW w \in Worker PROVE Left(w) \in 0 .. 10
<1>1. Stage(w) \in 0 .. 9
  BY DEF Stage
<1> QED
  BY <1>1 DEF Left

(* The loop's own steps lower it, but for the commit of a page.            *)
LEMMA OwnStepDrains ==
  ASSUME TypeOK, TypeOK', NEW w \in Worker, Settled(w), stop[w], Step(w), ~HeartbeatCommit(w)
  PROVE  Left(w)' < Left(w) /\ (envelope'[w] # envelope[w] => Queue!Free(w)')
<1> DEFINE Goal == Left(w)' < Left(w) /\ (envelope'[w] # envelope[w] => Queue!Free(w)')
<1> USE DEF Left, Stage, Queue!Idle, Queue!Free, Raised
<1>0. /\ pc[w] \in PC /\ DOMAIN pc = Worker /\ DOMAIN txn = Worker /\ DOMAIN envelope = Worker
  BY DEF TypeOK, Queue!TypeOK
<1>1. CASE Stop(w) \/ EndCycle(w)
  BY <1>0, <1>1 DEF Stop, EndCycle, Goto, queueVars
<1>2. CASE StartCycle(w) \/ Claim(w) \/ NothingToClaim(w)
  BY <1>2 DEF StartCycle, Claim, NothingToClaim, AtNextEnvironment
<1>3. CASE ClaimCommit(w)
  BY <1>0, <1>3 DEF ClaimCommit, Queue!ClaimCommit, Queue!NoTxn, Goto
<1>4. CASE HeartbeatCheck(w)
  BY <1>0, <1>4 DEF HeartbeatCheck, Queue!CheckLease
<1>5. CASE LastCheck(w)
  BY <1>0, <1>5 DEF LastCheck, LastCall, Queue!CheckLease
<1>6. CASE HandlerEnds(w)
  BY <1>0, <1>6 DEF HandlerEnds, Goto, queueVars
<1>7. CASE LeaseFoundLost(w)
  BY <1>0, <1>7 DEF LeaseFoundLost, Goto, queueVars
<1>8. CASE JobClosed(w)
  <2>1. pc[w] \in AtWork
    BY <1>0, <1>8
    DEF Settled, JobClosed, Queue!CompleteCommit, Queue!AbandonCommit, PC, Live,
        Queue!DeadLetterCommit, Queue!Burying, Queue!Writing
  <2>2. Left(w) >= 4
    BY <2>1 DEF AtWork
  <2>3. Queue!LetGo(w) /\ Goto(w, "cycle")
    BY <1>8 DEF JobClosed, Queue!CompleteCommit, Queue!AbandonCommit, Queue!DeadLetterCommit
  <2>4. Left(w)' = 3 /\ Queue!Free(w)'
    BY <1>0, <2>3 DEF Queue!LetGo, Goto, Queue!NoTxn, Queue!NoEnvelope
  <2> QED
    BY <2>2, <2>4
<1>9. CASE LoopDies(w)
  <2>1. Left(w) >= 4
    BY <1>9 DEF LoopDies
  <2>2. Left(w)' <= 1
    BY <1>0, <1>9 DEF LoopDies, Dies, Goto
  <2>3. Queue!Free(w)'
    BY <1>0, <1>9 DEF LoopDies, Queue!LeaseLost, Queue!DeadLetterConflict, Queue!LetGo,
                      Queue!NoEnvelope
  <2> QED
    BY <2>1, <2>2, <2>3
<1> QED
  BY <1>1, <1>2, <1>3, <1>4, <1>5, <1>6, <1>7, <1>8, <1>9 DEF Step

(* StopDrains without its fairness.  From the moment a loop is asked to    *)
(* stop it takes no job, nothing that the others, the clock or a kill do   *)
(* puts its end off, and of its own steps only the commit of one more page *)
(* does: at most ten others are left to it.                                *)
Drains(w) ==
  /\ stop'[w]
  /\ envelope'[w] # envelope[w] => Queue!Free(w)'
  /\ HeartbeatCommit(w) \/ Left(w)' <= Left(w)
  /\ Step(w) => HeartbeatCommit(w) \/ Left(w)' < Left(w)

LEMMA StopKept == ASSUME TypeOK, NEW w \in Worker, stop[w], [Next]_vars PROVE stop'[w]
BY DEF TypeOK, Next, vars, Tick, Enqueue, Step, RequestStop, Kill, Dies, Stop, StartCycle,
       EndCycle, Claim, ClaimCommit, NothingToClaim, HeartbeatCheck, HeartbeatCommit,
       HandlerEnds, LeaseFoundLost, LastCheck, JobClosed, LoopDies

LEMMA DrainStep ==
  ASSUME LoopInv, TypeOK', Next, NEW w \in Worker, stop[w]
  PROVE  Drains(w)
<1>0. TypeOK /\ Settled(w) /\ stop'[w]
  BY StopKept DEF LoopInv
<1>1. CASE Step(w)
  <2>1. CASE HeartbeatCommit(w)
    <3>1. envelope' = envelope
      BY <2>1 DEF HeartbeatCommit, Queue!HeartbeatCommit
    <3> QED
      BY <1>0, <2>1, <3>1 DEF Drains
  <2>2. CASE ~HeartbeatCommit(w)
    <3>1. Left(w)' < Left(w) /\ (envelope'[w] # envelope[w] => Queue!Free(w)')
      BY <1>0, <1>1, <2>2, OwnStepDrains
    <3>2. Left(w) \in 0 .. 10 /\ Left(w)' \in 0 .. 10
      BY LeftType DEF Left, Stage
    <3> QED
      BY <1>0, <3>1, <3>2 DEF Drains
  <2> QED
    BY <2>1, <2>2
<1>2. ASSUME ~Step(w), pc'[w] = pc[w], txn'[w] = txn[w], envelope'[w] = envelope[w]
      PROVE  Drains(w)
  <2>1. Left(w)' = Left(w)
    BY <1>2 DEF Left, Stage, Queue!Idle
  <2>2. Left(w)' <= Left(w)
    BY <2>1, LeftType
  <2> QED
    BY <1>0, <1>2, <2>2 DEF Drains
<1>3. ASSUME ~Step(w), Kill(w) PROVE Drains(w)
  <2>0. pc'[w] = "dead"
    BY <1>0, <1>3 DEF Kill, Dies, Goto, TypeOK
  <2>1. Left(w)' \in 0 .. 1
    BY <2>0 DEF Left, Stage, Raised
  <2>2. Left(w) >= 1
    BY <1>0, <1>3 DEF Kill, Left, Stage, Live, AtWork, Raised
  <2>3. envelope'[w] = envelope[w] \/ Queue!Free(w)'
    BY <1>0, <1>3 DEF Kill, queueVars, Queue!Crash, Queue!LetGo, Queue!NoEnvelope,
                      Queue!Free, TypeOK, Queue!TypeOK
  <2>4. Left(w)' <= Left(w)
    BY <2>1, <2>2, LeftType
  <2> QED
    BY <1>0, <1>3, <2>3, <2>4 DEF Drains
<1>4. ASSUME ~Step(w), NEW v \in Worker, v # w, Step(v) \/ RequestStop(v) \/ Kill(v)
      PROVE  Drains(w)
  BY <1>0, <1>2, <1>4, OthersStay
<1>5. ASSUME ~Step(w), Tick \/ Enqueue PROVE Drains(w)
  BY <1>2, <1>5 DEF Tick, Enqueue, Queue!Tick, Queue!Enqueue
<1> QED
  BY <1>1, <1>3, <1>4, <1>5 DEF Next, RequestStop

(* The safety half of StopDrains, for any number of loops and jobs.        *)
THEOREM StopGoesDownhill == Spec => [][\A w \in Worker : stop[w] => Drains(w)]_vars
<1>1. LoopInv /\ TypeOK' /\ [Next]_vars => [\A w \in Worker : stop[w] => Drains(w)]_vars
  BY DrainStep
<1> QED
  BY <1>1, LoopInvariant, TypeCorrect, PTL DEF Spec

-----------------------------------------------------------------------------
(* What OfferedIsTakenByLiveWorker rests on: a cycle serves what it lists. *)

(* The environment whose turn it is.                                       *)
FirstOf(list) == CHOOSE e \in list : \A f \in list : e <= f

(* A claim under way is of the environment whose turn it is, and between   *)
(* two cycles there is no list.                                            *)
InTurn(w) ==
  /\ pc[w] = "claim" => /\ envelope[w].job \in Job
                        /\ EnvironmentOf[envelope[w].job] = FirstOf(cycle[w])
  /\ pc[w] \in {"polling", "stopped"} => cycle[w] = {}

LEMMA TurnStep ==
  ASSUME TypeOK, [Next]_vars, NEW w \in Worker, InTurn(w)
  PROVE  InTurn(w)'
<1>0. /\ DOMAIN pc = Worker /\ DOMAIN envelope = Worker /\ DOMAIN cycle = Worker
  BY DEF TypeOK, Queue!TypeOK
<1>1. ASSUME pc'[w] = pc[w], envelope'[w] = envelope[w], cycle'[w] = cycle[w] PROVE InTurn(w)'
  BY <1>1 DEF InTurn
<1>2. ASSUME pc'[w] # "claim", pc'[w] \in {"polling", "stopped"} => cycle'[w] = {}
      PROVE  InTurn(w)'
  BY <1>2 DEF InTurn
<1>3. ASSUME NEW v \in Worker, v # w, Step(v) \/ RequestStop(v) \/ Kill(v) PROVE InTurn(w)'
  <2>1. cycle'[w] = cycle[w]
    BY <1>0, <1>3
    DEF Step, RequestStop, Kill, Dies, Stop, StartCycle, EndCycle, Claim, ClaimCommit,
        NothingToClaim, HeartbeatCheck, HeartbeatCommit, HandlerEnds, LeaseFoundLost,
        LastCheck, JobClosed, LoopDies
  <2> QED
    BY <1>1, <1>3, <2>1, OthersStay
<1>4. CASE Claim(w)
  <2>1. PICK j \in Job : Queue!ClaimSelect(w, Current(w), j)
    BY <1>4 DEF Claim
  <2>2. envelope'[w].job = j /\ EnvironmentOf[j] = Current(w)
    BY <1>0, <2>1 DEF Queue!ClaimSelect, Queue!Eligible
  <2>3. Current(w) = FirstOf(cycle[w]) /\ cycle' = cycle
    BY <1>4 DEF Claim, Current, FirstOf
  <2>4. pc'[w] = "claim"
    BY <1>0, <1>4 DEF Claim, Goto
  <2> QED
    BY <2>2, <2>3, <2>4 DEF InTurn
<1>5. CASE \/ Stop(w) \/ StartCycle(w) \/ EndCycle(w) \/ ClaimCommit(w) \/ NothingToClaim(w)
           \/ HandlerEnds(w) \/ LeaseFoundLost(w) \/ LoopDies(w) \/ Kill(w) \/ JobClosed(w)
           \/ HeartbeatCheck(w) \/ LastCheck(w)
  <2>1. pc'[w] # "claim" /\ (pc'[w] \in {"polling", "stopped"} => cycle'[w] = {})
    BY <1>0, <1>5
    DEF InTurn, Stop, StartCycle, EndCycle, ClaimCommit, NothingToClaim, AtNextEnvironment,
        HandlerEnds, LeaseFoundLost, LoopDies, Kill, Dies, JobClosed, HeartbeatCheck,
        LastCheck, Goto, Raised
  <2> QED
    BY <1>2, <2>1
<1>6. CASE HeartbeatCommit(w) \/ RequestStop(w)
  BY <1>1, <1>6 DEF HeartbeatCommit, Queue!HeartbeatCommit, RequestStop, queueVars
<1>7. CASE Tick \/ Enqueue \/ UNCHANGED vars
  BY <1>1, <1>7 DEF Tick, Queue!Tick, Enqueue, Queue!Enqueue, vars, queueVars
<1> QED
  BY <1>3, <1>4, <1>5, <1>6, <1>7 DEF Next, Step

(* An environment comes off a list only when it is served.                 *)
LEMMA ServedStep ==
  ASSUME TypeOK, [Next]_vars, NEW w \in Worker, InTurn(w),
         NEW e \in cycle[w], e \notin cycle'[w]
  PROVE  Served(w, e)
<1>0. /\ DOMAIN pc = Worker /\ DOMAIN cycle = Worker /\ jobs \in [Job -> Queue!Row]
      /\ cycle \in [Worker -> SUBSET Environment]
  BY DEF TypeOK, Queue!TypeOK
<1>a. Current(w) = FirstOf(cycle[w])
  BY DEF Current, FirstOf
<1>1. CASE ClaimCommit(w)
  <2>1. e = Current(w)
    BY <1>0, <1>1 DEF ClaimCommit
  <2>2. envelope[w].job \in Job /\ EnvironmentOf[envelope[w].job] = e
    BY <1>1, <1>a, <2>1 DEF InTurn, ClaimCommit
  <2>3. jobs'[envelope[w].job].status = "leased" /\ jobs'[envelope[w].job].lease_owner = w
    BY <1>0, <1>1, <2>2
    DEF ClaimCommit, Queue!ClaimCommit, Queue!Leased, Queue!Renewed, Queue!Row
  <2> QED
    BY <2>2, <2>3 DEF Served
<1>2. CASE NothingToClaim(w)
  <2>1. e = Current(w)
    BY <1>0, <1>2 DEF NothingToClaim
  <2> QED
    BY <1>2, <2>1 DEF NothingToClaim, Queue!ClaimNothing, Served
<1>3. CASE EndCycle(w)
  BY <1>3 DEF EndCycle, Served
<1>4. CASE LoopDies(w) \/ Kill(w)
  BY <1>0, <1>4 DEF LoopDies, Kill, Dies, Goto, Served
<1>5. CASE StartCycle(w)
  BY <1>5 DEF StartCycle, InTurn
<1>6. CASE cycle'[w] = cycle[w]
  BY <1>6
<1>7. ASSUME NEW v \in Worker, v # w, Step(v) \/ RequestStop(v) \/ Kill(v)
      PROVE  cycle'[w] = cycle[w]
  BY <1>0, <1>7
  DEF Step, RequestStop, Kill, Dies, Stop, StartCycle, EndCycle, Claim, ClaimCommit,
      NothingToClaim, HeartbeatCheck, HeartbeatCommit, HandlerEnds, LeaseFoundLost,
      LastCheck, JobClosed, LoopDies
<1>8. CASE \/ Stop(w) \/ Claim(w) \/ HeartbeatCheck(w) \/ HeartbeatCommit(w) \/ HandlerEnds(w)
           \/ LeaseFoundLost(w) \/ LastCheck(w) \/ JobClosed(w) \/ RequestStop(w)
  BY <1>6, <1>8 DEF Stop, Claim, HeartbeatCheck, HeartbeatCommit, HandlerEnds,
                    LeaseFoundLost, LastCheck, JobClosed, RequestStop
<1>9. CASE Tick \/ Enqueue \/ UNCHANGED vars
  BY <1>6, <1>9 DEF Tick, Enqueue, vars
<1> QED
  BY <1>1, <1>2, <1>3, <1>4, <1>5, <1>6, <1>7, <1>8, <1>9 DEF Next, Step

(* Only the start of a cycle leads from run_forever's loop into one.       *)
LEMMA CycleStarts ==
  ASSUME LoopInv, [Next]_vars, NEW w \in Worker, pc[w] = "polling", pc'[w] = "cycle"
  PROVE  StartCycle(w)
<1>0. TypeOK /\ pc \in [Worker -> PC] /\ Queue!Idle(w)
  BY DEF LoopInv, TypeOK, Settled
<1>1. ASSUME NEW v \in Worker, v # w, Step(v) \/ RequestStop(v) \/ Kill(v) PROVE FALSE
  BY <1>0, <1>1, OthersStay
<1>2. ASSUME JobClosed(w) PROVE FALSE
  BY <1>0, <1>2 DEF JobClosed, Queue!CompleteCommit, Queue!AbandonCommit,
                    Queue!DeadLetterCommit, Queue!Burying, Queue!Writing, Queue!Idle
<1>3. CASE (Step(w) /\ ~JobClosed(w)) \/ RequestStop(w) \/ Kill(w)
  BY <1>0, <1>3
  DEF Step, RequestStop, Kill, Dies, Goto, Stop, EndCycle, Claim, ClaimCommit,
      AtNextEnvironment, NothingToClaim, HeartbeatCheck, HeartbeatCommit, HandlerEnds,
      LeaseFoundLost, LastCheck, LoopDies, Raised
<1>4. CASE Tick \/ Enqueue \/ UNCHANGED vars
  BY <1>4 DEF Tick, Enqueue, vars
<1> QED
  BY <1>1, <1>2, <1>3, <1>4 DEF Next

(* A cycle lists every environment in which the queue offers something,    *)
(* and strikes one off only with a job of it leased, or because all that   *)
(* it still offered was being claimed, or at the end of the loop: for any  *)
(* environments, jobs and workers, no environment is skipped, however      *)
(* stale the list has become.                                              *)
THEOREM CyclesServeTheirLists == Spec => EnvironmentsServed
<1> DEFINE Listed == \A w \in Worker :
             /\ pc[w] = "polling" /\ pc'[w] = "cycle" =>
                  \A j \in Job : Queue!Claimable(j) => EnvironmentOf[j] \in cycle'[w]
             /\ \A e \in cycle[w] \ cycle'[w] : Served(w, e)
<1>1. Init => \A w \in Worker : InTurn(w)
  BY DEF Init, InTurn
<1>2. TypeOK /\ (\A w \in Worker : InTurn(w)) /\ [Next]_vars => (\A w \in Worker : InTurn(w))'
  BY TurnStep
<1>3. ASSUME TypeOK, NEW w \in Worker, StartCycle(w), NEW j \in Job, Queue!Claimable(j)
      PROVE  EnvironmentOf[j] \in cycle'[w]
  BY <1>3 DEF StartCycle, ClaimableEnvironments, TypeOK
<1>4. LoopInv /\ (\A w \in Worker : InTurn(w)) /\ [Next]_vars => [Listed]_vars
  BY <1>3, CycleStarts, ServedStep DEF LoopInv
<1> HIDE DEF Listed
<1>5. Spec => [][Listed]_vars
  BY <1>1, <1>2, <1>4, TypeCorrect, LoopInvariant, PTL DEF Spec
<1> QED
  BY <1>5 DEF Listed, EnvironmentsServed

-----------------------------------------------------------------------------
(* What the violations of AttemptsBounded and OfferedIsTaken come from:    *)
(* handlers that outlive their leases, and workers that are killed.        *)

(* With short transactions, what an open one has read still holds.         *)
ReadsHold ==
  \A w \in Worker : ~Queue!Idle(w) =>
    /\ envelope[w].job \in Job /\ txn[w].at = now
    /\ IF txn[w].op = "claim" THEN Queue!Claimable(envelope[w].job)
                              ELSE Queue!OwnsLease(w, envelope[w].job)

LEMMA ShortReads ==
  ASSUME Stall = FALSE
  PROVE  Spec => [](ReadsHold /\ Queue!DeadLettersAgree)
<1>1. QP!ShortInv => ReadsHold
  BY DEF QP!ShortInv, QP!ClaimInv, QP!TxnsOpen, QP!ChecksHold, QP!CheckStillHolds, ReadsHold,
         QP!Idle, Queue!Idle, QP!OwnsLease, Queue!OwnsLease, QP!Claimable,
         Queue!Claimable, QP!Lapsed, Queue!Lapsed, QP!NoTime, Queue!NoTime
<1>2. QP!ShortInv => Queue!DeadLettersAgree
  BY DEF QP!ShortInv, QP!DeadLettersAgree, Queue!DeadLettersAgree, QP!NoRow, Queue!NoRow
<1>3. QP!Spec => []QP!ShortInv
  BY QP!ShortInvariant
<1> QED
  BY <1>1, <1>2, <1>3, SpecIsQueue, PTL

(* A handler that renews in time owns its lease from claim to last call.   *)
Timely(w) == pc[w] \in AtWork => Queue!OwnsLease(w, envelope[w].job)

(* The holder's own steps. *)
LEMMA OwnStepTimely ==
  ASSUME TypeOK, ReadsHold, NEW w \in Worker, Settled(w), Timely(w),
         Step(w) \/ RequestStop(w) \/ Kill(w)
  PROVE  Timely(w)'
<1> USE DEF Timely, Queue!OwnsLease
<1>0. /\ pc[w] \in PC /\ DOMAIN pc = Worker /\ DOMAIN txn = Worker /\ DOMAIN envelope = Worker
      /\ jobs \in [Job -> Queue!Row] /\ now \in Nat
  BY DEF TypeOK, Queue!TypeOK
<1>1. CASE ClaimCommit(w)
  <2>1. envelope[w].job \in Job /\ txn[w].at = now
    BY <1>1 DEF ReadsHold, ClaimCommit, Queue!ClaimCommit, Queue!Idle
  <2>2. jobs'[envelope[w].job] = Queue!Leased(jobs[envelope[w].job], w, txn[w].attempt, now)
    BY <1>0, <1>1, <2>1 DEF ClaimCommit, Queue!ClaimCommit
  <2>3. Queue!OwnsLease(w, envelope[w].job)'
    BY <1>0, <1>1, <2>1, <2>2
    DEF ClaimCommit, Queue!ClaimCommit, Queue!Leased, Queue!Renewed, Queue!Row
  <2> QED
    BY <2>3
<1>2. CASE HeartbeatCommit(w)
  <2>1. envelope[w].job \in Job /\ txn[w].at = now /\ Queue!OwnsLease(w, envelope[w].job)
    BY <1>2 DEF ReadsHold, HeartbeatCommit, Queue!HeartbeatCommit, Queue!Writing, Queue!Idle
  <2>2. PICK t \in now .. now :
          jobs' = [jobs EXCEPT ![envelope[w].job] = Queue!Renewed(@, t)]
    BY <1>2, <2>1 DEF HeartbeatCommit, Queue!HeartbeatCommit, Queue!WriteTimes
  <2>3. t = now
    BY <1>0, <2>2
  <2>4. jobs'[envelope[w].job] = Queue!Renewed(jobs[envelope[w].job], now)
    BY <1>0, <2>1, <2>2, <2>3
  <2>5. Queue!OwnsLease(w, envelope[w].job)'
    BY <1>0, <1>2, <2>1, <2>4
    DEF HeartbeatCommit, Queue!HeartbeatCommit, Queue!Renewed, Queue!Row
  <2> QED
    BY <2>5
<1>3. CASE JobClosed(w) \/ LoopDies(w) \/ Kill(w)
  BY <1>0, <1>3 DEF JobClosed, LoopDies, Kill, Dies, Goto, AtWork, Raised
<1>4. CASE Stop(w) \/ StartCycle(w) \/ EndCycle(w) \/ Claim(w) \/ NothingToClaim(w)
  BY <1>0, <1>4 DEF Stop, StartCycle, EndCycle, Claim, NothingToClaim, AtNextEnvironment,
                    Goto, AtWork, Raised
<1>5. CASE HeartbeatCheck(w) \/ LastCheck(w)
  BY <1>0, <1>5 DEF HeartbeatCheck, LastCheck, Queue!CheckLease
<1>6. CASE HandlerEnds(w) \/ LeaseFoundLost(w) \/ RequestStop(w)
  <2>1. UNCHANGED <<jobs, envelope, now>> /\ (pc'[w] \in AtWork => pc[w] \in AtWork)
    BY <1>0, <1>6 DEF HandlerEnds, LeaseFoundLost, RequestStop, Goto, queueVars, AtWork
  <2> QED
    BY <2>1
<1> QED
  BY <1>1, <1>2, <1>3, <1>4, <1>5, <1>6 DEF Step

(* Another worker's steps: what it writes is not a row with an owner.      *)
LEMMA OthersStepTimely ==
  ASSUME TypeOK, ReadsHold, NEW w \in Worker, Timely(w), pc[w] \in AtWork, ~Queue!Free(w),
         NEW v \in Worker, v # w, Step(v) \/ RequestStop(v) \/ Kill(v)
  PROVE  Timely(w)'
<1> DEFINE j == envelope[w].job
<1>0. /\ j \in Job /\ jobs \in [Job -> Queue!Row] /\ now \in Nat
      /\ Queue!OwnsLease(w, j)
  BY DEF TypeOK, Queue!TypeOK, Queue!Free, Timely
<1>1. envelope'[w] = envelope[w]
  BY OthersStay
<1>2. now' = now
  BY DEF Step, RequestStop, Kill, queueVars, Stop, StartCycle, EndCycle, Claim, ClaimCommit,
         NothingToClaim, HeartbeatCheck, HeartbeatCommit, HandlerEnds, LeaseFoundLost,
         LastCheck, JobClosed, LoopDies, Queue!ClaimSelect, Queue!ClaimCommit,
         Queue!ClaimNothing, Queue!vars, Queue!CheckLease, Queue!HeartbeatCommit,
         Queue!CompleteCommit, Queue!AbandonCommit, Queue!DeadLetterCommit,
         Queue!LeaseLost, Queue!DeadLetterConflict, Queue!Crash
<1>3. ~Queue!Idle(v) => envelope[v].job # j
  <2>1. ~Queue!Claimable(j)
    BY <1>0 DEF Queue!Claimable, Queue!OwnsLease, Queue!Lapsed, Queue!Row, Queue!NoTime
  <2>2. ~Queue!OwnsLease(v, j)
    BY <1>0 DEF Queue!OwnsLease
  <2> QED
    BY <2>1, <2>2 DEF ReadsHold
<1>4. jobs'[j] = jobs[j]
  <2>1. CASE jobs' = jobs
    BY <2>1
  <2>2. CASE ClaimCommit(v) \/ HeartbeatCommit(v)
    BY <1>0, <1>3, <2>2
    DEF ClaimCommit, HeartbeatCommit, Queue!ClaimCommit, Queue!HeartbeatCommit,
        Queue!Writing, Queue!Idle
  <2>3. CASE JobClosed(v)
    <3>1. ~Queue!Idle(v)
      BY <2>3 DEF JobClosed, Queue!CompleteCommit, Queue!AbandonCommit,
                  Queue!DeadLetterCommit, Queue!Burying, Queue!Writing, Queue!Idle
    <3> QED
      BY <1>0, <1>3, <2>3, <3>1, ClosedRow
  <2> QED
    BY <2>1, <2>2, <2>3
    DEF Step, RequestStop, Kill, queueVars, Stop, StartCycle, EndCycle, Claim,
        NothingToClaim, HeartbeatCheck, HandlerEnds, LeaseFoundLost, LastCheck, LoopDies,
        Queue!ClaimSelect, Queue!ClaimNothing, Queue!vars, Queue!CheckLease,
        Queue!LeaseLost, Queue!DeadLetterConflict, Queue!Crash
<1> QED
  BY <1>0, <1>1, <1>2, <1>4 DEF Timely, Queue!OwnsLease

LEMMA TimelyStep ==
  ASSUME Overrun = FALSE, LoopInv, ReadsHold, \A w \in Worker : Timely(w), [Next]_vars,
         NEW w \in Worker
  PROVE  Timely(w)'
<1>0. TypeOK /\ Settled(w)
  BY DEF LoopInv
<1>1. ASSUME NEW v \in Worker, Step(v) \/ RequestStop(v) \/ Kill(v) PROVE Timely(w)'
  <2>1. CASE v = w
    BY <1>0, <1>1, <2>1, OwnStepTimely
  <2>2. CASE v # w /\ pc[w] \in AtWork
    BY <1>0, <1>1, <2>2, OthersStepTimely DEF Settled
  <2>3. CASE v # w /\ pc[w] \notin AtWork
    BY <1>0, <1>1, <2>3, OthersStay DEF Timely
  <2> QED
    BY <2>1, <2>2, <2>3
<1>2. CASE Tick
  <2>1. pc[w] \in AtWork => jobs[envelope[w].job].lease_expires_at > now + 1
    BY <1>0, <1>2 DEF Tick, InTime, Settled
  <2> QED
    BY <1>2, <2>1 DEF Tick, Queue!Tick, Timely, Queue!OwnsLease
<1>3. CASE Enqueue
  <2>1. PICK j \in Job : Queue!Enqueue(j)
    BY <1>3 DEF Enqueue
  <2>2. \A i \in Job : jobs[i].status = "leased" => jobs'[i] = jobs[i]
    BY <1>0, <2>1 DEF Queue!Enqueue, TypeOK, Queue!TypeOK
  <2>3. pc[w] \in AtWork => envelope[w].job \in Job
    BY <1>0 DEF Settled, Queue!Free, TypeOK, Queue!TypeOK
  <2> QED
    BY <1>3, <2>1, <2>2, <2>3 DEF Enqueue, Queue!Enqueue, Timely, Queue!OwnsLease
<1>4. CASE UNCHANGED vars
  BY <1>4 DEF vars, queueVars, Timely, Queue!OwnsLease
<1> QED
  BY <1>1, <1>2, <1>3, <1>4 DEF Next

LEMMA AlwaysTimely ==
  ASSUME Stall = FALSE, Overrun = FALSE
  PROVE  Spec => [](\A w \in Worker : Timely(w))
<1>1. Init => \A w \in Worker : Timely(w)
  BY DEF Init, Timely, AtWork, Raised
<1>2. LoopInv /\ ReadsHold /\ (\A w \in Worker : Timely(w)) /\ [Next]_vars
        => (\A w \in Worker : Timely(w))'
  BY TimelyStep
<1> QED
  BY <1>1, <1>2, LoopInvariant, ShortReads, PTL DEF Spec

(* The only cause of what OfferedIsTaken runs into.  As long as handlers   *)
(* renew their leases in time, run_once's except clauses do not raise:     *)
(* a loop that is dead was killed.                                         *)
THEOREM LoopsDieOfOverrunsOnly ==
  ASSUME Stall = FALSE, Overrun = FALSE
  PROVE  Spec => [](\A w \in Worker : pc[w] = "dead" => w \in Mortal)
<1> DEFINE Killed == \A w \in Worker : pc[w] = "dead" => w \in Mortal
<1>1. Init => Killed
  BY DEF Init
<1>2. ASSUME LoopInv, ReadsHold, Queue!DeadLettersAgree, \A w \in Worker : Timely(w),
             NEW w \in Worker
      PROVE  ~LoopDies(w)
  <2> SUFFICES ASSUME LoopDies(w) PROVE FALSE
    OBVIOUS
  <2>1. Queue!OwnsLease(w, envelope[w].job)
    BY <1>2 DEF LoopDies, Timely, AtWork
  <2>2. CASE Queue!LeaseLost(w)
    BY <2>1, <2>2 DEF Queue!LeaseLost
  <2>3. CASE Queue!DeadLetterConflict(w)
    <3>1. envelope[w].job \in Job
      BY <1>2, <2>3 DEF ReadsHold, Queue!DeadLetterConflict, Queue!Burying, Queue!Writing,
                        Queue!Idle
    <3> QED
      BY <1>2, <2>1, <2>3, <3>1
      DEF Queue!DeadLetterConflict, Queue!DeadLettersAgree, Queue!OwnsLease
  <2> QED
    BY <2>2, <2>3 DEF LoopDies
<1>3. ASSUME LoopInv, \A w \in Worker : ~LoopDies(w), Killed, [Next]_vars
      PROVE  Killed'
  <2>0. pc \in [Worker -> PC]
    BY <1>3 DEF LoopInv, TypeOK
  <2>1. CASE pc' = pc
    BY <1>3, <2>1
  <2>2. ASSUME NEW v \in Worker, Kill(v) PROVE Killed'
    BY <1>3, <2>0, <2>2 DEF Kill, Dies, Goto
  <2>3. ASSUME NEW v \in Worker, NEW l, l # "dead", Goto(v, l) PROVE Killed'
    BY <1>3, <2>0, <2>3 DEF Goto
  <2> QED
    BY <1>3, <2>1, <2>2, <2>3
    DEF Next, vars, Tick, Enqueue, Step, RequestStop, Stop, StartCycle, EndCycle, Claim,
        ClaimCommit, NothingToClaim, HeartbeatCheck, HeartbeatCommit, HandlerEnds,
        LeaseFoundLost, LastCheck, JobClosed, Raised
<1>4. LoopInv /\ ReadsHold /\ Queue!DeadLettersAgree /\ (\A w \in Worker : Timely(w))
        => \A w \in Worker : ~LoopDies(w)
  BY <1>2
<1>5. LoopInv /\ (\A w \in Worker : ~LoopDies(w)) /\ Killed /\ [Next]_vars => Killed'
  BY <1>3
<1> HIDE DEF Killed
<1>6. Spec => []Killed
  BY <1>1, <1>4, <1>5, LoopInvariant, ShortReads, AlwaysTimely, PTL DEF Spec
<1> QED
  BY <1>6 DEF Killed

(* The only causes of what AttemptsBounded runs into.  Where no worker is  *)
(* killed and no handler overruns, a row leased to somebody is owned by a  *)
(* loop at work on it, no lease ever lapses, and the retry policy holds.   *)
THEOREM TimelyLoopsKeepBudget ==
  ASSUME Stall = FALSE, Overrun = FALSE, Mortal = {}
  PROVE  Spec => []Queue!AttemptsBounded
<1>1. ASSUME LoopInv, Queue!LeaseIsRecoverable, \A w \in Worker : Timely(w),
             \A w \in Worker : pc[w] = "dead" => w \in Mortal
      PROVE  QP!InTime
  <2> SUFFICES ASSUME NEW j \in Job, jobs[j].status = "leased"
               PROVE  ~QP!Lapsed(jobs[j], now)
    BY DEF QP!InTime
  <2>1. PICK w \in Worker : jobs[j].lease_owner = w
    BY <1>1 DEF Queue!LeaseIsRecoverable
  <2>2. pc[w] \in AtWork /\ envelope[w].job = j
    BY <1>1, <2>1 DEF LoopInv, InHand
  <2>3. jobs[j].lease_expires_at > now
    BY <1>1, <2>2 DEF Timely, Queue!OwnsLease
  <2>4. jobs[j] \in Queue!Row /\ now \in Nat
    BY <1>1 DEF LoopInv, TypeOK, Queue!TypeOK
  <2> QED
    BY <2>3, <2>4 DEF QP!Lapsed, QP!NoTime, Queue!Row, Queue!NoTime
<1>2. LoopInv /\ Queue!LeaseIsRecoverable /\ (\A w \in Worker : Timely(w))
        /\ (\A w \in Worker : pc[w] = "dead" => w \in Mortal)
        => QP!InTime
  BY <1>1
<1>3. Spec => []QP!InTime
  BY <1>2, LoopInvariant, LoopsKeepQueueSafe, AlwaysTimely, LoopsDieOfOverrunsOnly, PTL
<1>4. QP!Spec /\ []QP!InTime => []QP!AttemptsBounded
  BY QP!AttemptsBoundedInTime
<1>5. QP!AttemptsBounded => Queue!AttemptsBounded
  BY DEF QP!AttemptsBounded, Queue!AttemptsBounded
<1> QED
  BY <1>3, <1>4, <1>5, SpecIsQueue, PTL

=============================================================================
