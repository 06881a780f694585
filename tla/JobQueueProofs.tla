--------------------------- MODULE JobQueueProofs ---------------------------
(***************************************************************************)
(* Proofs about JobQueue.  The first part holds for every value of the     *)
(* constants; the second assumes Stall = FALSE, that a transaction is      *)
(* short against the clock.                                                *)
(***************************************************************************)
EXTENDS JobQueue, TLAPS

USE JobAssumption, WorkerAssumption, NumberAssumption, StallAssumption

(* The row operators return rows. *)
LEMMA RowTypes ==
  ASSUME NEW r \in Row, NEW w \in Worker, NEW n \in Nat, NEW t \in Nat,
         NEW s \in Status
  PROVE  /\ QueuedRow(t) \in Row
         /\ Leased(r, w, n, t) \in Row
         /\ Renewed(r, t) \in Row
         /\ Unleased(r, s) \in Row
         /\ Requeued(r, t) \in Row
<1> USE DEF Row, Status, Terminal, NoTime
<1>1. QueuedRow(t) \in Row
  BY DEF QueuedRow, AbsentRow
<1>2. Leased(r, w, n, t) \in Row
  <2>1. Renewed(r, t) \in Row
    BY DEF Renewed
  <2> QED
    BY <2>1 DEF Leased
<1>3. Renewed(r, t) \in Row
  BY DEF Renewed
<1>4. Unleased(r, s) \in Row
  BY DEF Unleased
<1>5. Requeued(r, t) \in Row
  BY DEF Requeued, Unleased
<1> QED
  BY <1>1, <1>2, <1>3, <1>4, <1>5

(* Replacing a row by a row leaves a table of rows, also when the key is   *)
(* no job and nothing is replaced.                                         *)
LEMMA TableType ==
  ASSUME NEW f \in [Job -> Row], NEW g, NEW j, NEW r,
         g = [f EXCEPT ![j] = r], j \in Job => r \in Row
  PROVE  g \in [Job -> Row]
OBVIOUS

(* Every step keeps the types: the columns of the rows, the envelopes and  *)
(* the open transactions.                                                  *)
LEMMA TypeStep == TypeOK /\ [Next]_vars => TypeOK'
<1> SUFFICES ASSUME TypeOK, [Next]_vars PROVE TypeOK'
  OBVIOUS
<1> USE DEF TypeOK, Status, Terminal, LeaseOp
<1>a. \A w \in Worker : envelope[w].job \in Job => jobs[envelope[w].job] \in Row
  OBVIOUS
<1>1. CASE Tick
  BY <1>1 DEF Tick
<1>2. ASSUME NEW j \in Job, Enqueue(j) PROVE TypeOK'
  <2>1. QueuedRow(now) \in Row
    BY RowTypes DEF QueuedRow, AbsentRow, Row, NoTime
  <2> QED
    BY <1>2, <2>1, TableType DEF Enqueue
<1>3. ASSUME NEW w \in Worker, NEW e \in Environment, NEW j \in Job,
             ClaimSelect(w, e, j)
      PROVE TypeOK'
  <2>1. jobs[j].attempt + 1 \in Nat
    BY DEF Row
  <2> QED
    BY <1>3, <2>1 DEF ClaimSelect
<1>4. ASSUME NEW w \in Worker, ClaimCommit(w) PROVE TypeOK'
  <2>1. jobs' \in [Job -> Row]
    BY <1>4, <1>a, RowTypes, TableType DEF ClaimCommit
  <2> QED
    BY <1>4, <2>1 DEF ClaimCommit, NoTxn
<1>5. ASSUME NEW w \in Worker, NEW e \in Environment, ClaimNothing(w, e) PROVE TypeOK'
  BY <1>5 DEF ClaimNothing, vars
<1>6. ASSUME NEW w \in Worker, NEW op \in LeaseOp, CheckLease(w, op) PROVE TypeOK'
  <2>1. jobs[envelope[w].job].attempt \in Nat
    BY <1>6 DEF CheckLease, Free, Row
  <2> QED
    BY <1>6, <2>1 DEF CheckLease
<1>7. ASSUME NEW w \in Worker, LeaseLost(w) PROVE TypeOK'
  BY <1>7 DEF LeaseLost, NoEnvelope
<1>8. ASSUME NEW w \in Worker, HeartbeatCommit(w) PROVE TypeOK'
  <2>1. PICK t \in WriteTimes(w) :
          jobs' = [jobs EXCEPT ![envelope[w].job] = Renewed(@, t)]
    BY <1>8 DEF HeartbeatCommit
  <2>2. t \in Nat
    BY DEF WriteTimes
  <2>3. jobs' \in [Job -> Row]
    BY <1>a, <2>1, <2>2, RowTypes, TableType
  <2> QED
    BY <1>8, <2>3 DEF HeartbeatCommit, NoTxn
<1>9. ASSUME NEW w \in Worker, CompleteCommit(w) PROVE TypeOK'
  <2>1. jobs' \in [Job -> Row]
    BY <1>9, <1>a, RowTypes, TableType DEF CompleteCommit
  <2> QED
    BY <1>9, <2>1 DEF CompleteCommit, LetGo, NoTxn, NoEnvelope
<1>10. ASSUME NEW w \in Worker, NEW d \in Delays, AbandonCommit(w, d) PROVE TypeOK'
  <2>1. PICK t \in WriteTimes(w) :
          jobs' = [jobs EXCEPT ![envelope[w].job] = Requeued(@, t + d)]
    BY <1>10 DEF AbandonCommit
  <2>2. t + d \in Nat
    BY DEF WriteTimes
  <2>3. jobs' \in [Job -> Row]
    BY <1>a, <2>1, <2>2, RowTypes, TableType
  <2> QED
    BY <1>10, <2>3 DEF AbandonCommit, LetGo, NoTxn, NoEnvelope
<1>11. ASSUME NEW w \in Worker, DeadLetterCommit(w) PROVE TypeOK'
  <2>1. jobs' \in [Job -> Row]
    BY <1>11, <1>a, RowTypes, TableType DEF DeadLetterCommit
  <2> QED
    BY <1>11, <2>1 DEF DeadLetterCommit, LetGo, NoTxn, NoEnvelope
<1>12. ASSUME NEW w \in Worker, DeadLetterConflict(w) PROVE TypeOK'
  BY <1>12 DEF DeadLetterConflict, LetGo, NoTxn, NoEnvelope
<1>13. ASSUME NEW w \in Worker, Crash(w) PROVE TypeOK'
  BY <1>13 DEF Crash, LetGo, NoTxn, NoEnvelope
<1>14. CASE UNCHANGED vars
  BY <1>14 DEF vars
<1> QED
  BY <1>1, <1>2, <1>3, <1>4, <1>5, <1>6, <1>7, <1>8, <1>9, <1>10, <1>11,
     <1>12, <1>13, <1>14 DEF Next, WorkerStep

LEMMA TypeCorrectInit == Init => TypeOK
BY DEF Init, TypeOK, Row, Status, AbsentRow, NoEnvelope, NoTxn, NoTime, NoRow

(* The variables keep their types in every behaviour of the queue. *)
THEOREM TypeCorrect == Spec => []TypeOK
<1> QED
  BY TypeCorrectInit, TypeStep, PTL DEF Spec

-----------------------------------------------------------------------------
(* The first inductive invariant, for every value of the constants: an     *)
(* open transaction belongs to an envelope, claims exclude each other by   *)
(* row locks, and an envelope's attempt number was drawn from its row.     *)

TxnsOpen ==
  \A w \in Worker : ~Idle(w) => envelope[w].job \in Job /\ txn[w].at <= now

ClaimsExclusive ==
  \A v, w \in Worker :
    /\ txn[v].op = "claim" /\ txn[w].op = "claim"
    /\ envelope[v].job = envelope[w].job
    => v = w

TicketsDrawn ==
  \A w \in Worker : ~Free(w) =>
    IF txn[w].op = "claim"
    THEN /\ envelope[w].attempt = jobs[envelope[w].job].attempt + 1
         /\ txn[w].attempt = envelope[w].attempt
    ELSE envelope[w].attempt <= jobs[envelope[w].job].attempt

AbsentUntouched ==
  \A j \in Job : jobs[j].status = "absent" => jobs[j].attempt = 0

ClaimInv == /\ TypeOK /\ AbsentUntouched /\ TxnsOpen
            /\ ClaimsExclusive /\ TicketsDrawn /\ AttemptHandedOnce

(* The columns the row operators set. *)
LEMMA RenewedFields ==
  ASSUME NEW r \in Row, NEW t \in Nat
  PROVE  /\ Renewed(r, t) \in Row
         /\ Renewed(r, t).status = r.status
         /\ Renewed(r, t).attempt = r.attempt
         /\ Renewed(r, t).lease_owner = r.lease_owner
         /\ Renewed(r, t).lease_expires_at = t + LeaseSeconds
BY DEF Renewed, Row

LEMMA LeasedFields ==
  ASSUME NEW r \in Row, NEW w \in Worker, NEW n \in Nat, NEW t \in Nat
  PROVE  /\ Leased(r, w, n, t).status = "leased"
         /\ Leased(r, w, n, t).attempt = n
         /\ Leased(r, w, n, t).lease_owner = w
         /\ Leased(r, w, n, t).lease_expires_at = t + LeaseSeconds
<1>1. /\ Renewed(r, t) \in Row
      /\ Renewed(r, t).lease_expires_at = t + LeaseSeconds
  BY RenewedFields
<1> QED
  BY <1>1 DEF Leased, Row

LEMMA RequeuedFields ==
  ASSUME NEW r \in Row, NEW t \in Nat
  PROVE  /\ Requeued(r, t).status = "queued"
         /\ Requeued(r, t).attempt = r.attempt
<1>1. Unleased(r, "queued") \in Row
  BY RowTypes DEF Unleased, Row, Status
<1>2. Unleased(r, "queued").attempt = r.attempt /\ Unleased(r, "queued").status = "queued"
  BY DEF Unleased, Row
<1> QED
  BY <1>1, <1>2 DEF Requeued, Row

(* What a step does to one row, and who does it. *)
Claims(w, j)   == /\ ClaimCommit(w) /\ envelope[w].job = j
                  /\ jobs'[j] = Leased(jobs[j], w, txn[w].attempt, txn[w].at)
Renews(w, j)   == /\ HeartbeatCommit(w) /\ envelope[w].job = j
                  /\ \E t \in WriteTimes(w) : jobs'[j] = Renewed(jobs[j], t)
Finishes(w, j) == /\ CompleteCommit(w) /\ envelope[w].job = j
                  /\ jobs'[j] = Unleased(jobs[j], "completed")
Requeues(w, j) == /\ \E d \in Delays : AbandonCommit(w, d)
                  /\ envelope[w].job = j
                  /\ \E t \in Nat : jobs'[j] = Requeued(jobs[j], t)
Buries(w, j)   == /\ DeadLetterCommit(w) /\ envelope[w].job = j
                  /\ jobs'[j] = Unleased(jobs[j], "dead_letter")

(* A row changes only by being inserted, or by the commit of the worker    *)
(* whose envelope names it.                                                *)
LEMMA RowStep ==
  ASSUME TypeOK, [Next]_vars, NEW j \in Job, jobs'[j] # jobs[j]
  PROVE  \/ Enqueue(j) /\ jobs'[j] = QueuedRow(now)
         \/ \E w \in Worker : \/ Claims(w, j) \/ Renews(w, j) \/ Finishes(w, j)
                             \/ Requeues(w, j) \/ Buries(w, j)
<1> USE DEF TypeOK
<1>1. CASE Tick
  BY <1>1 DEF Tick
<1>2. ASSUME NEW k \in Job, Enqueue(k)
      PROVE  Enqueue(j) /\ jobs'[j] = QueuedRow(now)
  BY <1>2 DEF Enqueue
<1>3. ASSUME NEW w \in Worker, NEW e \in Environment, NEW k \in Job,
             ClaimSelect(w, e, k)
      PROVE FALSE
  BY <1>3 DEF ClaimSelect
<1>4. ASSUME NEW w \in Worker, ClaimCommit(w) PROVE Claims(w, j)
  BY <1>4 DEF ClaimCommit, Claims
<1>5. ASSUME NEW w \in Worker, NEW e \in Environment, ClaimNothing(w, e) PROVE FALSE
  BY <1>5 DEF ClaimNothing, vars
<1>6. ASSUME NEW w \in Worker, NEW op \in LeaseOp, CheckLease(w, op) PROVE FALSE
  BY <1>6 DEF CheckLease
<1>7. ASSUME NEW w \in Worker, LeaseLost(w) PROVE FALSE
  BY <1>7 DEF LeaseLost
<1>8. ASSUME NEW w \in Worker, HeartbeatCommit(w) PROVE Renews(w, j)
  BY <1>8 DEF HeartbeatCommit, Renews
<1>9. ASSUME NEW w \in Worker, CompleteCommit(w) PROVE Finishes(w, j)
  BY <1>9 DEF CompleteCommit, Finishes
<1>10. ASSUME NEW w \in Worker, NEW d \in Delays, AbandonCommit(w, d) PROVE Requeues(w, j)
  <2>1. PICK t \in WriteTimes(w) :
          jobs' = [jobs EXCEPT ![envelope[w].job] = Requeued(@, t + d)]
    BY <1>10 DEF AbandonCommit
  <2>2. t + d \in Nat
    BY DEF WriteTimes
  <2>3. envelope[w].job = j /\ jobs'[j] = Requeued(jobs[j], t + d)
    BY <2>1
  <2> QED
    BY <1>10, <2>2, <2>3 DEF Requeues
<1>11. ASSUME NEW w \in Worker, DeadLetterCommit(w) PROVE Buries(w, j)
  BY <1>11 DEF DeadLetterCommit, Buries
<1>12. ASSUME NEW w \in Worker, DeadLetterConflict(w) PROVE FALSE
  BY <1>12 DEF DeadLetterConflict
<1>13. ASSUME NEW w \in Worker, Crash(w) PROVE FALSE
  BY <1>13 DEF Crash
<1>14. CASE UNCHANGED vars
  BY <1>14 DEF vars
<1> QED
  BY <1>1, <1>2, <1>3, <1>4, <1>5, <1>6, <1>7, <1>8, <1>9, <1>10, <1>11,
     <1>12, <1>13, <1>14 DEF Next, WorkerStep

(* A step changes at most one row. *)
LEMMA OneRow ==
  ASSUME TypeOK, [Next]_vars, NEW j \in Job, NEW k \in Job, j # k, jobs'[j] # jobs[j]
  PROVE  jobs'[k] = jobs[k]
<1> USE DEF TypeOK
<1>1. ASSUME NEW i \in Job, Enqueue(i) PROVE jobs'[k] = jobs[k]
  BY <1>1 DEF Enqueue
<1>2. ASSUME NEW w \in Worker,
             \/ ClaimCommit(w) \/ HeartbeatCommit(w) \/ CompleteCommit(w)
             \/ (\E d \in Delays : AbandonCommit(w, d)) \/ DeadLetterCommit(w)
      PROVE  jobs'[k] = jobs[k]
  <2>1. \/ envelope[w].job # k /\ jobs'[k] = jobs[k]
        \/ envelope[w].job # j /\ jobs'[j] = jobs[j]
    BY <1>2 DEF ClaimCommit, HeartbeatCommit, CompleteCommit, AbandonCommit,
       DeadLetterCommit
  <2> QED
    BY <2>1
<1> QED
  BY <1>1, <1>2, RowStep DEF Claims, Renews, Finishes, Requeues, Buries

(* A lease written by a claim or a heartbeat ends within one lease of now. *)
LEMMA RecoverableStep ==
  TypeOK /\ TxnsOpen /\ LeaseIsRecoverable /\ [Next]_vars => LeaseIsRecoverable'
<1> SUFFICES ASSUME TypeOK, TxnsOpen, LeaseIsRecoverable, [Next]_vars,
                    NEW j \in Job, jobs'[j].status = "leased"
             PROVE  /\ jobs'[j].lease_owner \in Worker
                    /\ jobs'[j].lease_expires_at \in 0 .. now' + LeaseSeconds
  BY DEF LeaseIsRecoverable
<1>a. now \in Nat /\ now' \in Nat /\ now' >= now /\ jobs[j] \in Row
  <2>1. now' = now \/ now' = now + 1
    BY DEF Next, WorkerStep, vars, Tick, Enqueue, ClaimSelect, ClaimCommit, ClaimNothing,
       CheckLease, LeaseLost, HeartbeatCommit, CompleteCommit, AbandonCommit,
       DeadLetterCommit, DeadLetterConflict, Crash
  <2> QED
    BY <2>1 DEF TypeOK
<1>1. CASE jobs'[j] = jobs[j]
  BY <1>1, <1>a DEF LeaseIsRecoverable
<1>2. CASE jobs'[j] = QueuedRow(now)
  BY <1>2 DEF QueuedRow, AbsentRow
<1>3. ASSUME NEW w \in Worker, Claims(w, j) PROVE
        /\ jobs'[j].lease_owner = w
        /\ jobs'[j].lease_expires_at = txn[w].at + LeaseSeconds
        /\ txn[w].at \in 0 .. now
  <2>1. txn[w].at \in 0 .. now /\ txn[w].attempt \in Nat /\ txn[w].at \in Nat
    BY <1>3 DEF Claims, ClaimCommit, TxnsOpen, TypeOK, Idle
  <2> QED
    BY <1>3, <1>a, <2>1, LeasedFields DEF Claims
<1>4. ASSUME NEW w \in Worker, Renews(w, j) PROVE
        /\ jobs'[j].lease_owner \in Worker
        /\ jobs'[j].lease_expires_at \in 0 .. now + LeaseSeconds
  <2>1. PICK t \in WriteTimes(w) : jobs'[j] = Renewed(jobs[j], t)
    BY <1>4 DEF Renews
  <2>2. t \in Nat /\ t <= now
    BY DEF WriteTimes, TypeOK
  <2>3. /\ jobs'[j].status = jobs[j].status
        /\ jobs'[j].lease_owner = jobs[j].lease_owner
        /\ jobs'[j].lease_expires_at = t + LeaseSeconds
    BY <2>1, <2>2, <1>a, RenewedFields
  <2> QED
    BY <2>2, <2>3, <1>a DEF LeaseIsRecoverable
<1>5. ASSUME NEW w \in Worker, Finishes(w, j) \/ Buries(w, j) PROVE FALSE
  BY <1>5, <1>a DEF Finishes, Buries, Unleased, Row
<1>6. ASSUME NEW w \in Worker, Requeues(w, j) PROVE FALSE
  BY <1>6, <1>a, RequeuedFields DEF Requeues
<1> QED
  BY <1>1, <1>2, <1>3, <1>4, <1>5, <1>6, <1>a, RowStep

(* Only the commit of a claim moves an attempt counter. *)
LEMMA AttemptStep ==
  ASSUME ClaimInv, [Next]_vars, NEW j \in Job
  PROVE  /\ \/ jobs'[j].attempt = jobs[j].attempt
            \/ \E w \in Worker : Claims(w, j) /\ jobs'[j].attempt = jobs[j].attempt + 1
         /\ jobs'[j].status = "absent" => jobs'[j].attempt = 0
<1> USE DEF ClaimInv
<1>a. jobs[j] \in Row
  BY DEF TypeOK
<1>1. CASE jobs'[j] = jobs[j]
  BY <1>1 DEF AbsentUntouched
<1>2. CASE Enqueue(j) /\ jobs'[j] = QueuedRow(now)
  BY <1>2 DEF Enqueue, QueuedRow, AbsentRow, AbsentUntouched
<1>3. ASSUME NEW w \in Worker, Claims(w, j)
      PROVE  /\ jobs'[j].attempt = jobs[j].attempt + 1
             /\ jobs'[j].status = "leased"
  <2>1. /\ txn[w].at \in Nat /\ txn[w].attempt \in Nat
        /\ txn[w].op = "claim" /\ envelope[w].job = j
    BY <1>3 DEF Claims, ClaimCommit, TypeOK
  <2>2. txn[w].attempt = jobs[j].attempt + 1
    BY <2>1, JobAssumption DEF TicketsDrawn, Free
  <2> QED
    BY <1>3, <1>a, <2>1, <2>2, LeasedFields DEF Claims
<1>4. ASSUME NEW w \in Worker, Renews(w, j) PROVE
        jobs'[j].attempt = jobs[j].attempt /\ jobs'[j].status = jobs[j].status
  BY <1>4, <1>a DEF Renews, Renewed, Row
<1>5. ASSUME NEW w \in Worker, Finishes(w, j) \/ Buries(w, j) PROVE
        jobs'[j].attempt = jobs[j].attempt /\ jobs'[j].status # "absent"
  BY <1>5, <1>a DEF Finishes, Buries, Unleased, Row
<1>6. ASSUME NEW w \in Worker, Requeues(w, j) PROVE
        jobs'[j].attempt = jobs[j].attempt /\ jobs'[j].status # "absent"
  BY <1>6, <1>a, RequeuedFields DEF Requeues
<1> QED
  BY <1>1, <1>2, <1>3, <1>4, <1>5, <1>6, RowStep DEF AbsentUntouched

(* The claim protocol: no attempt number is given out twice. *)
LEMMA ClaimStep ==
  ClaimInv /\ [Next]_vars => ClaimInv'
<1> SUFFICES ASSUME ClaimInv, [Next]_vars PROVE ClaimInv'
  OBVIOUS
<1> DEFINE Ready == (TxnsOpen /\ ClaimsExclusive /\ TicketsDrawn /\ AttemptHandedOnce)'
<1>a. TypeOK /\ TypeOK'
  BY TypeStep DEF ClaimInv
<1>b. AbsentUntouched'
  BY AttemptStep DEF AbsentUntouched
<1>c. \A j \in Job : jobs[j].attempt \in Nat /\ jobs'[j].attempt \in Nat
  BY <1>a DEF TypeOK, Row
<1>d. \A j \in Job : jobs'[j].attempt >= jobs[j].attempt
  BY <1>c, AttemptStep
<1>e. \A w \in Worker : envelope[w].attempt \in Nat /\ txn[w].at \in Nat
  BY <1>a DEF TypeOK
<1> USE DEF ClaimInv, TxnsOpen, ClaimsExclusive, TicketsDrawn, AttemptHandedOnce, Free, Idle
<1>1. ASSUME Tick PROVE Ready
  <2>1. now' = now + 1 /\ now \in Nat
    BY <1>1, <1>a DEF Tick, TypeOK
  <2> QED
    BY <1>1, <1>a, <1>b, <1>e, <2>1 DEF Tick
<1>2. ASSUME NEW j \in Job, Enqueue(j) PROVE Ready
  <2>1. QueuedRow(now).attempt = 0 /\ jobs[j].attempt = 0
    BY <1>2 DEF Enqueue, QueuedRow, AbsentRow, AbsentUntouched
  <2>2. \A k \in Job : jobs'[k].attempt = jobs[k].attempt
    BY <1>2, <1>a, <2>1 DEF Enqueue, TypeOK
  <2> QED
    BY <1>2, <1>a, <2>2 DEF Enqueue, TypeOK
<1>3. ASSUME NEW w \in Worker, NEW e \in Environment, NEW j \in Job,
             ClaimSelect(w, e, j)
      PROVE Ready
  <2>1. /\ envelope' = [envelope EXCEPT ![w] = [job |-> j, attempt |-> jobs[j].attempt + 1]]
        /\ txn' = [txn EXCEPT ![w] = [op |-> "claim", at |-> now,
                                     attempt |-> jobs[j].attempt + 1]]
        /\ now' = now /\ jobs' = jobs
    BY <1>3 DEF ClaimSelect
  <2>2. \A v \in Worker : envelope[v].job = j => txn[v].op # "claim"
    BY <1>3 DEF ClaimSelect, Eligible, Locked
  <2>3. \A v \in Worker : v # w => envelope'[v] = envelope[v] /\ txn'[v] = txn[v]
    BY <2>1, <1>a DEF TypeOK
  <2>4. /\ envelope'[w] = [job |-> j, attempt |-> jobs[j].attempt + 1]
        /\ txn'[w] = [op |-> "claim", at |-> now, attempt |-> jobs[j].attempt + 1]
    BY <2>1, <1>a DEF TypeOK
  <2>5. TxnsOpen'
    BY <2>1, <2>3, <2>4, <1>a DEF TypeOK
  <2>6. ClaimsExclusive'
    BY <2>2, <2>3, <2>4
  <2>7. TicketsDrawn'
    BY <2>1, <2>3, <2>4
  <2>8. AttemptHandedOnce'
    <3>1. \A v \in Worker : envelope[v].job = j => envelope[v].attempt <= jobs[j].attempt
      BY <2>2, JobAssumption
    <3> QED
      BY <3>1, <2>3, <2>4, <1>c, <1>e
  <2> QED
    BY <2>5, <2>6, <2>7, <2>8
<1>4. ASSUME NEW w \in Worker, ClaimCommit(w) PROVE Ready
  <2> DEFINE j == envelope[w].job
  <2>1. /\ txn[w].op = "claim" /\ txn' = [txn EXCEPT ![w] = NoTxn]
        /\ now' = now /\ envelope' = envelope /\ j \in Job
    BY <1>4 DEF ClaimCommit
  <2>2. envelope[w].attempt = jobs[j].attempt + 1 /\ txn[w].attempt = jobs[j].attempt + 1
    BY <2>1, JobAssumption
  <2>3. jobs'[j].attempt = jobs[j].attempt + 1
    <3>1. jobs'[j] = Leased(jobs[j], w, txn[w].attempt, txn[w].at)
      BY <1>4, <1>a, <2>1 DEF ClaimCommit, TypeOK
    <3>2. jobs[j] \in Row /\ txn[w].at \in Nat /\ txn[w].attempt \in Nat
      BY <1>a, <2>1 DEF TypeOK
    <3> QED
      BY <3>1, <3>2, <2>2, LeasedFields
  <2>4. \A v \in Worker : v # w => txn'[v] = txn[v]
    BY <2>1, <1>a DEF TypeOK
  <2>5. txn'[w] = NoTxn
    BY <2>1, <1>a DEF TypeOK
  <2>6. TxnsOpen'
    BY <2>1, <2>4, <2>5 DEF NoTxn
  <2>7. ClaimsExclusive'
    BY <2>1, <2>4, <2>5 DEF NoTxn
  <2>8. \A k \in Job : k # j => jobs'[k] = jobs[k]
    BY <1>4, <1>a DEF ClaimCommit, TypeOK
  <2>9. TicketsDrawn'
    <3> SUFFICES ASSUME NEW v \in Worker, envelope[v].job # NoJob
                 PROVE  IF txn'[v].op = "claim"
                        THEN /\ envelope[v].attempt = jobs'[envelope[v].job].attempt + 1
                             /\ txn'[v].attempt = envelope[v].attempt
                        ELSE envelope[v].attempt <= jobs'[envelope[v].job].attempt
      BY <2>1
    <3>0. envelope[v].job \in Job
      BY <1>a DEF TypeOK
    <3>1. CASE v = w
      BY <3>1, <2>1, <2>2, <2>3, <2>5, <1>c DEF NoTxn
    <3>2. CASE v # w /\ envelope[v].job = j
      BY <3>2, <2>1, <2>3, <2>4, <1>c, <1>e
    <3>3. CASE v # w /\ envelope[v].job # j
      BY <3>0, <3>3, <2>4, <2>8
    <3> QED
      BY <3>1, <3>2, <3>3
  <2> QED
    BY <2>1, <2>6, <2>7, <2>9
<1>5. ASSUME NEW w \in Worker, NEW e \in Environment, ClaimNothing(w, e) PROVE Ready
  BY <1>5 DEF ClaimNothing, vars
<1>6. ASSUME NEW w \in Worker, NEW op \in LeaseOp, CheckLease(w, op) PROVE Ready
  BY <1>6, <1>a DEF CheckLease, LeaseOp, TypeOK
<1>7. ASSUME NEW w \in Worker, LeaseLost(w) PROVE Ready
  BY <1>7, <1>a DEF LeaseLost, NoEnvelope, TypeOK
<1>8. ASSUME NEW w \in Worker, now' = now, envelope' = envelope,
             txn' = [txn EXCEPT ![w] = NoTxn], txn[w].op # "claim",
             \A j \in Job : jobs'[j].attempt = jobs[j].attempt
      PROVE  Ready
  BY <1>8, <1>a DEF NoTxn, TypeOK
<1>9. ASSUME NEW w \in Worker, now' = now, LetGo(w),
             \A j \in Job : jobs'[j].attempt = jobs[j].attempt
      PROVE  Ready
  <2>1. /\ envelope'[w] = NoEnvelope /\ txn'[w] = NoTxn
        /\ \A v \in Worker : v # w => envelope'[v] = envelope[v] /\ txn'[v] = txn[v]
    BY <1>9, <1>a DEF LetGo, TypeOK
  <2> QED
    <3>1. TxnsOpen'
      BY <1>9, <2>1 DEF NoTxn
    <3>2. ClaimsExclusive'
      BY <2>1 DEF NoTxn
    <3>3. TicketsDrawn'
      <4> SUFFICES ASSUME NEW v \in Worker, envelope'[v].job # NoJob
                   PROVE  IF txn'[v].op = "claim"
                          THEN /\ envelope'[v].attempt = jobs'[envelope'[v].job].attempt + 1
                               /\ txn'[v].attempt = envelope'[v].attempt
                          ELSE envelope'[v].attempt <= jobs'[envelope'[v].job].attempt
        OBVIOUS
      <4>1. v # w /\ envelope'[v] = envelope[v] /\ txn'[v] = txn[v]
        BY <2>1 DEF NoEnvelope
      <4>2. envelope[v].job \in Job
        BY <4>1, <1>a DEF TypeOK
      <4> QED
        BY <4>1, <4>2, <1>9
    <3>4. AttemptHandedOnce'
      <4> SUFFICES ASSUME NEW u \in Worker, NEW v \in Worker, u # v,
                          envelope'[u].job # NoJob, envelope'[u].job = envelope'[v].job
                   PROVE  envelope'[u].attempt # envelope'[v].attempt
        OBVIOUS
      <4> QED
        BY <2>1 DEF NoEnvelope
    <3> QED
      BY <3>1, <3>2, <3>3, <3>4
<1>10. ASSUME NEW w \in Worker,
              \/ HeartbeatCommit(w) \/ CompleteCommit(w) \/ DeadLetterCommit(w)
              \/ \E d \in Delays : AbandonCommit(w, d)
       PROVE  Ready
  <2>1. txn[w].op # "claim" /\ now' = now
    BY <1>10 DEF HeartbeatCommit, CompleteCommit, AbandonCommit, DeadLetterCommit,
         Burying, Writing
  <2>2. \A v \in Worker : txn[v].op = "claim" => ~ClaimCommit(v)
    <3>1. \A v \in Worker : txn[v].op = "claim" /\ ClaimCommit(v) => txn'[v] = NoTxn
      BY <1>a DEF ClaimCommit, TypeOK
    <3>2. \A v \in Worker : txn[v].op = "claim" => txn'[v] = txn[v]
      BY <1>10, <2>1, <1>a DEF HeartbeatCommit, CompleteCommit, AbandonCommit,
           DeadLetterCommit, LetGo, TypeOK
    <3> QED
      BY <3>1, <3>2 DEF NoTxn
  <2>3. \A j \in Job : jobs'[j].attempt = jobs[j].attempt
    BY <2>2, AttemptStep DEF Claims, ClaimCommit
  <2>4. CASE HeartbeatCommit(w)
    BY <2>1, <2>3, <2>4, <1>8 DEF HeartbeatCommit
  <2>5. CASE \/ CompleteCommit(w) \/ DeadLetterCommit(w)
             \/ \E d \in Delays : AbandonCommit(w, d)
    BY <2>1, <2>3, <2>5, <1>9 DEF CompleteCommit, AbandonCommit, DeadLetterCommit
  <2> QED
    BY <1>10, <2>4, <2>5
<1>11. ASSUME NEW w \in Worker, DeadLetterConflict(w) \/ Crash(w) PROVE Ready
  BY <1>11, <1>9 DEF DeadLetterConflict, Crash
<1>12. ASSUME UNCHANGED vars PROVE Ready
  BY <1>12 DEF vars
<1> HIDE DEF ClaimInv, TxnsOpen, ClaimsExclusive, TicketsDrawn, AttemptHandedOnce
<1>13. Ready
  <2> HIDE DEF Ready
  <2> QED
    BY <1>1, <1>2, <1>3, <1>4, <1>5, <1>6, <1>7, <1>10, <1>11, <1>12
       DEF Next, WorkerStep
<1> QED
  BY <1>13, <1>a, <1>b DEF ClaimInv

LEMMA ClaimInit == Init => ClaimInv /\ LeaseIsRecoverable
BY TypeCorrectInit DEF Init, ClaimInv, AbsentUntouched, TxnsOpen, ClaimsExclusive,
   TicketsDrawn, AttemptHandedOnce, LeaseIsRecoverable, AbsentRow, NoEnvelope,
   NoTxn, Idle, Free

(* A lease never outlives now by more than one lease, and always has an    *)
(* owner and an expiry: no crash leaves a job that claim() cannot reach.   *)
THEOREM LeaseRecoverable == Spec => []LeaseIsRecoverable
<1>1. ClaimInv /\ LeaseIsRecoverable /\ [Next]_vars => (ClaimInv /\ LeaseIsRecoverable)'
  BY ClaimStep, RecoverableStep DEF ClaimInv
<1> QED
  BY <1>1, ClaimInit, PTL DEF Spec

(* An attempt number of a job is given to one worker only, in every        *)
(* interleaving, with transactions open for any time.                      *)
THEOREM ClaimExactlyOnce == Spec => []AttemptHandedOnce
<1>1. ClaimInv => AttemptHandedOnce
  BY DEF ClaimInv
<1> QED
  BY <1>1, ClaimInit, ClaimStep, PTL DEF Spec

(* A row that was ever leased, and a transaction that claims or has found  *)
(* a lease, has an attempt number, so a dead letter never looks like none. *)
Numbered ==
  /\ \A j \in Job : jobs[j].status = "leased" => jobs[j].attempt # 0
  /\ \A w \in Worker : ~Idle(w) => txn[w].attempt # 0

LEMMA NumberedStep == ClaimInv /\ Numbered /\ [Next]_vars => Numbered'
<1> SUFFICES ASSUME ClaimInv, Numbered, [Next]_vars PROVE Numbered'
  OBVIOUS
<1>0. TypeOK
  BY DEF ClaimInv
<1>1. ASSUME NEW j \in Job, jobs'[j].status = "leased" PROVE jobs'[j].attempt # 0
  <2>0. jobs[j] \in Row
    BY <1>0 DEF TypeOK
  <2>1. CASE jobs'[j] = jobs[j]
    BY <1>1, <2>1 DEF Numbered
  <2>2. CASE jobs'[j] = QueuedRow(now)
    BY <1>1, <2>2 DEF QueuedRow, AbsentRow
  <2>3. ASSUME NEW w \in Worker, Claims(w, j) PROVE jobs'[j].attempt # 0
    <3>1. txn[w].attempt # 0 /\ txn[w].attempt \in Nat /\ txn[w].at \in Nat
      BY <1>0, <2>3 DEF Claims, ClaimCommit, Numbered, Idle, TypeOK
    <3> QED
      BY <2>0, <2>3, <3>1, LeasedFields DEF Claims
  <2>4. ASSUME NEW w \in Worker, Renews(w, j) PROVE jobs'[j].attempt # 0
    <3>1. PICK t \in WriteTimes(w) : jobs'[j] = Renewed(jobs[j], t)
      BY <2>4 DEF Renews
    <3>2. t \in Nat
      BY <1>0 DEF WriteTimes, TypeOK
    <3>3. /\ Renewed(jobs[j], t).status = jobs[j].status
          /\ Renewed(jobs[j], t).attempt = jobs[j].attempt
      BY <2>0, <3>2, RenewedFields
    <3> QED
      BY <1>1, <3>1, <3>3 DEF Numbered
  <2>5. ASSUME NEW w \in Worker, Finishes(w, j) \/ Buries(w, j) PROVE FALSE
    BY <1>1, <2>0, <2>5 DEF Finishes, Buries, Unleased, Row
  <2>6. ASSUME NEW w \in Worker, Requeues(w, j) PROVE FALSE
    BY <1>1, <2>0, <2>6, RequeuedFields DEF Requeues
  <2> QED
    BY <1>0, <2>1, <2>2, <2>3, <2>4, <2>5, <2>6, RowStep
<1>2. ASSUME NEW w \in Worker, ~Idle(w)' PROVE txn'[w].attempt # 0
  <2>1. CASE txn'[w] = txn[w]
    BY <1>2, <2>1 DEF Numbered, Idle
  <2>2. ASSUME NEW v \in Worker, NEW e \in Environment, NEW j \in Job, ClaimSelect(v, e, j)
        PROVE  txn'[w].attempt # 0
    <3>1. jobs[j].attempt \in Nat
      BY <1>0 DEF TypeOK, Row
    <3> QED
      BY <1>0, <1>2, <2>2, <3>1 DEF ClaimSelect, Numbered, Idle, TypeOK
  <2>3. ASSUME NEW v \in Worker, NEW op \in LeaseOp, CheckLease(v, op)
        PROVE  txn'[w].attempt # 0
    <3>1. jobs[envelope[v].job].status = "leased" /\ envelope[v].job \in Job
      BY <1>0, <2>3 DEF CheckLease, OwnsLease, Free, TypeOK
    <3>2. jobs[envelope[v].job].attempt # 0
      BY <3>1 DEF Numbered
    <3> QED
      BY <1>0, <1>2, <2>3, <3>2 DEF CheckLease, Numbered, Idle, TypeOK
  <2>4. ASSUME NEW v \in Worker, txn' = [txn EXCEPT ![v] = NoTxn]
        PROVE  txn'[w] = txn[w]
    BY <1>0, <1>2, <2>4 DEF NoTxn, Idle, TypeOK
  <2> QED
    BY <2>1, <2>2, <2>3, <2>4 DEF Next, WorkerStep, vars, Tick, Enqueue, ClaimCommit,
       ClaimNothing, LeaseLost, HeartbeatCommit, CompleteCommit, AbandonCommit,
       DeadLetterCommit, DeadLetterConflict, Crash, LetGo
<1> QED
  BY <1>1, <1>2 DEF Numbered

LEMMA RecordedStep ==
  ClaimInv /\ Numbered /\ DeadLetterRecorded /\ [Next]_vars => DeadLetterRecorded'
<1> SUFFICES ASSUME ClaimInv, Numbered, DeadLetterRecorded, [Next]_vars,
                    NEW j \in Job, jobs'[j].status = "dead_letter"
             PROVE  deadLetters'[j] # NoRow
  BY DEF DeadLetterRecorded
<1>0. TypeOK /\ jobs[j] \in Row
  BY DEF ClaimInv, TypeOK
<1>1. deadLetters[j] # NoRow => deadLetters'[j] # NoRow
  <2>1. CASE deadLetters' = deadLetters
    BY <2>1
  <2>2. ASSUME NEW w \in Worker, DeadLetterCommit(w)
        PROVE  deadLetters[j] # NoRow => deadLetters'[j] # NoRow
    BY <1>0, <2>2 DEF DeadLetterCommit, TypeOK
  <2> QED
    BY <2>1, <2>2 DEF Next, WorkerStep, vars, Tick, Enqueue, ClaimSelect, ClaimCommit,
       ClaimNothing, CheckLease, LeaseLost, HeartbeatCommit, CompleteCommit,
       AbandonCommit, DeadLetterConflict, Crash
<1>2. CASE jobs[j].status = "dead_letter"
  BY <1>1, <1>2 DEF DeadLetterRecorded
<1>3. CASE jobs[j].status # "dead_letter"
  <2>1. jobs'[j] # jobs[j]
    BY <1>3
  <2>2. jobs'[j] # QueuedRow(now)
    BY DEF QueuedRow, AbsentRow
  <2>3. ASSUME NEW w \in Worker, Claims(w, j) PROVE FALSE
    <3>1. txn[w].attempt \in Nat /\ txn[w].at \in Nat
      BY <1>0 DEF TypeOK
    <3> QED
      BY <1>0, <2>3, <3>1, LeasedFields DEF Claims
  <2>4. ASSUME NEW w \in Worker, Renews(w, j) PROVE FALSE
    <3>1. PICK t \in WriteTimes(w) : jobs'[j] = Renewed(jobs[j], t)
      BY <2>4 DEF Renews
    <3>2. t \in Nat
      BY <1>0 DEF WriteTimes, TypeOK
    <3> QED
      BY <1>0, <1>3, <3>1, <3>2, RenewedFields
  <2>5. ASSUME NEW w \in Worker, Finishes(w, j) PROVE FALSE
    BY <1>0, <2>5 DEF Finishes, Unleased, Row
  <2>6. ASSUME NEW w \in Worker, Requeues(w, j) PROVE FALSE
    BY <1>0, <2>6, RequeuedFields DEF Requeues
  <2>7. ASSUME NEW w \in Worker, Buries(w, j) PROVE deadLetters'[j] # NoRow
    <3>1. /\ DeadLetterCommit(w) /\ envelope[w].job = j /\ txn[w].op # "idle"
      BY <2>7 DEF Buries, DeadLetterCommit, Burying, Writing
    <3>2. txn[w].attempt # 0
      BY <3>1 DEF Numbered, Idle
    <3> QED
      BY <1>0, <3>1, <3>2 DEF DeadLetterCommit, NoRow, TypeOK
  <2> QED
    BY <1>0, <2>1, <2>2, <2>3, <2>4, <2>5, <2>6, <2>7, RowStep
<1> QED
  BY <1>2, <1>3

(* A dead-lettered job has its dead letter, however long transactions stay *)
(* open.                                                                   *)
THEOREM DeadLetterAlwaysRecorded == Spec => []DeadLetterRecorded
<1>1. Init => Numbered /\ DeadLetterRecorded
  BY DEF Init, Numbered, DeadLetterRecorded, AbsentRow, NoTxn, Idle
<1> QED
  BY <1>1, ClaimInit, ClaimStep, NumberedStep, RecordedStep, PTL DEF Spec

-----------------------------------------------------------------------------
(* With transactions short against the clock, what a transaction read is   *)
(* still so when it commits.                                               *)

CheckStillHolds(w) ==
  LET j == envelope[w].job
  IN  /\ txn[w].at = now
      /\ txn[w].op = "claim" => Claimable(j)
      /\ txn[w].op # "claim" => OwnsLease(w, j) /\ txn[w].attempt = jobs[j].attempt

ChecksHold == \A w \in Worker : ~Idle(w) => CheckStillHolds(w)

ShortInv == ClaimInv /\ ChecksHold /\ DeadLettersAgree /\ QueuedHasBudget

(* Then at most one transaction is open on a row. *)
LEMMA OneTxnPerRow ==
  ASSUME ClaimInv, ChecksHold, NEW v \in Worker, NEW w \in Worker,
         ~Idle(v), ~Idle(w), envelope[v].job = envelope[w].job
  PROVE  v = w
<1> DEFINE j == envelope[w].job
<1>1. j \in Job /\ jobs[j] \in Row /\ now \in Nat
  BY DEF ClaimInv, TxnsOpen, TypeOK
<1>2. ~(Claimable(j) /\ OwnsLease(v, j)) /\ ~(Claimable(j) /\ OwnsLease(w, j))
  BY <1>1 DEF Claimable, OwnsLease, Lapsed, Row, NoTime
<1>3. OwnsLease(v, j) /\ OwnsLease(w, j) => v = w
  BY DEF OwnsLease
<1>4. CheckStillHolds(v) /\ CheckStillHolds(w)
  BY DEF ChecksHold
<1>5. CASE txn[v].op = "claim" /\ txn[w].op = "claim"
  BY <1>5 DEF ClaimInv, ClaimsExclusive
<1>6. CASE txn[v].op # "claim" /\ txn[w].op # "claim"
  BY <1>3, <1>4, <1>6 DEF CheckStillHolds
<1>7. CASE txn[v].op = "claim" /\ txn[w].op # "claim"
  BY <1>2, <1>4, <1>7 DEF CheckStillHolds
<1>8. CASE txn[v].op # "claim" /\ txn[w].op = "claim"
  BY <1>2, <1>4, <1>8 DEF CheckStillHolds
<1> QED
  BY <1>5, <1>6, <1>7, <1>8

(* So a commit finds its row as it was read: a claim a claimable row, a    *)
(* lease operation the worker's own active lease.                          *)
LEMMA CommitFindsRow ==
  ASSUME ClaimInv, ChecksHold, NEW w \in Worker, NEW j \in Job
  PROVE  /\ Claims(w, j) => /\ Claimable(j)
                            /\ txn[w].at = now
                            /\ txn[w].attempt = jobs[j].attempt + 1
         /\ Renews(w, j) \/ Finishes(w, j) \/ Requeues(w, j) \/ Buries(w, j)
            => /\ OwnsLease(w, j) /\ txn[w].at = now
               /\ txn[w].attempt = jobs[j].attempt
               /\ txn[w].op \in LeaseOp
<1>1. ASSUME Claims(w, j)
      PROVE  Claimable(j) /\ txn[w].at = now /\ txn[w].attempt = jobs[j].attempt + 1
  <2>1. txn[w].op = "claim" /\ envelope[w].job = j
    BY <1>1 DEF Claims, ClaimCommit
  <2>2. CheckStillHolds(w)
    BY <2>1 DEF ChecksHold, Idle
  <2>3. txn[w].attempt = jobs[j].attempt + 1
    BY <2>1, JobAssumption DEF ClaimInv, TicketsDrawn, Free
  <2> QED
    BY <2>1, <2>2, <2>3 DEF CheckStillHolds
<1>2. ASSUME Renews(w, j) \/ Finishes(w, j) \/ Requeues(w, j) \/ Buries(w, j)
      PROVE  /\ OwnsLease(w, j) /\ txn[w].at = now
             /\ txn[w].attempt = jobs[j].attempt /\ txn[w].op \in LeaseOp
  <2>1. txn[w].op \in LeaseOp /\ envelope[w].job = j
    BY <1>2 DEF Renews, Finishes, Requeues, Buries, HeartbeatCommit, CompleteCommit,
       AbandonCommit, DeadLetterCommit, Burying, Writing, LeaseOp
  <2>2. CheckStillHolds(w)
    BY <2>1 DEF ChecksHold, Idle, LeaseOp
  <2> QED
    BY <2>1, <2>2 DEF CheckStillHolds, LeaseOp
<1> QED
  BY <1>1, <1>2

(* The effect of a step on one row, seen by the status and attempt alone.  *)
LEMMA RowLife ==
  ASSUME ClaimInv, ChecksHold, [Next]_vars, NEW j \in Job, jobs'[j] # jobs[j]
  PROVE  LET old == jobs[j]  new == jobs'[j]
         IN  \/ old.status = "absent" /\ new.status = "queued" /\ new.attempt = 0
                /\ Enqueue(j)
             \/ \E w \in Worker :
                  /\ envelope[w].job = j /\ ~Idle(w)
                  /\ \/ /\ Claims(w, j) /\ Claimable(j) /\ new.status = "leased"
                        /\ new.attempt = old.attempt + 1
                     \/ /\ OwnsLease(w, j) /\ new.attempt = old.attempt
                        /\ \/ Renews(w, j) /\ new.status = "leased"
                           \/ Finishes(w, j) /\ new.status = "completed"
                           \/ /\ Requeues(w, j) /\ new.status = "queued"
                              /\ old.attempt < MaxAttempts
                           \/ Buries(w, j) /\ new.status = "dead_letter"
<1>a. jobs[j] \in Row /\ \A w \in Worker : txn[w].attempt \in Nat /\ txn[w].at \in Nat
  BY DEF ClaimInv, TypeOK
<1>1. CASE Enqueue(j) /\ jobs'[j] = QueuedRow(now)
  BY <1>1 DEF Enqueue, QueuedRow, AbsentRow
<1>2. ASSUME NEW w \in Worker, Claims(w, j)
      PROVE  /\ envelope[w].job = j /\ ~Idle(w)
             /\ Claimable(j) /\ jobs'[j].status = "leased"
             /\ jobs'[j].attempt = jobs[j].attempt + 1
  <2>1. envelope[w].job = j /\ ~Idle(w)
    BY <1>2 DEF Claims, ClaimCommit, Idle
  <2>2. Claimable(j) /\ txn[w].attempt = jobs[j].attempt + 1
    BY <1>2, CommitFindsRow
  <2> QED
    BY <1>2, <1>a, <2>1, <2>2, LeasedFields DEF Claims
<1>3. ASSUME NEW w \in Worker,
             Renews(w, j) \/ Finishes(w, j) \/ Requeues(w, j) \/ Buries(w, j)
      PROVE  /\ envelope[w].job = j /\ ~Idle(w) /\ OwnsLease(w, j)
             /\ txn[w].attempt = jobs[j].attempt
  BY <1>3, CommitFindsRow DEF Renews, Finishes, Requeues, Buries, Idle, LeaseOp
<1>4. ASSUME NEW w \in Worker, Renews(w, j)
      PROVE  jobs'[j].attempt = jobs[j].attempt /\ jobs'[j].status = "leased"
  BY <1>4, <1>3, <1>a DEF Renews, Renewed, Row, OwnsLease
<1>5. ASSUME NEW w \in Worker, Finishes(w, j)
      PROVE  jobs'[j].attempt = jobs[j].attempt /\ jobs'[j].status = "completed"
  BY <1>5, <1>a DEF Finishes, Unleased, Row
<1>6. ASSUME NEW w \in Worker, Buries(w, j)
      PROVE  jobs'[j].attempt = jobs[j].attempt /\ jobs'[j].status = "dead_letter"
  BY <1>6, <1>a DEF Buries, Unleased, Row
<1>7. ASSUME NEW w \in Worker, Requeues(w, j)
      PROVE  /\ jobs'[j].attempt = jobs[j].attempt /\ jobs'[j].status = "queued"
             /\ jobs[j].attempt < MaxAttempts
  <2>1. jobs'[j].attempt = jobs[j].attempt /\ jobs'[j].status = "queued"
    <3>1. PICK t \in Nat : jobs'[j] = Requeued(jobs[j], t)
      BY <1>7 DEF Requeues
    <3> QED
      BY <3>1, <1>a, RequeuedFields
  <2>2. ~(txn[w].attempt >= MaxAttempts)
    BY <1>7 DEF Requeues, AbandonCommit, Exhausted
  <2> QED
    BY <2>1, <2>2, <1>3, <1>7, <1>a
<1> QED
  BY <1>1, <1>2, <1>3, <1>4, <1>5, <1>6, <1>7, RowStep DEF ClaimInv

(* Short transactions keep what they read: another worker's commit cannot  *)
(* touch the row of an open transaction, and the clock waits for it.       *)
LEMMA ChecksStep ==
  ASSUME Stall = FALSE, ClaimInv, ChecksHold, [Next]_vars
  PROVE  ChecksHold'
<1> SUFFICES ASSUME NEW v \in Worker, ~Idle(v)' PROVE CheckStillHolds(v)'
  BY DEF ChecksHold
<1>a. TypeOK /\ TypeOK'
  BY TypeStep DEF ClaimInv
(* v's transaction was open before the step and the step is not v's. *)
<1>1. ASSUME ~Idle(v), txn'[v] = txn[v], envelope'[v] = envelope[v], now' = now
      PROVE  CheckStillHolds(v)'
  <2> DEFINE j == envelope[v].job
  <2>1. CheckStillHolds(v) /\ j \in Job
    BY <1>1 DEF ChecksHold, ClaimInv, TxnsOpen
  <2>2. jobs'[j] = jobs[j]
    <3> SUFFICES ASSUME jobs'[j] # jobs[j] PROVE FALSE
      OBVIOUS
    <3>1. CASE Enqueue(j)
      BY <2>1, <3>1 DEF Enqueue, CheckStillHolds, Claimable, OwnsLease
    <3>2. ASSUME NEW w \in Worker, envelope[w].job = j, ~Idle(w),
                 Claims(w, j) \/ Renews(w, j) \/ Finishes(w, j)
                   \/ Requeues(w, j) \/ Buries(w, j)
          PROVE  FALSE
      <4>1. w = v
        BY <1>1, <3>2, OneTxnPerRow
      <4>2. txn'[w] = NoTxn
        BY <3>2, <1>a DEF Claims, Renews, Finishes, Requeues, Buries, ClaimCommit,
           HeartbeatCommit, CompleteCommit, AbandonCommit, DeadLetterCommit, LetGo, TypeOK
      <4> QED
        BY <4>1, <4>2, <1>1 DEF NoTxn, Idle
    <3> QED
      BY <2>1, <3>1, <3>2, RowLife
  <2> QED
    BY <1>1, <2>1, <2>2 DEF CheckStillHolds, Claimable, OwnsLease, Lapsed
<1>2. CASE Tick
  BY <1>2, <1>a DEF Tick, Idle
<1>3. ASSUME NEW k \in Job, Enqueue(k) PROVE CheckStillHolds(v)'
  BY <1>1, <1>3 DEF Enqueue, Idle
<1>4. ASSUME NEW w \in Worker, NEW e \in Environment, NEW j \in Job,
             ClaimSelect(w, e, j)
     
      PROVE  CheckStillHolds(v)'
  <2>1. /\ now' = now /\ jobs' = jobs
        /\ v # w => txn'[v] = txn[v] /\ envelope'[v] = envelope[v]
        /\ txn'[w].op = "claim" /\ txn'[w].at = now /\ envelope'[w].job = j
    BY <1>4, <1>a DEF ClaimSelect, TypeOK
  <2>2. Claimable(j)
    BY <1>4 DEF ClaimSelect, Eligible
  <2>3. CASE v = w
    BY <2>1, <2>2, <2>3 DEF CheckStillHolds, Claimable
  <2> QED
    BY <1>1, <2>1, <2>3 DEF Idle
<1>5. ASSUME NEW w \in Worker, NEW op \in LeaseOp, CheckLease(w, op)
      PROVE  CheckStillHolds(v)'
  <2>1. /\ now' = now /\ jobs' = jobs /\ envelope' = envelope
        /\ v # w => txn'[v] = txn[v]
        /\ txn'[w] = [op |-> op, at |-> now, attempt |-> jobs[envelope[w].job].attempt]
        /\ OwnsLease(w, envelope[w].job)
    BY <1>5, <1>a DEF CheckLease, TypeOK
  <2>2. CASE v = w
    BY <2>1, <2>2 DEF CheckStillHolds, OwnsLease, LeaseOp
  <2> QED
    BY <1>1, <2>1, <2>2 DEF Idle
<1>6. ASSUME NEW w \in Worker, LeaseLost(w) PROVE CheckStillHolds(v)'
  BY <1>1, <1>6, <1>a DEF LeaseLost, Idle, TypeOK
<1>7. ASSUME NEW w \in Worker, now' = now, txn' = [txn EXCEPT ![w] = NoTxn],
             envelope' = envelope \/ envelope' = [envelope EXCEPT ![w] = NoEnvelope]
      PROVE  CheckStillHolds(v)'
  <2>1. v # w
    BY <1>7, <1>a DEF Idle, NoTxn, TypeOK
  <2> QED
    BY <1>1, <1>7, <1>a, <2>1 DEF Idle, TypeOK
<1>8. ASSUME NEW w \in Worker,
             \/ ClaimCommit(w) \/ HeartbeatCommit(w) \/ CompleteCommit(w)
             \/ (\E d \in Delays : AbandonCommit(w, d)) \/ DeadLetterCommit(w) \/ DeadLetterConflict(w)
             \/ Crash(w)
      PROVE  CheckStillHolds(v)'
  BY <1>7, <1>8 DEF ClaimCommit, HeartbeatCommit, CompleteCommit, AbandonCommit,
     DeadLetterCommit, DeadLetterConflict, Crash, LetGo
<1>9. CASE UNCHANGED vars
  BY <1>1, <1>9 DEF vars, Idle
<1>10. ASSUME NEW w \in Worker, NEW e \in Environment, ClaimNothing(w, e) PROVE UNCHANGED vars
  BY <1>10 DEF ClaimNothing
<1> QED
  BY <1>2, <1>3, <1>4, <1>5, <1>6, <1>8, <1>9, <1>10 DEF Next, WorkerStep

(* The dead-letter table and the retry budget follow the rows. *)
LEMMA ShortStep ==
  ASSUME Stall = FALSE, ShortInv, [Next]_vars
  PROVE  ShortInv'
<1> USE DEF ShortInv
<1>1. ClaimInv' /\ ChecksHold'
  BY ClaimStep, ChecksStep
<1>2. QueuedHasBudget'
  <2> SUFFICES ASSUME NEW j \in Job, jobs'[j].status = "queued"
               PROVE  jobs'[j].attempt < MaxAttempts
    BY DEF QueuedHasBudget
  <2>1. CASE jobs'[j] = jobs[j]
    BY <2>1 DEF QueuedHasBudget
  <2>2. CASE jobs'[j] # jobs[j]
    BY <2>2, RowLife
  <2> QED
    BY <2>1, <2>2
<1>3. DeadLettersAgree'
  <2> SUFFICES ASSUME NEW j \in Job
               PROVE  deadLetters'[j] = IF jobs'[j].status = "dead_letter"
                                        THEN jobs'[j].attempt ELSE NoRow
    BY DEF DeadLettersAgree
  <2>a. deadLetters \in [Job -> Nat] /\ jobs \in [Job -> Row]
    BY DEF ClaimInv, TypeOK
  <2>1. ASSUME NEW w \in Worker, DeadLetterCommit(w), envelope[w].job = j
        PROVE  /\ deadLetters'[j] = jobs'[j].attempt
               /\ jobs'[j].status = "dead_letter"
    <3>1. /\ jobs'[j] = Unleased(jobs[j], "dead_letter")
          /\ deadLetters'[j] = txn[w].attempt
          /\ txn[w].op \in LeaseOp
      BY <2>1, <2>a DEF DeadLetterCommit, Burying, Writing, LeaseOp
    <3>2. txn[w].attempt = jobs[j].attempt
      BY <2>1, <3>1 DEF ChecksHold, CheckStillHolds, Idle, LeaseOp
    <3>3. jobs'[j].attempt = jobs[j].attempt /\ jobs'[j].status = "dead_letter"
      BY <3>1, <2>a DEF Unleased, Row
    <3> QED
      BY <3>1, <3>2, <3>3
  <2>2. CASE deadLetters'[j] # deadLetters[j]
    <3>1. PICK w \in Worker : DeadLetterCommit(w) /\ envelope[w].job = j
      BY <2>2, <2>a DEF Next, WorkerStep, vars, Tick, Enqueue, ClaimSelect, ClaimCommit,
         ClaimNothing, CheckLease, LeaseLost, HeartbeatCommit, CompleteCommit,
         AbandonCommit, DeadLetterCommit, DeadLetterConflict, Crash
    <3> QED
      BY <2>1, <3>1
  <2>3. CASE deadLetters'[j] = deadLetters[j] /\ jobs'[j] = jobs[j]
    BY <2>3 DEF DeadLettersAgree
  <2>4. CASE deadLetters'[j] = deadLetters[j] /\ jobs'[j] # jobs[j]
    <3>1. jobs[j].status # "dead_letter"
      BY <2>4, RowLife DEF Claimable, OwnsLease
    <3>2. CASE jobs'[j].status # "dead_letter"
      BY <2>4, <3>1, <3>2 DEF DeadLettersAgree
    <3>3. CASE jobs'[j].status = "dead_letter"
      <4>1. PICK w \in Worker : Buries(w, j)
        BY <2>4, <3>3, RowLife
      <4> QED
        BY <2>1, <3>3, <4>1 DEF Buries
    <3> QED
      BY <3>2, <3>3
  <2> QED
    BY <2>2, <2>3, <2>4
<1> QED
  BY <1>1, <1>2, <1>3

LEMMA ShortInit == Init => ShortInv
<1> SUFFICES ASSUME Init PROVE ShortInv
  OBVIOUS
<1>1. ClaimInv
  BY ClaimInit
<1>2. ChecksHold
  BY DEF Init, ChecksHold, Idle, NoTxn
<1>3. DeadLettersAgree /\ QueuedHasBudget
  BY DEF Init, DeadLettersAgree, QueuedHasBudget, AbsentRow
<1> QED
  BY <1>1, <1>2, <1>3 DEF ShortInv

(* The inductive invariant of short transactions. *)
THEOREM ShortInvariant == ASSUME Stall = FALSE PROVE Spec => []ShortInv
<1>1. ShortInv /\ [Next]_vars => ShortInv'
  BY ShortStep
<1> QED
  BY <1>1, ShortInit, PTL DEF Spec

(* A waiting job has budget left: abandon() never requeues the last attempt. *)
THEOREM BudgetKept == ASSUME Stall = FALSE PROVE Spec => []QueuedHasBudget
<1>1. ShortInv => QueuedHasBudget
  BY DEF ShortInv
<1> QED
  BY <1>1, ShortInvariant, PTL

(* job_dead_letters holds exactly the dead-lettered jobs, at their attempt. *)
THEOREM DeadLettersExact == ASSUME Stall = FALSE PROVE Spec => []DeadLettersAgree
<1>1. ShortInv => DeadLettersAgree
  BY DEF ShortInv
<1> QED
  BY <1>1, ShortInvariant, PTL

(* A lapsed lease is only reclaimed, never used. *)
THEOREM LapsedReclaimed == ASSUME Stall = FALSE PROVE Spec => LapsedOnlyReclaimed
<1>1. ASSUME ShortInv, [Next]_vars, NEW j \in Job, jobs[j].status = "leased",
             Lapsed(jobs[j], now), jobs'[j] # jobs[j]
      PROVE  jobs'[j].status = "leased" /\ jobs'[j].attempt = jobs[j].attempt + 1
  <2>1. now \in Nat /\ jobs[j] \in Row
    BY <1>1 DEF ShortInv, ClaimInv, TypeOK
  <2>2. \A w \in Worker : ~OwnsLease(w, j)
    BY <1>1, <2>1 DEF OwnsLease, Lapsed, Row, NoTime
  <2> QED
    BY <1>1, <2>2, RowLife DEF ShortInv
<1>2. ShortInv /\ [Next]_vars =>
        [\A j \in Job :
           /\ jobs[j].status = "leased"
           /\ Lapsed(jobs[j], now)
           /\ jobs'[j] # jobs[j]
           => jobs'[j].status = "leased" /\ jobs'[j].attempt = jobs[j].attempt + 1]_vars
  BY <1>1
<1> QED
  BY <1>2, ShortInvariant, PTL DEF Spec, LapsedOnlyReclaimed

(* While a lease is active only its holder's transaction changes the row. *)
THEOREM HolderOnly == ASSUME Stall = FALSE PROVE Spec => HolderOnlyWrites
<1>1. ASSUME ShortInv, [Next]_vars, NEW j \in Job, jobs[j].status = "leased",
             ~Lapsed(jobs[j], now), jobs'[j] # jobs[j]
      PROVE  \E w \in Worker : /\ jobs[j].lease_owner = w /\ envelope[w].job = j
                               /\ txn[w].op \in LeaseOp /\ txn'[w] = NoTxn
  <2>1. ~Claimable(j)
    BY <1>1 DEF Claimable
  <2>2. PICK w \in Worker :
          /\ OwnsLease(w, j)
          /\ Renews(w, j) \/ Finishes(w, j) \/ Requeues(w, j) \/ Buries(w, j)
    BY <1>1, <2>1, RowLife DEF ShortInv, Enqueue
  <2>3. envelope[w].job = j /\ txn[w].op \in LeaseOp
    <3>1. ClaimInv /\ ChecksHold
      BY <1>1 DEF ShortInv
    <3>2. txn[w].op \in LeaseOp
      BY <2>2, <3>1, CommitFindsRow
    <3> QED
      BY <2>2, <3>2 DEF Renews, Finishes, Requeues, Buries
  <2>4. txn'[w] = NoTxn
    BY <2>2, <1>1 DEF ShortInv, ClaimInv, TypeOK, Renews, Finishes, Requeues, Buries,
       HeartbeatCommit, CompleteCommit, AbandonCommit, DeadLetterCommit, LetGo
  <2> QED
    BY <2>2, <2>3, <2>4 DEF OwnsLease
<1>2. ShortInv /\ [Next]_vars =>
        [\A j \in Job :
           /\ jobs[j].status = "leased"
           /\ ~Lapsed(jobs[j], now)
           /\ jobs'[j] # jobs[j]
           => \E w \in Worker : /\ jobs[j].lease_owner = w
                                /\ envelope[w].job = j
                                /\ txn[w].op \in LeaseOp
                                /\ txn'[w] = NoTxn]_vars
  BY <1>1
<1> QED
  BY <1>2, ShortInvariant, PTL DEF Spec, HolderOnlyWrites

(* The two fences together. *)
THEOREM LeasesFence == ASSUME Stall = FALSE PROVE Spec => LeaseFences
BY LapsedReclaimed, HolderOnly DEF LeaseFences

(* An attempt beyond max_attempts is one more claim of a lease that lapsed *)
(* during the last one: abandon() counts attempts and claim() does not.    *)
OverrunsByLapse ==
  [][\A j \in Job :
       jobs'[j].attempt > jobs[j].attempt /\ jobs'[j].attempt > MaxAttempts
       => jobs[j].status = "leased" /\ Lapsed(jobs[j], now)]_vars

THEOREM BudgetOverrunByLapse == ASSUME Stall = FALSE PROVE Spec => OverrunsByLapse
<1>1. ASSUME ShortInv, [Next]_vars, NEW j \in Job,
             jobs'[j].attempt > jobs[j].attempt, jobs'[j].attempt > MaxAttempts
      PROVE  jobs[j].status = "leased" /\ Lapsed(jobs[j], now)
  <2>0. jobs[j] \in Row
    BY <1>1 DEF ShortInv, ClaimInv, TypeOK
  <2>1. jobs[j].attempt \in Nat /\ MaxAttempts \in Nat
    BY <2>0 DEF Row
  <2>2. jobs'[j] # jobs[j]
    <3>1. jobs'[j].attempt > jobs[j].attempt
      BY <1>1
    <3> QED
      BY <2>1, <3>1
  <2>3. Claimable(j) /\ jobs'[j].attempt = jobs[j].attempt + 1
    BY <1>1, <2>1, <2>2, RowLife DEF ShortInv
  <2>4. ~(jobs[j].attempt < MaxAttempts)
    BY <1>1, <2>1, <2>2, <2>3
  <2> QED
    BY <1>1, <2>3, <2>4 DEF ShortInv, QueuedHasBudget, Claimable
<1>2. ShortInv /\ [Next]_vars =>
        [\A j \in Job :
           jobs'[j].attempt > jobs[j].attempt /\ jobs'[j].attempt > MaxAttempts
           => jobs[j].status = "leased" /\ Lapsed(jobs[j], now)]_vars
  BY <1>1
<1> QED
  BY <1>2, ShortInvariant, PTL DEF Spec, OverrunsByLapse

(* So the retry policy does bound the attempts as long as no worker is     *)
(* lost and none overruns its lease: AttemptsBounded fails of lapses alone. *)
InTime == \A j \in Job : jobs[j].status = "leased" => ~Lapsed(jobs[j], now)

THEOREM AttemptsBoundedInTime ==
  ASSUME Stall = FALSE PROVE Spec /\ []InTime => []AttemptsBounded
<1>1. Init => AttemptsBounded
  <2> SUFFICES ASSUME Init, NEW j \in Job PROVE jobs[j].attempt <= MaxAttempts
    BY DEF AttemptsBounded
  <2>1. jobs[j].attempt = 0
    BY DEF Init, AbsentRow
  <2> QED
    BY <2>1
<1>2. ASSUME ShortInv, AttemptsBounded, InTime, [Next]_vars
      PROVE  AttemptsBounded'
  <2> SUFFICES ASSUME NEW j \in Job PROVE jobs'[j].attempt <= MaxAttempts
    BY DEF AttemptsBounded
  <2>1. CASE jobs'[j] = jobs[j]
    BY <1>2, <2>1 DEF AttemptsBounded
  <2>2. CASE jobs'[j] # jobs[j]
    <3>1. jobs[j] \in Row /\ jobs[j].attempt <= MaxAttempts
      BY <1>2 DEF ShortInv, ClaimInv, TypeOK, AttemptsBounded
    <3>2. jobs[j].attempt \in Nat /\ MaxAttempts \in Nat
      BY <3>1 DEF Row
    <3>3. Claimable(j) => jobs[j].attempt < MaxAttempts
      BY <1>2 DEF ShortInv, QueuedHasBudget, InTime, Claimable
    <3>4. ClaimInv /\ ChecksHold
      BY <1>2 DEF ShortInv
    <3>5. \/ jobs'[j].attempt \in {0, jobs[j].attempt}
          \/ Claimable(j) /\ jobs'[j].attempt = jobs[j].attempt + 1
      BY <1>2, <2>2, <3>4, RowLife
    <3> QED
      BY <3>1, <3>2, <3>3, <3>5
  <2> QED
    BY <2>1, <2>2
<1> QED
  BY <1>1, <1>2, ShortInvariant, PTL DEF Spec

(* Refinement: every queue behaviour is a behaviour of JobLifecycle. *)
THEOREM QueueImplementsLifecycle ==
  ASSUME Stall = FALSE PROVE Spec => ImplementsLifecycle
<1> DEFINE St == [j \in Job |-> jobs[j].status]
           At == [j \in Job |-> jobs[j].attempt]
<1>1. Init => Lifecycle!Init
  BY DEF Init, Lifecycle!Init, AbsentRow
<1>2. ASSUME ShortInv, [Next]_vars PROVE [Lifecycle!Next]_Lifecycle!vars
  <2>1. CASE \A j \in Job : jobs'[j] = jobs[j]
    BY <2>1 DEF Lifecycle!vars
  <2>2. ASSUME NEW j \in Job, jobs'[j] # jobs[j]
        PROVE  [Lifecycle!Next]_Lifecycle!vars
    <3>1. \A k \in Job : k # j => jobs'[k] = jobs[k]
      BY <1>2, <2>2, RowStep, OneRow DEF ShortInv, ClaimInv
    <3>2. /\ St' = [St EXCEPT ![j] = jobs'[j].status]
          /\ At' = [At EXCEPT ![j] = jobs'[j].attempt]
      BY <3>1
    <3> DEFINE old == jobs[j]  new == jobs'[j]
    <3>3. /\ ClaimInv /\ ChecksHold
          /\ old.status = "absent" => old.attempt = 0
          /\ St[j] = old.status /\ At[j] = old.attempt
          /\ new.attempt = old.attempt => At' = At
      <4>1. ClaimInv /\ ChecksHold
        BY <1>2 DEF ShortInv
      <4>2. old.status = "absent" => old.attempt = 0
        BY <4>1 DEF ClaimInv, AbsentUntouched
      <4> QED
        BY <3>2, <4>1, <4>2
    <3> HIDE DEF St, At
    <3>4. \/ /\ old.status = "absent" /\ new.status = "queued" /\ At' = At
          \/ /\ old.status \in {"queued", "leased"} /\ new.status = "leased"
             /\ new.attempt = old.attempt + 1
          \/ /\ old.status = "leased" /\ At' = At
             /\ new.status = "queued" => old.attempt < MaxAttempts
             /\ new.status \in {"leased", "queued", "completed", "dead_letter"}
      BY <1>2, <2>2, <3>3, RowLife DEF Claimable, OwnsLease
    <3> QED
      <4>1. CASE /\ old.status = "absent" /\ new.status = "queued" /\ At' = At
        BY <4>1, <3>2, <3>3 DEF Lifecycle!Next, Lifecycle!Move, Lifecycle!Submit, St, At
      <4>2. CASE /\ old.status \in {"queued", "leased"} /\ new.status = "leased"
                 /\ new.attempt = old.attempt + 1
        BY <4>2, <3>2, <3>3 DEF Lifecycle!Next, Lifecycle!Move, Lifecycle!Attempt, St, At
      <4>3. CASE /\ old.status = "leased" /\ At' = At
                 /\ new.status = "queued" => old.attempt < MaxAttempts
                 /\ new.status \in {"leased", "queued", "completed", "dead_letter"}
        <5>1. CASE new.status = "leased"
          <6>1. St' = St
            BY <5>1, <4>3, <3>2, <3>3 DEF St
          <6> QED
            BY <6>1, <4>3 DEF Lifecycle!vars, St, At
        <5>2. CASE new.status = "queued"
          BY <5>2, <4>3, <3>2, <3>3 DEF Lifecycle!Next, Lifecycle!Move, Lifecycle!Retry, St, At
        <5>3. CASE new.status = "completed"
          BY <5>3, <4>3, <3>2, <3>3 DEF Lifecycle!Next, Lifecycle!Move, Lifecycle!Finish, St, At
        <5>4. CASE new.status = "dead_letter"
          BY <5>4, <4>3, <3>2, <3>3 DEF Lifecycle!Next, Lifecycle!Move, Lifecycle!Bury, St, At
        <5> QED
          BY <4>3, <5>1, <5>2, <5>3, <5>4
      <4> QED
        BY <3>4, <4>1, <4>2, <4>3
  <2> QED
    BY <2>1, <2>2
<1> QED
  BY <1>1, <1>2, ShortInvariant, PTL DEF Spec, ImplementsLifecycle, Lifecycle!Spec

-----------------------------------------------------------------------------
(* Refinement of JobLease: the mapped variables by name.                   *)

StatusMap == [j \in Job |-> jobs[j].status]
OwnerMap  == [j \in Job |-> Holder(j)]
WorkMap   == [w \in Worker |-> WorksOn(w)]

(* A row that stays as it is keeps its status, and while the clock stands  *)
(* its holder.                                                             *)
LEMMA UntouchedRows ==
  ASSUME NEW j \in Job, now' = now, \A k \in Job \ {j} : jobs'[k] = jobs[k]
  PROVE  /\ StatusMap' = [StatusMap EXCEPT ![j] = jobs'[j].status]
         /\ OwnerMap' = [OwnerMap EXCEPT ![j] = Holder(j)']
<1>1. \A k \in Job \ {j} : Holder(k)' = Holder(k)
  BY DEF Holder
<1> QED
  BY <1>1 DEF StatusMap, OwnerMap

LEMMA UntouchedWork ==
  ASSUME NEW w \in Worker,
         \A v \in Worker \ {w} : txn'[v] = txn[v] /\ envelope'[v] = envelope[v]
  PROVE  WorkMap' = [WorkMap EXCEPT ![w] = WorksOn(w)']
<1>1. \A v \in Worker \ {w} : WorksOn(v)' = WorksOn(v)
  BY DEF WorksOn
<1> QED
  BY <1>1 DEF WorkMap

(* The four ways a row changes hands, in terms of its holder.              *)
LEMMA HolderStep ==
  ASSUME ClaimInv, ChecksHold, NEW w \in Worker, NEW j \in Job, now' = now
  PROVE  /\ Claims(w, j) => /\ Holder(j) = NoWorker /\ Holder(j)' = w
                            /\ jobs[j].status \in {"queued", "leased"}
                            /\ jobs'[j].status = "leased"
         /\ Renews(w, j) => /\ Holder(j) = w /\ Holder(j)' = w
                            /\ jobs'[j].status = jobs[j].status
         /\ Finishes(w, j) \/ Requeues(w, j) \/ Buries(w, j)
              => /\ Holder(j) = w /\ Holder(j)' = NoWorker
                 /\ jobs'[j].status \in {"completed", "queued", "dead_letter"}
<1>a. jobs[j] \in Row /\ now \in Nat /\ txn[w].at \in Nat /\ txn[w].attempt \in Nat
  BY DEF ClaimInv, TypeOK
<1>b. OwnsLease(w, j) => Holder(j) = w
  BY <1>a DEF OwnsLease, Holder, Lapsed, Row, NoTime
<1>c. Claimable(j) => Holder(j) = NoWorker /\ jobs[j].status \in {"queued", "leased"}
  BY DEF Claimable, Holder
<1>d. now + LeaseSeconds > now /\ now + LeaseSeconds # NoTime
  BY <1>a DEF NoTime
<1>1. ASSUME Claims(w, j)
      PROVE  /\ Holder(j) = NoWorker /\ Holder(j)' = w
             /\ jobs[j].status \in {"queued", "leased"} /\ jobs'[j].status = "leased"
  <2>1. Claimable(j) /\ txn[w].at = now
    BY <1>1, CommitFindsRow
  <2>2. /\ jobs'[j].status = "leased" /\ jobs'[j].lease_owner = w
        /\ jobs'[j].lease_expires_at = now + LeaseSeconds
    BY <1>1, <1>a, <2>1, LeasedFields DEF Claims
  <2> QED
    BY <1>c, <1>d, <1>a, <2>1, <2>2 DEF Holder, Lapsed
<1>2. ASSUME Renews(w, j)
      PROVE  Holder(j) = w /\ Holder(j)' = w /\ jobs'[j].status = jobs[j].status
  <2>1. OwnsLease(w, j) /\ txn[w].at = now
    BY <1>2, CommitFindsRow
  <2>2. jobs'[j] = Renewed(jobs[j], now)
    BY <1>2, <1>a, <2>1 DEF Renews, WriteTimes
  <2>3. /\ jobs'[j].status = jobs[j].status
        /\ jobs'[j].lease_owner = jobs[j].lease_owner
        /\ jobs'[j].lease_expires_at = now + LeaseSeconds
    <3> DEFINE new == Renewed(jobs[j], now)
    <3>1. /\ new.status = jobs[j].status /\ new.lease_owner = jobs[j].lease_owner
          /\ new.lease_expires_at = now + LeaseSeconds
      BY <1>a, RenewedFields
    <3> QED
      BY <2>2, <3>1
  <2>4. jobs[j].status = "leased" /\ jobs[j].lease_owner = w
    BY <2>1 DEF OwnsLease
  <2> QED
    BY <1>b, <1>d, <1>a, <2>1, <2>3, <2>4 DEF Holder, Lapsed
<1>3. ASSUME Finishes(w, j) \/ Requeues(w, j) \/ Buries(w, j)
      PROVE  /\ Holder(j) = w /\ Holder(j)' = NoWorker
             /\ jobs'[j].status \in {"completed", "queued", "dead_letter"}
  <2>1. OwnsLease(w, j)
    BY <1>3, CommitFindsRow
  <2>2. Finishes(w, j) => jobs'[j].status = "completed"
    BY <1>a DEF Finishes, Unleased, Row
  <2>3. Requeues(w, j) => jobs'[j].status = "queued"
    BY <1>a, RequeuedFields DEF Requeues
  <2>4. Buries(w, j) => jobs'[j].status = "dead_letter"
    BY <1>a DEF Buries, Unleased, Row
  <2> QED
    BY <1>3, <1>b, <2>1, <2>2, <2>3, <2>4 DEF Holder
<1> QED
  BY <1>1, <1>2, <1>3

(* The clock's step lapses the leases that end at the new time.            *)
LEMMA TickLapses ==
  ASSUME ClaimInv, Tick
  PROVE  \E J \in SUBSET Job : Lease!Lapse(J)
<1> DEFINE J == {j \in Job : jobs[j].status = "leased" /\ Lapsed(jobs[j], now + 1)}
<1>1. now' = now + 1 /\ jobs' = jobs /\ now \in Nat /\ txn' = txn /\ envelope' = envelope
  BY DEF Tick, ClaimInv, TypeOK
<1>2. ASSUME NEW j \in Job
      PROVE  Holder(j)' = IF j \in J THEN NoWorker ELSE Holder(j)
  <2>1. jobs[j].lease_expires_at \in Nat \cup {NoTime}
    BY DEF ClaimInv, TypeOK, Row
  <2>2. Lapsed(jobs[j], now) => Lapsed(jobs[j], now + 1)
    BY <1>1, <2>1 DEF Lapsed, NoTime
  <2> QED
    BY <1>1, <2>2 DEF Holder
<1>3. OwnerMap' = [j \in Job |-> IF j \in J THEN NoWorker ELSE OwnerMap[j]]
  BY <1>2 DEF OwnerMap
<1>4. StatusMap' = StatusMap /\ WorkMap' = WorkMap
  BY <1>1 DEF StatusMap, WorkMap, WorksOn
<1> HIDE DEF J
<1>5. Lease!Lapse(J)
  BY <1>3, <1>4 DEF Lease!Lapse, StatusMap, OwnerMap, WorkMap
<1>6. J \in SUBSET Job
  BY DEF J
<1> QED
  BY <1>5, <1>6

(* The commit of a worker's transaction takes, keeps or closes its job.    *)
LEMMA CommitLeases ==
  ASSUME ClaimInv, ChecksHold, [Next]_vars, NEW w \in Worker, NEW j \in Job,
         \/ Claims(w, j) \/ Renews(w, j) \/ Finishes(w, j) \/ Requeues(w, j)
         \/ Buries(w, j)
  PROVE  [Lease!Next]_Lease!vars
<1>a. /\ now' = now /\ envelope[w].job = j
      /\ \A k \in Job \ {j} : jobs'[k] = jobs[k]
      /\ \A v \in Worker \ {w} : txn'[v] = txn[v] /\ envelope'[v] = envelope[v]
      /\ txn'[w] = NoTxn
  BY DEF ClaimInv, TypeOK, Claims, Renews, Finishes, Requeues, Buries, ClaimCommit,
     HeartbeatCommit, CompleteCommit, AbandonCommit, DeadLetterCommit, LetGo
<1>b. /\ StatusMap' = [StatusMap EXCEPT ![j] = jobs'[j].status]
      /\ OwnerMap' = [OwnerMap EXCEPT ![j] = Holder(j)']
      /\ WorkMap' = [WorkMap EXCEPT ![w] = WorksOn(w)']
  BY <1>a, UntouchedRows, UntouchedWork
<1>c. /\ StatusMap[j] = jobs[j].status /\ OwnerMap[j] = Holder(j)
      /\ WorkMap[w] = WorksOn(w) /\ j # NoJob
      /\ WorksOn(w)' = envelope'[w].job
  BY <1>a, JobAssumption DEF StatusMap, OwnerMap, WorkMap, WorksOn, NoTxn
<1>1. CASE Claims(w, j)
  <2>1. WorksOn(w) = NoJob /\ WorksOn(w)' = j
    BY <1>1, <1>a, <1>c DEF Claims, ClaimCommit, WorksOn
  <2>2. /\ Holder(j) = NoWorker /\ Holder(j)' = w /\ jobs'[j].status = "leased"
        /\ jobs[j].status \in {"queued", "leased"}
    BY <1>1, <1>a, HolderStep
  <2>3. Lease!Take(w, j)
    BY <1>b, <1>c, <2>1, <2>2 DEF Lease!Take, Lease!Available, StatusMap, OwnerMap, WorkMap
  <2> QED
    BY <2>3 DEF Lease!Next, Lease!WorkerStep
<1>2. CASE Renews(w, j)
  <2>1. WorksOn(w) = j /\ WorksOn(w)' = j
    BY <1>2, <1>a, <1>c DEF Renews, HeartbeatCommit, Writing, WorksOn
  <2>2. Holder(j)' = Holder(j) /\ jobs'[j].status = jobs[j].status
    BY <1>2, <1>a, HolderStep
  <2>3. StatusMap' = StatusMap /\ OwnerMap' = OwnerMap /\ WorkMap' = WorkMap
    BY <1>b, <2>1, <2>2 DEF StatusMap, OwnerMap, WorkMap
  <2> QED
    BY <2>3 DEF Lease!vars, StatusMap, OwnerMap, WorkMap
<1>3. CASE Finishes(w, j) \/ Requeues(w, j) \/ Buries(w, j)
  <2>1. WorksOn(w) = j /\ WorksOn(w)' = NoJob
    <3>1. txn[w].op # "claim"
      BY <1>3 DEF Finishes, Requeues, Buries, CompleteCommit, AbandonCommit,
         DeadLetterCommit, Burying, Writing
    <3>2. envelope'[w] = NoEnvelope
      BY <1>3 DEF ClaimInv, TypeOK, Finishes, Requeues, Buries, CompleteCommit,
         AbandonCommit, DeadLetterCommit, LetGo
    <3> QED
      BY <1>a, <1>c, <3>1, <3>2 DEF WorksOn, NoEnvelope
  <2>2. /\ Holder(j) = w /\ Holder(j)' = NoWorker
        /\ jobs'[j].status \in {"completed", "queued", "dead_letter"}
    BY <1>3, <1>a, HolderStep
  <2>3. PICK s \in {"completed", "queued", "dead_letter"} : s = jobs'[j].status
    BY <2>2
  <2>4. Lease!Close(w, s)
    BY <1>b, <1>c, <2>1, <2>2, <2>3 DEF Lease!Close, Lease!Holds, StatusMap, OwnerMap, WorkMap
  <2> QED
    BY <2>4 DEF Lease!Next, Lease!WorkerStep
<1> QED
  BY <1>1, <1>2, <1>3

(* A step that changes no row and not the clock starts or ends some work.  *)
LEMMA QuietLeases ==
  ASSUME TypeOK, NEW w \in Worker, now' = now, jobs' = jobs,
         \/ \E e \in Environment, j \in Job : ClaimSelect(w, e, j)
         \/ \E e \in Environment : ClaimNothing(w, e)
         \/ \E op \in LeaseOp : CheckLease(w, op)
         \/ LeaseLost(w) \/ DeadLetterConflict(w) \/ Crash(w)
  PROVE  [Lease!Next]_Lease!vars
<1>a. StatusMap' = StatusMap /\ OwnerMap' = OwnerMap
  BY DEF StatusMap, OwnerMap, Holder
<1>b. \A v \in Worker \ {w} : txn'[v] = txn[v] /\ envelope'[v] = envelope[v]
  BY DEF TypeOK, ClaimSelect, ClaimNothing, vars, CheckLease, LeaseLost,
     DeadLetterConflict, Crash, LetGo
<1>c. WorkMap' = [WorkMap EXCEPT ![w] = WorksOn(w)'] /\ WorkMap[w] = WorksOn(w)
  BY <1>b, UntouchedWork DEF WorkMap
<1>1. WorksOn(w)' = WorksOn(w) \/ WorksOn(w)' = NoJob
  <2>1. CASE \E e \in Environment, j \in Job : ClaimSelect(w, e, j)
    BY <2>1 DEF ClaimSelect, TypeOK, WorksOn
  <2>2. CASE \E e \in Environment : ClaimNothing(w, e)
    BY <2>2 DEF ClaimNothing, vars, WorksOn
  <2>3. CASE \E op \in LeaseOp : CheckLease(w, op)
    BY <2>3 DEF CheckLease, TypeOK, WorksOn, Idle, LeaseOp
  <2>4. CASE LeaseLost(w)
    BY <2>4 DEF LeaseLost, TypeOK, WorksOn, NoEnvelope
  <2>5. CASE DeadLetterConflict(w) \/ Crash(w)
    BY <2>5 DEF DeadLetterConflict, Crash, LetGo, TypeOK, WorksOn, NoEnvelope
  <2> QED
    BY <2>1, <2>2, <2>3, <2>4, <2>5
<1>2. CASE WorksOn(w)' = WorksOn(w)
  <2>1. WorkMap' = WorkMap
    BY <1>c, <1>2 DEF WorkMap
  <2> QED
    BY <1>a, <2>1 DEF Lease!vars, StatusMap, OwnerMap, WorkMap
<1>3. CASE WorksOn(w) # NoJob /\ WorksOn(w)' = NoJob
  <2>1. Lease!Leave(w)
    BY <1>a, <1>c, <1>3 DEF Lease!Leave, StatusMap, OwnerMap, WorkMap
  <2> QED
    BY <2>1 DEF Lease!Next, Lease!WorkerStep
<1> QED
  BY <1>1, <1>2, <1>3

LEMMA EnqueueSubmits ==
  ASSUME TypeOK, NEW j \in Job, Enqueue(j)
  PROVE  Lease!Submit(j)
<1>1. /\ now' = now /\ txn' = txn /\ envelope' = envelope
      /\ \A k \in Job \ {j} : jobs'[k] = jobs[k]
      /\ jobs[j].status = "absent" /\ jobs'[j].status = "queued"
  BY DEF Enqueue, TypeOK, QueuedRow, AbsentRow
<1>2. Holder(j)' = Holder(j)
  BY <1>1 DEF Holder
<1>3. /\ StatusMap' = [StatusMap EXCEPT ![j] = "queued"] /\ StatusMap[j] = "absent"
      /\ OwnerMap' = OwnerMap /\ WorkMap' = WorkMap
  BY <1>1, <1>2, UntouchedRows DEF StatusMap, OwnerMap, WorkMap, WorksOn
<1> QED
  BY <1>3 DEF Lease!Submit, StatusMap, OwnerMap, WorkMap

(* Refinement: short against the clock, the queue's rows, locks and        *)
(* two-step lease operations give its handlers exactly JobLease, one       *)
(* holder at a time and no job moved on but by its holder's hand.          *)
THEOREM QueueImplementsLease ==
  ASSUME Stall = FALSE PROVE Spec => ImplementsLease
<1>1. Init => Lease!Init
  <2> SUFFICES ASSUME Init PROVE Lease!Init
    OBVIOUS
  <2>1. StatusMap \in [Job -> {"absent", "queued"}]
    BY DEF Init, AbsentRow, StatusMap
  <2>2. OwnerMap = [j \in Job |-> NoWorker]
    BY DEF Init, AbsentRow, OwnerMap, Holder
  <2>3. WorkMap = [w \in Worker |-> NoJob]
    BY DEF Init, NoTxn, NoEnvelope, WorkMap, WorksOn
  <2> QED
    BY <2>1, <2>2, <2>3 DEF Lease!Init, StatusMap, OwnerMap, WorkMap
<1>2. ASSUME ShortInv, [Next]_vars PROVE [Lease!Next]_Lease!vars
  <2>a. ClaimInv /\ ChecksHold /\ TypeOK
    BY <1>2 DEF ShortInv, ClaimInv
  <2>1. CASE Tick
    BY <2>1, <2>a, TickLapses DEF Lease!Next
  <2>2. ASSUME NEW j \in Job, Enqueue(j) PROVE [Lease!Next]_Lease!vars
    BY <2>2, <2>a, EnqueueSubmits DEF Lease!Next
  <2>3. ASSUME NEW w \in Worker,
               \/ ClaimCommit(w) \/ HeartbeatCommit(w) \/ CompleteCommit(w)
               \/ (\E d \in Delays : AbandonCommit(w, d)) \/ DeadLetterCommit(w)
        PROVE  [Lease!Next]_Lease!vars
    <3> DEFINE j == envelope[w].job
    <3>1. j \in Job /\ txn[w].at \in 0 .. now
      BY <2>3, <2>a DEF ClaimInv, TxnsOpen, TypeOK, Idle, ClaimCommit, HeartbeatCommit,
         CompleteCommit, AbandonCommit, DeadLetterCommit, Burying, Writing
    <3>2. \/ Claims(w, j) \/ Renews(w, j) \/ Finishes(w, j) \/ Requeues(w, j)
          \/ Buries(w, j)
      <4>1. ClaimCommit(w) => Claims(w, j)
        BY <3>1, <2>a DEF ClaimCommit, Claims, TypeOK
      <4>2. HeartbeatCommit(w) => Renews(w, j)
        BY <3>1, <2>a DEF HeartbeatCommit, Renews, TypeOK
      <4>3. CompleteCommit(w) => Finishes(w, j)
        BY <3>1, <2>a DEF CompleteCommit, Finishes, TypeOK
      <4>4. DeadLetterCommit(w) => Buries(w, j)
        BY <3>1, <2>a DEF DeadLetterCommit, Buries, TypeOK
      <4>5. ASSUME NEW d \in Delays, AbandonCommit(w, d) PROVE Requeues(w, j)
        <5>1. PICK t \in WriteTimes(w) :
                jobs' = [jobs EXCEPT ![envelope[w].job] = Requeued(@, t + d)]
          BY <4>5 DEF AbandonCommit
        <5>2. t + d \in Nat
          BY <2>a, <3>1 DEF WriteTimes, TypeOK
        <5>3. jobs'[j] = Requeued(jobs[j], t + d)
          BY <5>1, <3>1, <2>a DEF TypeOK
        <5> QED
          BY <4>5, <5>2, <5>3 DEF Requeues
      <4> QED
        BY <2>3, <4>1, <4>2, <4>3, <4>4, <4>5
    <3> QED
      BY <1>2, <2>a, <3>1, <3>2, CommitLeases
  <2>4. ASSUME NEW w \in Worker,
               \/ \E e \in Environment, j \in Job : ClaimSelect(w, e, j)
               \/ \E e \in Environment : ClaimNothing(w, e)
               \/ \E op \in LeaseOp : CheckLease(w, op)
               \/ LeaseLost(w) \/ DeadLetterConflict(w) \/ Crash(w)
        PROVE  [Lease!Next]_Lease!vars
    <3>1. now' = now /\ jobs' = jobs
      BY <2>4 DEF ClaimSelect, ClaimNothing, vars, CheckLease, LeaseLost,
         DeadLetterConflict, Crash
    <3> QED
      BY <2>4, <2>a, <3>1, QuietLeases
  <2>5. CASE UNCHANGED vars
    BY <2>5 DEF vars, Lease!vars, Holder, WorksOn
  <2> QED
    BY <1>2, <2>1, <2>2, <2>3, <2>4, <2>5 DEF Next, WorkerStep
<1> QED
  BY <1>1, <1>2, ShortInvariant, PTL DEF Spec, ImplementsLease, Lease!Spec

=============================================================================
