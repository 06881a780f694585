------------------------------ MODULE JobLease ------------------------------
(***************************************************************************)
(* What a handler may take for granted of the durable queue: who holds the *)
(* active lease of a job, and who still works on a job whose lease is      *)
(* gone.  A job is handed out while nobody's lease of it is active, and    *)
(* only the worker whose lease is active moves it on.  A lease may lapse   *)
(* at any moment, several at once, and a worker may leave its work at any  *)
(* moment; it is not told of the first, and the lease outlives the second. *)
(*                                                                         *)
(* JobQueue implements this from rows, transactions and a clock; FullSync, *)
(* WatermarkSync and Dispatch take their jobs by it.                       *)
(***************************************************************************)
CONSTANTS Job, NoJob, Worker, NoWorker

VARIABLES status,   \* of each job
          owner,    \* who holds an active lease of it, or NoWorker
          work      \* the job each worker works on, or NoJob

vars == <<status, owner, work>>

Init ==
  /\ status \in [Job -> {"absent", "queued"}]
  /\ owner = [j \in Job |-> NoWorker]
  /\ work = [w \in Worker |-> NoJob]

Submit(j) ==
  /\ status[j] = "absent"
  /\ status' = [status EXCEPT ![j] = "queued"]
  /\ UNCHANGED <<owner, work>>

Available(j) ==
  \/ status[j] = "queued"
  \/ status[j] = "leased" /\ owner[j] = NoWorker

Take(w, j) ==
  /\ work[w] = NoJob
  /\ Available(j)
  /\ status' = [status EXCEPT ![j] = "leased"]
  /\ owner' = [owner EXCEPT ![j] = w]
  /\ work' = [work EXCEPT ![w] = j]

Lapse(J) ==
  /\ owner' = [j \in Job |-> IF j \in J THEN NoWorker ELSE owner[j]]
  /\ UNCHANGED <<status, work>>

Holds(w) == work[w] # NoJob /\ owner[work[w]] = w

Close(w, s) ==
  /\ Holds(w)
  /\ status' = [status EXCEPT ![work[w]] = s]
  /\ owner' = [owner EXCEPT ![work[w]] = NoWorker]
  /\ work' = [work EXCEPT ![w] = NoJob]

Leave(w) ==
  /\ work[w] # NoJob
  /\ work' = [work EXCEPT ![w] = NoJob]
  /\ UNCHANGED <<status, owner>>

WorkerStep(w) ==
  \/ \E j \in Job : Take(w, j)
  \/ \E s \in {"completed", "queued", "dead_letter"} : Close(w, s)
  \/ Leave(w)

Next ==
  \/ \E j \in Job : Submit(j)
  \/ \E J \in SUBSET Job : Lapse(J)
  \/ \E w \in Worker : WorkerStep(w)

Spec == Init /\ [][Next]_vars

=============================================================================
