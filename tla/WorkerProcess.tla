--------------------------- MODULE WorkerProcess ---------------------------
(***************************************************************************)
(* The worker loops around the durable queue: WorkerProcess.run_forever    *)
(* and run_cycle (jobs/process.py), WorkerRunner.run_once (jobs/worker.py) *)
(* and the thread that hosts them (jobs/embedded.py).  What a handler does *)
(* with the job is its outcome: a page done, a normal return, or an        *)
(* exception of one of the three kinds run_once tells apart.               *)
(*                                                                         *)
(* run_once calls the queue again inside its except clauses.  When that    *)
(* call raises too (the lease is gone), nothing catches it: the loop ends, *)
(* and start_embedded_worker runs only when the web process starts.        *)
(***************************************************************************)
EXTENDS Integers

CONSTANTS Job, Environment, EnvironmentOf, Worker, NoJob, NoWorker,
          MaxAttempts, LeaseSeconds, Delays, Stall, MaxNow,
          Overrun,        \* may a handler run past its lease?
          Mortal          \* the workers whose process may be killed or asked to stop

ASSUME EnvironmentOrder == Environment \subseteq Nat
ASSUME JobsPlaced       == EnvironmentOf \in [Job -> Environment]
ASSUME UnexpectedDelay  == 0 \in Delays
ASSUME QueueAssumption  == /\ NoJob \notin Job /\ NoWorker \notin Worker
                           /\ MaxAttempts \in Nat \ {0} /\ LeaseSeconds \in Nat \ {0}
                           /\ Delays \subseteq Nat /\ MaxNow \in Nat
                           /\ Stall \in BOOLEAN
ASSUME MortalAssumption == Mortal \subseteq Worker /\ Overrun \in BOOLEAN

VARIABLES now, jobs, deadLetters, envelope, txn,
          pc,           \* where each loop is
          cycle,        \* environments left in the current run_cycle
          stop          \* _stop_requested

queueVars == <<now, jobs, deadLetters, envelope, txn>>
vars == <<queueVars, pc, cycle, stop>>

Queue == INSTANCE JobQueue

(* "raised" marks the except clauses; run_once knows which one it is in.   *)
Raised == {"retryable", "terminal", "unexpected"}
AtWork == {"handling", "returned"} \cup Raised
Live   == {"polling", "cycle", "claim"} \cup AtWork
PC     == Live \cup {"stopped", "dead"}

TypeOK ==
  /\ Queue!TypeOK
  /\ pc \in [Worker -> PC]
  /\ cycle \in [Worker -> SUBSET Environment]
  /\ stop \in [Worker -> BOOLEAN]

Init ==
  /\ Queue!Init
  /\ pc = [w \in Worker |-> "polling"]
  /\ cycle = [w \in Worker |-> {}]
  /\ stop = [w \in Worker |-> FALSE]

Goto(w, label) == pc' = [pc EXCEPT ![w] = label]

-----------------------------------------------------------------------------
(* run_forever and run_cycle *)

(* Mutant: lapsed leases do not count as work. *)
QueuedEnvironments == {EnvironmentOf[j] : j \in {k \in Job : jobs[k].status = "queued"}}

ClaimableEnvironments == {EnvironmentOf[j] : j \in {k \in Job : Queue!Claimable(k)}}

Stop(w) ==
  /\ pc[w] = "polling" /\ stop[w]
  /\ Goto(w, "stopped")
  /\ UNCHANGED <<queueVars, cycle, stop>>

(* Mutant: the loop never looks at the stop flag. *)
StartCycleAnyway(w) ==
  /\ pc[w] = "polling"
  /\ cycle' = [cycle EXCEPT ![w] = ClaimableEnvironments]
  /\ Goto(w, "cycle")
  /\ UNCHANGED <<queueVars, stop>>

(* The list of environments is read once per cycle and is stale from then. *)
StartCycle(w) ==
  /\ pc[w] = "polling" /\ ~stop[w]
  /\ cycle' = [cycle EXCEPT ![w] = ClaimableEnvironments]
  /\ Goto(w, "cycle")
  /\ UNCHANGED <<queueVars, stop>>

(* After a cycle that found nothing the loop sleeps, which only takes time. *)
EndCycle(w) ==
  /\ pc[w] = "cycle"
  /\ stop[w] \/ cycle[w] = {}
  /\ cycle' = [cycle EXCEPT ![w] = {}]
  /\ Goto(w, "polling")
  /\ UNCHANGED <<queueVars, stop>>

(* ORDER BY environment_id *)
Current(w) == CHOOSE e \in cycle[w] : \A f \in cycle[w] : e <= f

-----------------------------------------------------------------------------
(* run_once: the claim, committed before any I/O *)

(* The stop flag is looked at before each environment. *)
AtNextEnvironment(w) == pc[w] = "cycle" /\ ~stop[w] /\ cycle[w] # {}

Claim(w) ==
  /\ AtNextEnvironment(w)
  /\ \E j \in Job : Queue!ClaimSelect(w, Current(w), j)
  /\ Goto(w, "claim")
  /\ UNCHANGED <<cycle, stop>>

ClaimCommit(w) ==
  /\ pc[w] = "claim"
  /\ Queue!ClaimCommit(w)
  /\ Goto(w, "handling")
  /\ cycle' = [cycle EXCEPT ![w] = @ \ {Current(w)}]
  /\ UNCHANGED stop

(* Mutant: a run_once that finds nothing ends the cycle. *)
NothingEndsCycle(w) ==
  /\ AtNextEnvironment(w)
  /\ Queue!ClaimNothing(w, Current(w))
  /\ cycle' = [cycle EXCEPT ![w] = {}]
  /\ UNCHANGED <<pc, stop>>

NothingToClaim(w) ==
  /\ AtNextEnvironment(w)
  /\ Queue!ClaimNothing(w, Current(w))
  /\ cycle' = [cycle EXCEPT ![w] = @ \ {Current(w)}]
  /\ UNCHANGED <<pc, stop>>

-----------------------------------------------------------------------------
(* run_once: _revalidate_scope and the handler *)

(* A page was stored: the handler renews the lease and commits. *)
HeartbeatCheck(w) ==
  /\ pc[w] = "handling"
  /\ Queue!CheckLease(w, "heartbeat")
  /\ UNCHANGED <<pc, cycle, stop>>

HeartbeatCommit(w) ==
  /\ Queue!HeartbeatCommit(w)
  /\ UNCHANGED <<pc, cycle, stop>>

(* The handler ends: it returns, or it or _revalidate_scope raises. *)
HandlerEnds(w) ==
  /\ pc[w] = "handling" /\ Queue!Idle(w)
  /\ \E end \in {"returned"} \cup Raised : Goto(w, end)
  /\ UNCHANGED <<queueVars, cycle, stop>>

(* InvalidJobState inside the try, from heartbeat() or complete(), is an   *)
(* unexpected exception like any other.                                    *)
LeaseFoundLost(w) ==
  /\ pc[w] \in {"handling", "returned"}
  /\ Queue!Idle(w)
  /\ ~Queue!OwnsLease(w, envelope[w].job)
  /\ Goto(w, "unexpected")
  /\ UNCHANGED <<queueVars, cycle, stop>>

-----------------------------------------------------------------------------
(* run_once: the last call to the queue *)

LastCall(w) == CASE pc[w] = "returned" -> "complete"
                 [] pc[w] = "terminal" -> "dead_letter"
                 [] OTHER              -> "abandon"

(* Only a RetryableJobError asks for a delay. *)
DelaysOf(w) == IF pc[w] = "retryable" THEN Delays ELSE {0}

LastCheck(w) ==
  /\ pc[w] \in {"returned"} \cup Raised
  /\ Queue!CheckLease(w, LastCall(w))
  /\ UNCHANGED <<pc, cycle, stop>>

JobClosed(w) ==
  /\ \/ Queue!CompleteCommit(w)
     \/ \E d \in DelaysOf(w) : Queue!AbandonCommit(w, d)
     \/ Queue!DeadLetterCommit(w)
  /\ Goto(w, "cycle")
  /\ UNCHANGED <<cycle, stop>>

(* An exception from an except clause leaves run_once, run_cycle and       *)
(* run_forever; the thread logs it and ends.                               *)
Dies(w) == /\ Goto(w, "dead")
           /\ cycle' = [cycle EXCEPT ![w] = {}]
           /\ UNCHANGED stop

(* Mutant: run_forever catches the exception and goes on with its cycle. *)
LoopGoesOn(w) ==
  /\ pc[w] \in Raised
  /\ Queue!LeaseLost(w) \/ Queue!DeadLetterConflict(w)
  /\ Goto(w, "cycle")
  /\ UNCHANGED <<cycle, stop>>

LoopDies(w) ==
  /\ pc[w] \in Raised
  /\ Queue!LeaseLost(w) \/ Queue!DeadLetterConflict(w)
  /\ Dies(w)

-----------------------------------------------------------------------------
(* The environment *)

RequestStop(w) ==
  /\ w \in Mortal /\ pc[w] \in Live /\ ~stop[w]
  /\ stop' = [stop EXCEPT ![w] = TRUE]
  /\ UNCHANGED <<queueVars, pc, cycle>>

Kill(w) ==
  /\ w \in Mortal /\ pc[w] \in Live
  /\ \/ Queue!Crash(w)
     \/ Queue!Free(w) /\ UNCHANGED queueVars
  /\ Dies(w)

Enqueue == /\ \E j \in Job : Queue!Enqueue(j)
           /\ UNCHANGED <<pc, cycle, stop>>

(* Without Overrun a handler renews its lease, or ends, before it lapses.  *)
InTime(w) == ~Queue!Free(w) => jobs[envelope[w].job].lease_expires_at > now + 1

Tick == /\ Queue!Tick
        /\ Overrun \/ \A w \in Worker : InTime(w)
        /\ UNCHANGED <<pc, cycle, stop>>

Step(w) ==
  \/ Stop(w) \/ StartCycle(w) \/ EndCycle(w)
  \/ Claim(w) \/ ClaimCommit(w) \/ NothingToClaim(w)
  \/ HeartbeatCheck(w) \/ HeartbeatCommit(w) \/ HandlerEnds(w) \/ LeaseFoundLost(w)
  \/ LastCheck(w) \/ JobClosed(w) \/ LoopDies(w)

Next ==
  \/ Tick
  \/ Enqueue
  \/ \E w \in Worker : Step(w) \/ RequestStop(w) \/ Kill(w)

(* A loop that is alive goes on, and a handler comes to an end: Graph's    *)
(* pages are finitely many.  Nothing is assumed of the clock, of callers   *)
(* of enqueue, of kills, or of anybody restarting a loop.                  *)
Fairness == \A w \in Worker : WF_vars(Step(w)) /\ SF_vars(HandlerEnds(w))

Spec == Init /\ [][Next]_vars /\ Fairness

-----------------------------------------------------------------------------
(* How an environment comes off w's list: a job of it is leased to w, or   *)
(* all that was on offer has been taken since, or w's loop is at its end.  *)
Served(w, e) ==
  \/ \E j \in Job : EnvironmentOf[j] = e /\ jobs'[j].status = "leased" /\ jobs'[j].lease_owner = w
  \/ Queue!Eligible(e) = {}
  \/ stop[w] \/ pc'[w] = "dead"

(* A cycle lists every environment in which the queue offers something,    *)
(* lapsed leases included, and none is skipped: however stale the list has *)
(* become, and whatever other workers take from it, an environment comes   *)
(* off it only when it is served.                                          *)
EnvironmentsServed ==
  [][\A w \in Worker :
       /\ pc[w] = "polling" /\ pc'[w] = "cycle" =>
            \A j \in Job : Queue!Claimable(j) => EnvironmentOf[j] \in cycle'[w]
       /\ \A e \in cycle[w] \ cycle'[w] : Served(w, e)]_vars

(* A leased row that nobody works on comes from a loop that died: as long  *)
(* as a loop lives, the rows it holds are the one it is handling.  No way  *)
(* out of run_once, through complete() or any of the except clauses, goes  *)
(* on to the next job with a row still leased to this worker.              *)
LeasedIsInHand ==
  \A w \in Worker, j \in Job :
    /\ jobs[j].status = "leased" /\ jobs[j].lease_owner = w
    /\ pc[w] # "dead"
    => pc[w] \in AtWork /\ envelope[w].job = j

(* A worker asked to stop drains: it finishes the job it holds, takes no   *)
(* further one, and ends.                                                  *)
StopDrains == \A w \in Worker : stop[w] ~> pc[w] \notin Live

(* The background worker handles what is queued: work the queue offers is  *)
(* taken, in whatever environment it waits, lapsed leases included.        *)
OfferedIsTaken == \A j \in Job : Queue!Claimable(j) ~> ~Queue!Claimable(j)

(* The same, as long as one of the loops lives.                            *)
OfferedIsTakenByLiveWorker ==
  (\E w \in Worker : [](pc[w] \in Live)) => OfferedIsTaken

=============================================================================
