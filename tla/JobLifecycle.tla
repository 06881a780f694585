---------------------------- MODULE JobLifecycle ----------------------------
(***************************************************************************)
(* What the durable queue promises about one job after another, whoever    *)
(* the workers are and whatever happens to them: a job is attempted any    *)
(* number of times (a worker may die in each attempt), goes back to the    *)
(* queue only while its retry budget lasts, and ends once, completed or    *)
(* dead-lettered.                                                          *)
(***************************************************************************)
EXTENDS Integers

CONSTANTS Job, MaxAttempts

VARIABLES status, attempt

vars == <<status, attempt>>

Init == /\ status = [j \in Job |-> "absent"]
        /\ attempt = [j \in Job |-> 0]

Move(j, from, to) == /\ status[j] \in from
                     /\ status' = [status EXCEPT ![j] = to]

Submit(j) == Move(j, {"absent"}, "queued") /\ UNCHANGED attempt

Attempt(j) == /\ Move(j, {"queued", "leased"}, "leased")
              /\ attempt' = [attempt EXCEPT ![j] = @ + 1]

Retry(j) == /\ Move(j, {"leased"}, "queued")
            /\ attempt[j] < MaxAttempts
            /\ UNCHANGED attempt

Finish(j) == Move(j, {"leased"}, "completed") /\ UNCHANGED attempt

Bury(j) == Move(j, {"leased"}, "dead_letter") /\ UNCHANGED attempt

Next == \E j \in Job : Submit(j) \/ Attempt(j) \/ Retry(j) \/ Finish(j) \/ Bury(j)

Spec == Init /\ [][Next]_vars

=============================================================================
