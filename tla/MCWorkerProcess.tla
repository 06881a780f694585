--------------------------- MODULE MCWorkerProcess ---------------------------
(* Jobs of two environments for the runs of WorkerProcess. *)
EXTENDS WorkerProcess

CONSTANTS j1, j2

MCEnvironmentOf == [j \in Job |-> IF j = j1 THEN 1 ELSE 2]

=============================================================================
