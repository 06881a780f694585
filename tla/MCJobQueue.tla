----------------------------- MODULE MCJobQueue -----------------------------
(* Model values and symmetry for the runs of JobQueue. *)
EXTENDS JobQueue, TLC

MCEnvironmentOf == [j \in Job |-> 1]
Symmetry == Permutations(Job) \cup Permutations(Worker)

=============================================================================
