----------------------------- MODULE MCFullSync -----------------------------
(* FullSync for TLC: jobs and workers are interchangeable, objects are not. *)
EXTENDS FullSync, TLC

CONSTANTS o1, o2

MCPageOf == [o \in Object |-> IF o = o1 THEN 1 ELSE 2]

Symmetry == Permutations(Job) \cup Permutations(Worker)
=============================================================================
