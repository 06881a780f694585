--------------------------- MODULE MCWatermarkSync ---------------------------
(* WatermarkSync for TLC: jobs and workers are interchangeable.  A second   *)
(* has three ticks, and the first two events share one.                     *)
EXTENDS WatermarkSync, TLC

MCCreated == <<1, 2, 3>>

Symmetry == Permutations(Job) \cup Permutations(Worker)
=============================================================================
