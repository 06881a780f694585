------------------------------ MODULE MCAccess ------------------------------
(* Access for TLC: browsers and operators' requests are interchangeable.    *)
EXTENDS Access, TLC

Symmetry == Permutations(Browser) \cup Permutations(Change)
=============================================================================
