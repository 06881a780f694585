----------------------------- MODULE MCDispatch -----------------------------
(* Dispatch for TLC: requests, memberships, operations and workers are each *)
(* interchangeable among themselves.                                        *)
EXTENDS Dispatch, TLC

Symmetry == Permutations(Request) \cup Permutations(Member)
            \cup Permutations(Operation) \cup Permutations(Worker)
=============================================================================
