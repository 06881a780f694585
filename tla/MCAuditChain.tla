---------------------------- MODULE MCAuditChain ----------------------------
(* AuditChain for TLC: writers and anchorers are interchangeable. *)
EXTENDS AuditChain, TLC

Symmetry == Permutations(Writer) \cup Permutations(Anchorer)
=============================================================================
