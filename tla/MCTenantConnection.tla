------------------------- MODULE MCTenantConnection -------------------------
(* TenantConnection for TLC.  No symmetry: the run checks liveness. *)
EXTENDS TenantConnection
=============================================================================
