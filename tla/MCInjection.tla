----------------------------- MODULE MCInjection -----------------------------
(* Requests for the workspaces of one workload, and the watchers of the     *)
(* replicas.                                                                *)
EXTENDS Injection

CONSTANTS wa, wb, r1, r2, i1
=============================================================================
