----------------------- MODULE MCWorkspaceLifecycle -----------------------
(* A provision p1, a start u, a stop s and a delete d1 of one workspace.   *)
EXTENDS WorkspaceLifecycle

CONSTANTS p1, u, s, d1

\* The properties say nothing of what follows an overrun lease: behaviours are
\* explored up to the first one.
UntilOverrun == ~overran
===========================================================================
