---------------------------- MODULE MCUserCleanup ----------------------------
(* A standalone workspace, an injected one, and two calls.                  *)
EXTENDS UserCleanup

CONSTANTS wa, wi, c1, c2

\* Deletes only and no faults, or every kind of request and every fault.
CalmOrFaulty == {[faulty |-> FALSE, others |-> {"delete"}],
                 [faulty |-> TRUE, others |-> {"provision", "stop", "delete"}]}
=============================================================================
