----------------------------- MODULE MCDiscovery -----------------------------
(* A standalone workspace and one in a workload of namespace apps.          *)
EXTENDS Discovery, TLC

CONSTANTS wa, wi, c1, c2, apps, home

InApps == [w \in Injected |-> apps]

\* A list of everything, lookups of wa before a change and for reading, and
\* requests by userstr.
Asked == {[name |-> None, cached |-> TRUE, scope |-> Everywhere],
          [name |-> None, cached |-> FALSE, scope |-> Everywhere],
          [name |-> wa, cached |-> TRUE, scope |-> {"standalone"}],
          [name |-> None, cached |-> TRUE, scope |-> {"injected"}]}

CallerSymmetry == Permutations(Callers)
=============================================================================
