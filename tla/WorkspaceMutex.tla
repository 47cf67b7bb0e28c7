--------------------------- MODULE WorkspaceMutex ---------------------------
(***************************************************************************)
(* What a workspace lock promises its callers: "One lock per workspace     *)
(* prevents concurrent install, upgrade, or delete operations across       *)
(* replicas" (internal/workspace/lock.go).  The owners are the lock        *)
(* instances whose caller runs its critical section.                       *)
(***************************************************************************)
CONSTANT Instances   \* the lock objects created by NewWorkspaceLock

VARIABLE owners      \* the instances inside their critical section

Init == owners = {}

\* Acquire or TryAcquire returns true.
Enter(i) ==
    /\ owners = {}
    /\ owners' = {i}

\* The owner starts Release, or its replica dies.
Exit(i) ==
    /\ i \in owners
    /\ owners' = owners \ {i}

Next == \E i \in Instances : Enter(i) \/ Exit(i)

Spec == Init /\ [][Next]_owners
=============================================================================
