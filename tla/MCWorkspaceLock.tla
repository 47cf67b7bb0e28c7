--------------------------- MODULE MCWorkspaceLock ---------------------------
(* Two requests for one workspace: a waits for the lock (Acquire), b tries  *)
(* once (TryAcquire) and renews (KeepAlive), on a replica whose clock runs  *)
(* ahead.                                                                   *)
EXTENDS WorkspaceLock, TLC

CONSTANTS a, b

TwoSkewed == a :> 0 @@ b :> 1
=============================================================================
