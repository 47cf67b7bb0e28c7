---------------------------- MODULE WorkspaceLock ----------------------------
(***************************************************************************)
(* The distributed workspace mutex of internal/workspace/lock.go, kept in  *)
(* a Kubernetes Lease.  Several lock instances, one per request and        *)
(* replica, compete for one Lease.  Every API call is a step of its own,   *)
(* so the value an instance read may be stale when it writes.  The API     *)
(* server orders all writes and gives each a fresh resource version.       *)
(* Replica clocks differ by a constant offset.  A replica may crash at any *)
(* point, and the answer to a write that was applied may be lost.          *)
(*                                                                         *)
(* Each request creates its own instance (Workspace.CreateLock), so an     *)
(* instance runs Acquire or TryAcquire once and Release once.              *)
(***************************************************************************)
EXTENDS Integers

CONSTANTS
    Instances,   \* lock instances; each has a holderID of its own
    NoHolder,    \* the holder of a Lease that does not exist
    Waiters,     \* the instances that call Acquire; the others TryAcquire
    Keepers,     \* the instances whose caller runs KeepAlive
    Skew,        \* offset of each instance's wall clock from true time
    TTL,         \* lease duration (30 s in the code)
    RenewEvery,  \* KeepAlive interval (10 s in the code)
    Timeout,     \* timeout of the context Acquire runs under
    MaxTime      \* bound: the clock stops here

ASSUME LockConstants ==
    /\ NoHolder \notin Instances
    /\ Waiters \subseteq Instances
    /\ Keepers \subseteq Instances
    /\ Skew \in [Instances -> Nat]
    /\ {TTL, RenewEvery, Timeout, MaxTime} \subseteq Nat

VARIABLES
    now,       \* true time
    lease,     \* the Lease object in the API server
    rvs,       \* the last resource version the API server handed out
    stray,     \* history: a Release has deleted the Lease of another instance
    pc,        \* where each instance's caller is
    seen,      \* the Lease each instance read last in AcquireWithOptions
    stamp,     \* true time at which each instance took the RenewTime it writes
    deadline,  \* when the context of each instance's Acquire expires
    kpc,       \* where each instance's KeepAlive goroutine is
    kseen,     \* the Lease Renew read
    kstamp     \* true time at which Renew took the RenewTime it writes

acquireVars == <<pc, seen, stamp, deadline>>
keepVars    == <<kpc, kseen, kstamp>>
storeVars   == <<lease, rvs, stray>>
vars        == <<now, storeVars, acquireVars, keepVars>>

Lease   == [holder : Instances \union {NoHolder}, renew : Nat, rv : Nat]
NoLease == [holder |-> NoHolder, renew |-> 0, rv |-> 0]

PC  == {"idle", "get", "got", "create", "update", "backoff", "held",
        "rget", "rdelete", "done", "failed", "crashed"}
KPC == {"off", "idle", "got", "put", "dead"}

\* A live call of AcquireWithOptions.
Acquiring == {"get", "got", "create", "update", "backoff"}
Ended     == {"done", "failed", "crashed"}

TypeOK ==
    /\ now \in Nat
    /\ lease \in Lease
    /\ rvs \in Nat
    /\ stray \in BOOLEAN
    /\ pc \in [Instances -> PC]
    /\ seen \in [Instances -> Lease]
    /\ stamp \in [Instances -> Nat]
    /\ deadline \in [Instances -> Nat]
    /\ kpc \in [Instances -> KPC]
    /\ kseen \in [Instances -> Lease]
    /\ kstamp \in [Instances -> Nat]

Init ==
    /\ now = 0
    /\ lease = NoLease
    /\ rvs = 0
    /\ stray = FALSE
    /\ pc = [i \in Instances |-> "idle"]
    /\ seen = [i \in Instances |-> NoLease]
    /\ stamp = [i \in Instances |-> 0]
    /\ deadline = [i \in Instances |-> 0]
    /\ kpc = [i \in Instances |-> "off"]
    /\ kseen = [i \in Instances |-> NoLease]
    /\ kstamp = [i \in Instances |-> 0]

-----------------------------------------------------------------------------
(* The API server and the clocks.                                          *)

Clock(i)  == now + Skew[i]
Exists(l) == l.holder # NoHolder

\* A write of the Lease by i whose RenewTime was taken at true time t.
Write(i, t) ==
    /\ lease' = [holder |-> i, renew |-> t + Skew[i], rv |-> rvs + 1]
    /\ rvs' = rvs + 1
    /\ UNCHANGED stray

AnyVersion(l) == Exists(lease)    \* mutant: Update without resourceVersion

\* The optimistic concurrency check of Update: the object that was read is
\* still the stored one.
SameVersion(l) == Exists(lease) /\ l.rv = lease.rv

AvailableEarly(l, i) == Clock(i) + 1 > l.renew + TTL   \* mutant: !Before

\* isLeaseAvailable: the lease the instance read has run out on its clock.
IsLeaseAvailable(l, i) == Clock(i) > l.renew + TTL

CtxDone(i) == now >= deadline[i]

Goto(i, p) == pc' = [pc EXCEPT ![i] = p]

\* After an attempt that did not get the lease: Acquire sleeps and loops,
\* TryAcquire returns ErrLockAlreadyHeld.
Retry(i) == IF i \in Waiters THEN "backoff" ELSE "failed"

-----------------------------------------------------------------------------
(* AcquireWithOptions.                                                     *)

\* The caller creates a lock instance and calls Acquire or TryAcquire.
Begin(i) ==
    /\ pc[i] = "idle"
    /\ now + Timeout <= MaxTime
    /\ Goto(i, "get")
    /\ deadline' = [deadline EXCEPT ![i] = now + Timeout]
    /\ UNCHANGED <<now, storeVars, seen, stamp, keepVars>>

\* The head of the loop: give up when the context is done, else read the
\* Lease.  A failed read is returned to the caller.
Get(i) ==
    /\ pc[i] = "get"
    /\ \/ /\ ~CtxDone(i)
          /\ seen' = [seen EXCEPT ![i] = lease]
          /\ Goto(i, "got")
       \/ /\ Goto(i, "failed")
          /\ UNCHANGED seen
    /\ UNCHANGED <<now, storeVars, stamp, deadline, keepVars>>

\* Look at the answer, and take the RenewTime of the write that follows.
Decide(i) ==
    /\ pc[i] = "got"
    /\ \/ /\ ~Exists(seen[i])
          /\ Goto(i, "create")
          /\ stamp' = [stamp EXCEPT ![i] = now]
       \/ /\ Exists(seen[i]) /\ IsLeaseAvailable(seen[i], i)
          /\ Goto(i, "update")
          /\ stamp' = [stamp EXCEPT ![i] = now]
       \/ /\ Exists(seen[i]) /\ ~IsLeaseAvailable(seen[i], i)
          /\ Goto(i, Retry(i))
          /\ UNCHANGED stamp
    /\ UNCHANGED <<now, storeVars, seen, deadline, keepVars>>

\* A holder starts its KeepAlive goroutine if it uses one.
Hold(i) ==
    /\ Goto(i, "held")
    /\ kpc' = IF i \in Keepers THEN [kpc EXCEPT ![i] = "idle"] ELSE kpc

\* createLease.  AlreadyExists makes the loop go round; any other error,
\* the loss of the answer to an applied write included, is returned.
Create(i) ==
    /\ pc[i] = "create"
    /\ \/ /\ ~Exists(lease)
          /\ Write(i, stamp[i])
          /\ \/ Hold(i)
             \/ Goto(i, "failed") /\ UNCHANGED kpc
       \/ /\ Exists(lease)
          /\ Goto(i, Retry(i))
          /\ UNCHANGED <<storeVars, kpc>>
       \/ /\ Goto(i, "failed")
          /\ UNCHANGED <<storeVars, kpc>>
    /\ UNCHANGED <<now, seen, stamp, deadline, kseen, kstamp>>

\* acquireExistingLease.  Every error, a conflict or a lost answer alike,
\* makes Acquire retry and TryAcquire report the lock as held.
Update(i) ==
    /\ pc[i] = "update"
    /\ \/ /\ SameVersion(seen[i])
          /\ Write(i, stamp[i])
          /\ \/ Hold(i)
             \/ Goto(i, Retry(i)) /\ UNCHANGED kpc
       \/ /\ Goto(i, Retry(i))
          /\ UNCHANGED <<storeVars, kpc>>
    /\ UNCHANGED <<now, seen, stamp, deadline, kseen, kstamp>>

BackoffForever(i) ==   \* mutant: sleep without watching the context
    /\ pc[i] = "backoff"
    /\ now < deadline[i]
    /\ Goto(i, "get")
    /\ UNCHANGED <<now, storeVars, seen, stamp, deadline, keepVars>>

\* The sleep between two rounds, cut short when the context is done.
Backoff(i) ==
    /\ pc[i] = "backoff"
    /\ Goto(i, IF CtxDone(i) THEN "failed" ELSE "get")
    /\ UNCHANGED <<now, storeVars, seen, stamp, deadline, keepVars>>

-----------------------------------------------------------------------------
(* KeepAlive and Renew.                                                    *)

\* The ticker fires and Renew reads the Lease; a missing lease or another
\* holder ends the goroutine.
RenewGet(i) ==
    /\ kpc[i] = "idle"
    /\ now >= stamp[i] + RenewEvery
    /\ \/ /\ lease.holder = i
          /\ kpc' = [kpc EXCEPT ![i] = "got"]
          /\ kseen' = [kseen EXCEPT ![i] = lease]
       \/ /\ kpc' = [kpc EXCEPT ![i] = "dead"]
          /\ UNCHANGED kseen
    /\ UNCHANGED <<now, storeVars, acquireVars, kstamp>>

RenewStamp(i) ==
    /\ kpc[i] = "got"
    /\ kstamp' = [kstamp EXCEPT ![i] = now]
    /\ kpc' = [kpc EXCEPT ![i] = "put"]
    /\ UNCHANGED <<now, storeVars, acquireVars, kseen>>

\* Renew's Update; an error, or a lost answer, ends the goroutine.
RenewPut(i) ==
    /\ kpc[i] = "put"
    /\ \/ /\ SameVersion(kseen[i])
          /\ Write(i, kstamp[i])
          /\ stamp' = [stamp EXCEPT ![i] = kstamp[i]]
          /\ \E k \in {"idle", "dead"} : kpc' = [kpc EXCEPT ![i] = k]
       \/ /\ kpc' = [kpc EXCEPT ![i] = "dead"]
          /\ UNCHANGED <<storeVars, stamp>>
    /\ UNCHANGED <<now, pc, seen, deadline, kseen, kstamp>>

\* The deferred stopKeepAlive runs after the deferred Release.
StopKeepAlive(i) ==
    /\ pc[i] = "done"
    /\ kpc[i] \in {"idle", "got", "put"}
    /\ kpc' = [kpc EXCEPT ![i] = "off"]
    /\ UNCHANGED <<now, storeVars, acquireVars, kseen, kstamp>>

-----------------------------------------------------------------------------
(* Release.                                                                *)

\* The caller has finished and calls Release.
Leave(i) ==
    /\ pc[i] = "held"
    /\ Goto(i, "rget")
    /\ UNCHANGED <<now, storeVars, seen, stamp, deadline, keepVars>>

\* Read the lease; go on to delete it only if this instance holds it.
ReleaseGet(i) ==
    /\ pc[i] = "rget"
    /\ \/ lease.holder = i /\ Goto(i, "rdelete")
       \/ Goto(i, "done")      \* not found, another holder, or a failed read
    /\ UNCHANGED <<now, storeVars, seen, stamp, deadline, keepVars>>

\* Delete by name alone: DeleteOptions carries no precondition, and the Lease
\* may have changed hands since it was read.
ReleaseDelete(i) ==
    /\ pc[i] = "rdelete"
    /\ \/ /\ lease' = NoLease
          /\ stray' = (stray \/ lease.holder \notin {i, NoHolder})
       \/ UNCHANGED <<lease, stray>>      \* the call failed
    /\ Goto(i, "done")
    /\ UNCHANGED <<now, rvs, seen, stamp, deadline, keepVars>>

-----------------------------------------------------------------------------
(* The environment.                                                        *)

\* The replica of an instance dies: its caller and its KeepAlive stop.
Crash(i) ==
    /\ pc[i] \notin {"idle"} \union Ended
    /\ Goto(i, "crashed")
    /\ kpc' = [kpc EXCEPT ![i] = "off"]
    /\ UNCHANGED <<now, storeVars, seen, stamp, deadline, kseen, kstamp>>

\* Time passes, however long a holder has been at work: nothing in lock.go or
\* its callers bounds a hold.
Tick ==
    /\ now < MaxTime
    /\ now' = now + 1
    /\ UNCHANGED <<storeVars, acquireVars, keepVars>>

Step(i) ==
    \/ Get(i) \/ Decide(i) \/ Create(i) \/ Update(i) \/ Backoff(i)
    \/ Leave(i) \/ ReleaseGet(i) \/ ReleaseDelete(i)

KeepAlive(i) ==
    RenewGet(i) \/ RenewStamp(i) \/ RenewPut(i) \/ StopKeepAlive(i)

Next ==
    \/ \E i \in Instances : Begin(i) \/ Step(i) \/ KeepAlive(i) \/ Crash(i)
    \/ Tick

\* Time goes on, and every replica that has not crashed runs its caller.
Fairness ==
    /\ WF_vars(Tick)
    /\ \A i \in Instances : WF_vars(Step(i))

Spec     == Init /\ [][Next]_vars
FairSpec == Spec /\ Fairness

-----------------------------------------------------------------------------
(* Properties.                                                             *)

\* The lease an instance stamped last has not run out on any replica's clock.
InTime(i) ==
    \A j \in Instances : Clock(j) <= stamp[i] + Skew[i] + TTL

\* Of all callers inside the section their workspace lock guards, at most one
\* is there with a lease that has not run out, whoever else has stayed longer
\* than its lease lasts, until a late Release has deleted another's Lease.
MutualExclusion ==
    ~stray =>
        \A i, j \in Instances :
            pc[i] = "held" /\ pc[j] = "held" /\ InTime(i) /\ InTime(j) => i = j

\* Release "is a no-op when the lease [...] is held by a different instance":
\* it is, unless the lease it set out to delete had run out before the delete
\* arrived.  The first delete that hits another's Lease comes from a caller
\* that outlasted its own.
DeletedByItsHolder ==
    [][\A i \in Instances :
         /\ pc[i] = "rdelete" /\ pc'[i] = "done"
         /\ Exists(lease) /\ ~Exists(lease') /\ InTime(i)
         => stray \/ lease.holder = i]_vars

\* An instance takes the Lease from another holder only once that holder's
\* last stored RenewTime is out of date on the taker's clock, whatever was
\* renewed, deleted or re-created between its read and its write.
TakeoverOnlyWhenExpired ==
    [][Exists(lease) /\ Exists(lease') /\ lease'.holder # lease.holder =>
         IsLeaseAvailable(lease, lease'.holder)]_vars

\* Acquire and TryAcquire always return: with the lock, or with an error by
\* the time the context is done, even behind a crashed or lost holder.
AcquireReturns ==
    \A i \in Instances : pc[i] \in Acquiring ~> pc[i] \notin Acquiring

\* The lock implements the mutex its callers rely on, for those whose lease
\* has not run out: a holder that overruns leaves the set of owners.
Mutex == INSTANCE WorkspaceMutex
             WITH owners <- IF stray THEN {} ELSE {i \in Instances : pc[i] = "held" /\ InTime(i)}

\* Every step of the lock is a step of the abstract mutex or leaves its
\* owners alone.
ImplementsMutex == Mutex!Spec
=============================================================================
