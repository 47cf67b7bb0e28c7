------------------------- MODULE WorkspaceLockProofs -------------------------
(***************************************************************************)
(* Proofs about the workspace lock for any number of instances, any clock  *)
(* offsets, any durations, and holds of any length.                        *)
(***************************************************************************)
EXTENDS WorkspaceLock, TLAPS

\* A resource version names one value of the Lease: what was read at the
\* stored version is what is stored.
SameAsStored(l) ==
    /\ l.rv <= rvs
    /\ SameVersion(l) => l = lease

VersionInv ==
    /\ lease.rv <= rvs
    /\ \A i \in Instances : SameAsStored(seen[i]) /\ SameAsStored(kseen[i])

\* Whoever is about to take the lease over saw it expired, and Renew only
\* writes a lease it read as its own.
ClaimInv ==
    \A i \in Instances :
        /\ pc[i] = "update" => IsLeaseAvailable(seen[i], i)
        /\ kpc[i] \in {"got", "put"} => kseen[i].holder = i

SafeInv == TypeOK /\ VersionInv /\ ClaimInv

\* The view of a caller whose lease has not run out and the Lease agree.
HeldInv ==
    ~stray =>
        \A i \in Instances :
            pc[i] \in {"held", "rget", "rdelete"} /\ InTime(i) =>
                /\ lease.holder = i
                /\ lease.renew = stamp[i] + Skew[i]

-----------------------------------------------------------------------------

\* Type correctness of every action: the Lease, the program counters and
\* the time stamps keep their types.
THEOREM TypeCorrect == Spec => []TypeOK
<1> USE LockConstants
<1>1. Init => TypeOK
  <2> SUFFICES ASSUME Init PROVE TypeOK
    OBVIOUS
  <2>1. stray \in BOOLEAN
    BY Zenon DEF Init
  <2> QED BY <2>1 DEF Init, TypeOK, Lease, NoLease, PC, KPC
<1>2. TypeOK /\ [Next]_vars => TypeOK'
  <2> SUFFICES ASSUME TypeOK, [Next]_vars
               PROVE  TypeOK'
    OBVIOUS
  <2> USE DEF TypeOK, Goto, storeVars, acquireVars, keepVars
  <2>a. ASSUME NEW i \in Instances, NEW t \in Nat, Write(i, t)
        PROVE  lease' \in Lease /\ rvs' \in Nat /\ stray' \in BOOLEAN
    BY <2>a DEF Write, Lease
  <2>1. ASSUME NEW i \in Instances, Begin(i) PROVE TypeOK'
    BY <2>1 DEF Begin, PC
  <2>2. ASSUME NEW i \in Instances, Get(i) PROVE TypeOK'
    BY <2>2 DEF Get, PC
  <2>3. ASSUME NEW i \in Instances, Decide(i) PROVE TypeOK'
    BY <2>3 DEF Decide, PC, Retry
  <2>4. ASSUME NEW i \in Instances, Create(i) PROVE TypeOK'
    BY <2>4, <2>a DEF Create, PC, KPC, Retry, Hold
  <2>5. ASSUME NEW i \in Instances, Update(i) PROVE TypeOK'
    BY <2>5, <2>a DEF Update, PC, KPC, Retry, Hold
  <2>6. ASSUME NEW i \in Instances, Backoff(i) PROVE TypeOK'
    BY <2>6 DEF Backoff, PC
  <2>7. ASSUME NEW i \in Instances, Leave(i) \/ ReleaseGet(i) PROVE TypeOK'
    BY <2>7 DEF Leave, ReleaseGet, PC
  <2>8. ASSUME NEW i \in Instances, ReleaseDelete(i) PROVE TypeOK'
    <3>1. stray' \in BOOLEAN
      BY <2>8, Zenon DEF ReleaseDelete
    <3> QED BY <2>8, <3>1 DEF ReleaseDelete, PC, Lease, NoLease
  <2>9. ASSUME NEW i \in Instances, RenewGet(i) \/ RenewStamp(i) \/ StopKeepAlive(i)
        PROVE  TypeOK'
    BY <2>9 DEF RenewGet, RenewStamp, StopKeepAlive, KPC
  <2>10. ASSUME NEW i \in Instances, RenewPut(i) PROVE TypeOK'
    BY <2>10, <2>a DEF RenewPut, KPC
  <2>11. ASSUME NEW i \in Instances, Crash(i) PROVE TypeOK'
    BY <2>11 DEF Crash, PC, KPC
  <2>12. CASE Tick
    BY <2>12 DEF Tick
  <2>13. CASE UNCHANGED vars
    BY <2>13 DEF vars
  <2> QED
    BY <2>1, <2>2, <2>3, <2>4, <2>5, <2>6, <2>7, <2>8, <2>9, <2>10, <2>11,
       <2>12, <2>13 DEF Next, Step, KeepAlive
<1>3. QED
  BY <1>1, <1>2, PTL DEF Spec

-----------------------------------------------------------------------------

\* A write gives the Lease a version nobody has read yet.
LEMMA WriteVersion ==
    ASSUME TypeOK, VersionInv, NEW i \in Instances, NEW t \in Nat, Write(i, t),
           UNCHANGED <<seen, kseen>>
    PROVE  VersionInv'
  BY LockConstants
  DEF TypeOK, VersionInv, SameAsStored, SameVersion, Write, Exists, Lease

\* Resource versions and the takeover condition are preserved by every step.
LEMMA SafeStep == SafeInv /\ [Next]_vars /\ TypeOK' => SafeInv'
<1> SUFFICES ASSUME SafeInv, [Next]_vars, TypeOK'
             PROVE  VersionInv' /\ ClaimInv'
  BY DEF SafeInv
<1> USE LockConstants DEF SafeInv, Goto, storeVars, acquireVars, keepVars
<1>c. ASSUME UNCHANGED <<lease, rvs, seen, kseen>>
      PROVE  VersionInv'
  BY <1>c DEF VersionInv, SameAsStored, SameVersion
<1>1. ASSUME NEW i \in Instances, Begin(i)
      PROVE  VersionInv' /\ ClaimInv'
  BY <1>1, <1>c DEF Begin, ClaimInv, IsLeaseAvailable, Clock, TypeOK
<1>2. ASSUME NEW i \in Instances, Get(i)
      PROVE  VersionInv' /\ ClaimInv'
  <2>1. VersionInv'
    BY <1>2, <1>c DEF Get, VersionInv, SameAsStored, SameVersion, TypeOK, Lease, NoLease, Exists
  <2>2. ClaimInv'
    BY <1>2 DEF Get, ClaimInv, IsLeaseAvailable, Clock, TypeOK
  <2> QED BY <2>1, <2>2
<1>3. ASSUME NEW i \in Instances, Decide(i)
      PROVE  VersionInv' /\ ClaimInv'
  BY <1>3, <1>c DEF Decide, Retry, ClaimInv, IsLeaseAvailable, Clock, TypeOK
<1>4. ASSUME NEW i \in Instances, Create(i) \/ Update(i)
      PROVE  VersionInv' /\ ClaimInv'
  <2>1. VersionInv'
    BY <1>4, <1>c, WriteVersion DEF Create, Update, TypeOK
  <2>2. ClaimInv'
    BY <1>4 DEF Create, Update, Hold, Retry, ClaimInv,
                IsLeaseAvailable, Clock, TypeOK
  <2> QED BY <2>1, <2>2
<1>5. ASSUME NEW i \in Instances, Backoff(i) \/ Leave(i) \/ ReleaseGet(i)
      PROVE  VersionInv' /\ ClaimInv'
  BY <1>5, <1>c DEF Backoff, Leave, ReleaseGet, ClaimInv,
                    IsLeaseAvailable, Clock, TypeOK
<1>6. ASSUME NEW i \in Instances, ReleaseDelete(i)
      PROVE  VersionInv' /\ ClaimInv'
  <2>1. VersionInv'
    BY <1>6 DEF ReleaseDelete, VersionInv, SameAsStored, SameVersion, NoLease, Exists, TypeOK
  <2>2. ClaimInv'
    BY <1>6 DEF ReleaseDelete, ClaimInv, IsLeaseAvailable, Clock, TypeOK
  <2> QED BY <2>1, <2>2
<1>7. ASSUME NEW i \in Instances, RenewGet(i)
      PROVE  VersionInv' /\ ClaimInv'
  <2>1. VersionInv'
    BY <1>7, <1>c DEF RenewGet, VersionInv, SameAsStored, SameVersion, Exists, TypeOK
  <2>2. ClaimInv'
    BY <1>7 DEF RenewGet, ClaimInv, IsLeaseAvailable, Clock, TypeOK
  <2> QED BY <2>1, <2>2
<1>8. ASSUME NEW i \in Instances, RenewStamp(i) \/ StopKeepAlive(i)
      PROVE  VersionInv' /\ ClaimInv'
  BY <1>8, <1>c DEF RenewStamp, StopKeepAlive, ClaimInv,
                    IsLeaseAvailable, Clock, TypeOK
<1>9. ASSUME NEW i \in Instances, RenewPut(i)
      PROVE  VersionInv' /\ ClaimInv'
  <2>1. VersionInv'
    BY <1>9, <1>c, WriteVersion DEF RenewPut, TypeOK
  <2>2. ClaimInv'
    BY <1>9 DEF RenewPut, ClaimInv, IsLeaseAvailable, Clock, TypeOK
  <2> QED BY <2>1, <2>2
<1>10. ASSUME NEW i \in Instances, Crash(i)
       PROVE  VersionInv' /\ ClaimInv'
  BY <1>10, <1>c DEF Crash, ClaimInv, IsLeaseAvailable, Clock, TypeOK
<1>11. CASE Tick
  BY <1>11, <1>c DEF Tick, ClaimInv, IsLeaseAvailable, Clock, TypeOK, Lease
<1>12. CASE UNCHANGED vars
  BY <1>12, <1>c DEF vars, ClaimInv, IsLeaseAvailable, Clock
<1> QED
  BY <1>1, <1>2, <1>3, <1>4, <1>5, <1>6, <1>7, <1>8, <1>9, <1>10, <1>11, <1>12
  DEF Next, Step, KeepAlive

\* SafeInv holds in every reachable state, however long a lock is held.
LEMMA SafeAlways == Spec => []SafeInv
<1>1. Init => VersionInv /\ ClaimInv
  BY LockConstants DEF Init, VersionInv, SameAsStored, SameVersion, ClaimInv, NoLease, Exists
<1>2. QED
  BY <1>1, SafeStep, TypeCorrect, PTL DEF Spec, SafeInv

-----------------------------------------------------------------------------

\* A write that changes the holder of the Lease is an Update of a lease that
\* has run out on the writer's clock.
LEMMA TakeoverStep ==
    ASSUME SafeInv, [Next]_vars, Exists(lease), Exists(lease'),
           lease'.holder # lease.holder
    PROVE  IsLeaseAvailable(lease, lease'.holder)
<1> USE LockConstants DEF SafeInv, VersionInv, SameAsStored
<1>1. ASSUME NEW i \in Instances, Create(i)
      PROVE  IsLeaseAvailable(lease, lease'.holder)
  BY <1>1 DEF Create, storeVars
<1>2. ASSUME NEW i \in Instances, Update(i)
      PROVE  IsLeaseAvailable(lease, lease'.holder)
  BY <1>2 DEF Update, Write, ClaimInv, storeVars
<1>3. ASSUME NEW i \in Instances, RenewPut(i)
      PROVE  IsLeaseAvailable(lease, lease'.holder)
  BY <1>3 DEF RenewPut, Write, ClaimInv, storeVars
<1>4. ASSUME NEW i \in Instances, ReleaseDelete(i)
      PROVE  IsLeaseAvailable(lease, lease'.holder)
  BY <1>4 DEF ReleaseDelete, Exists, NoLease
<1> QED
  BY <1>1, <1>2, <1>3, <1>4
  DEF Next, Step, KeepAlive, Begin, Get, Decide, Backoff, Leave, ReleaseGet,
      RenewGet, RenewStamp, StopKeepAlive, Crash, Tick, vars, storeVars

\* A lease is taken from another holder only once its last RenewTime is out
\* of date on the taker's clock.  This rests on the version check of Update
\* alone and needs no bound on how long a lock is held.
THEOREM TakeoverSafe == Spec => TakeoverOnlyWhenExpired
<1>1. QED
  BY TakeoverStep, SafeAlways, PTL DEF Spec, TakeoverOnlyWhenExpired

-----------------------------------------------------------------------------

\* Nobody finds a lease expired that has not run out on any clock.
LEMMA HolderNotExpired ==
    ASSUME SafeInv, HeldInv, ~stray, NEW i \in Instances, NEW j \in Instances,
           pc[i] \in {"held", "rget", "rdelete"}, InTime(i)
    PROVE  ~IsLeaseAvailable(lease, j)
  BY LockConstants
  DEF SafeInv, HeldInv, TypeOK, InTime, IsLeaseAvailable, Clock, Lease

\* Every step keeps the view of the callers that are in time and the Lease in
\* agreement: no write of another instance can hit the lease of one of them,
\* and a delete that does is a stray one.
LEMMA HeldStep == SafeInv /\ HeldInv /\ [Next]_vars => HeldInv'
<1> SUFFICES ASSUME SafeInv, HeldInv, [Next]_vars, ~stray',
                    NEW k \in Instances, pc'[k] \in {"held", "rget", "rdelete"}, InTime(k)'
             PROVE  lease'.holder = k /\ lease'.renew = stamp'[k] + Skew[k]
  BY DEF HeldInv
<1> USE LockConstants DEF Goto, storeVars, acquireVars, keepVars
<1> DEFINE Agrees == lease'.holder = k /\ lease'.renew = stamp'[k] + Skew[k]
<1>t. TypeOK /\ VersionInv /\ ClaimInv
  BY DEF SafeInv
<1>s. ~stray
  BY DEF Next, Step, KeepAlive, Begin, Get, Decide, Create, Update, Backoff, Leave,
         ReleaseGet, ReleaseDelete, RenewGet, RenewStamp, RenewPut, StopKeepAlive,
         Crash, Tick, vars, Write
<1>a. ASSUME pc[k] \in {"held", "rget", "rdelete"}, InTime(k)
      PROVE  lease.holder = k /\ lease.renew = stamp[k] + Skew[k]
  BY <1>a, <1>s DEF HeldInv
<1>b. ASSUME now' = now, stamp'[k] = stamp[k] PROVE InTime(k)
  BY <1>b DEF InTime, Clock
<1>1. ASSUME NEW i \in Instances,
             Begin(i) \/ Get(i) \/ Decide(i) \/ Backoff(i) \/ Leave(i)
                \/ ReleaseGet(i) \/ Crash(i)
      PROVE  Agrees
  <2>1. pc[k] \in {"held", "rget", "rdelete"} /\ stamp'[k] = stamp[k] /\ now' = now
    BY <1>1, <1>t DEF Begin, Get, Decide, Backoff, Leave, ReleaseGet, Crash, Retry, TypeOK
  <2>2. lease' = lease
    BY <1>1 DEF Begin, Get, Decide, Backoff, Leave, ReleaseGet, Crash
  <2> QED BY <2>1, <2>2, <1>a, <1>b
<1>2. ASSUME NEW i \in Instances, Create(i) \/ Update(i)
      PROVE  Agrees
  <2>1. now' = now /\ stamp' = stamp /\ InTime(k)
    BY <1>2, <1>b DEF Create, Update
  <2>2. CASE Write(i, stamp[i])
    <3>1. k = i
      <4>1. SUFFICES ASSUME k # i PROVE FALSE
        OBVIOUS
      <4>2. pc[k] \in {"held", "rget", "rdelete"}
        BY <1>2, <1>t, <4>1 DEF Create, Update, Hold, Retry, TypeOK
      <4>3. Exists(lease) /\ ~IsLeaseAvailable(lease, i)
        BY <4>2, <2>1, <1>a, <1>s, HolderNotExpired DEF Exists
      <4>4. CASE Create(i)
        BY <4>4, <4>3, <2>2, <1>t DEF Create, Write, TypeOK
      <4>5. CASE Update(i)
        <5>1. SameVersion(seen[i])
          BY <4>5, <2>2, <1>t DEF Update, Write, TypeOK
        <5> QED BY <5>1, <4>5, <4>3, <1>t DEF Update, ClaimInv, VersionInv, SameAsStored
      <4> QED BY <4>4, <4>5, <1>2
    <3> QED BY <3>1, <2>1, <2>2 DEF Write
  <2>3. CASE ~Write(i, stamp[i])
    <3>1. UNCHANGED lease /\ pc[k] \in {"held", "rget", "rdelete"}
      BY <1>2, <1>t, <2>3 DEF Create, Update, Retry, TypeOK
    <3> QED BY <3>1, <2>1, <1>a
  <2> QED BY <2>2, <2>3
<1>3. ASSUME NEW i \in Instances, ReleaseDelete(i)
      PROVE  Agrees
  <2>1. pc[k] \in {"held", "rget", "rdelete"} /\ k # i /\ InTime(k)
    BY <1>3, <1>t, <1>b DEF ReleaseDelete, TypeOK
  <2>2. lease.holder = k
    BY <2>1, <1>a
  <2>3. lease' = lease
    BY <1>3, <2>1, <2>2 DEF ReleaseDelete
  <2> QED BY <2>1, <2>3, <1>3, <1>a DEF ReleaseDelete
<1>4. ASSUME NEW i \in Instances, RenewPut(i)
      PROVE  Agrees
  <2>1. CASE k = i /\ SameVersion(kseen[i]) /\ Write(i, kstamp[i]) /\ stamp'[i] = kstamp[i]
    BY <2>1 DEF Write
  <2>2. CASE ~(k = i /\ SameVersion(kseen[i]) /\ Write(i, kstamp[i]) /\ stamp'[i] = kstamp[i])
    <3>1. stamp'[k] = stamp[k] /\ pc' = pc /\ now' = now
      BY <2>2, <1>4, <1>t DEF RenewPut, TypeOK
    <3>2. lease.holder = k /\ lease.renew = stamp[k] + Skew[k]
      BY <3>1, <1>a, <1>b
    <3>3. UNCHANGED lease
      BY <2>2, <3>2, <1>4, <1>t DEF RenewPut, ClaimInv, VersionInv, SameAsStored, TypeOK
    <3> QED BY <3>1, <3>2, <3>3
  <2> QED BY <2>1, <2>2
<1>5. ASSUME NEW i \in Instances, RenewGet(i) \/ RenewStamp(i) \/ StopKeepAlive(i)
      PROVE  Agrees
  BY <1>5, <1>a, <1>b DEF RenewGet, RenewStamp, StopKeepAlive
<1>6. CASE Tick
  <2>1. InTime(k)
    <3>1. now \in Nat /\ now' = now + 1 /\ stamp' = stamp /\ stamp[k] \in Nat
      BY <1>6, <1>t DEF Tick, TypeOK
    <3> QED BY <3>1 DEF InTime, Clock
  <2> QED BY <2>1, <1>6, <1>a DEF Tick
<1>7. CASE UNCHANGED vars
  BY <1>7, <1>a, <1>b DEF vars
<1> QED
  BY <1>1, <1>2, <1>3, <1>4, <1>5, <1>6, <1>7 DEF Next, Step, KeepAlive

\* The agreement always holds.
LEMMA HeldAlways == Spec => []HeldInv
<1>1. Init => HeldInv
  BY DEF Init, HeldInv
<1>2. QED
  BY <1>1, HeldStep, SafeAlways, PTL DEF Spec

\* Of two callers inside the lock at most one has a lease that has not run
\* out, however long callers stay and however the clocks differ, as long as no
\* late Release has deleted the Lease of another.
THEOREM MutexHolds == Spec => []MutualExclusion
<1>1. HeldInv => MutualExclusion
  BY DEF HeldInv, MutualExclusion
<1>2. QED
  BY <1>1, HeldAlways, PTL

\* The first delete of Release that hits the Lease of another instance is that
\* of a caller whose own lease had run out.
THEOREM ReleaseSafe == Spec => DeletedByItsHolder
<1>1. ASSUME HeldInv
      PROVE  \A i \in Instances :
               /\ pc[i] = "rdelete" /\ pc'[i] = "done"
               /\ Exists(lease) /\ ~Exists(lease') /\ InTime(i)
               => stray \/ lease.holder = i
  BY <1>1 DEF HeldInv
<1>2. QED
  BY <1>1, HeldAlways, PTL DEF DeletedByItsHolder

\* For the callers that are in time the Lease protocol implements the abstract
\* mutex: each step enters, leaves or keeps the set of owners.
THEOREM RefinesMutex == Spec => ImplementsMutex
<1> DEFINE owned == IF stray THEN {} ELSE {i \in Instances : pc[i] = "held" /\ InTime(i)}
<1>1. Init => Mutex!Init
  BY DEF Init, Mutex!Init
<1>a. HeldInv => owned \subseteq {lease.holder}
  BY DEF HeldInv
<1>2. ASSUME SafeInv, HeldInv, HeldInv', [Next]_vars
      PROVE  [Mutex!Next]_owned
  <2>1. owned \subseteq {lease.holder} /\ owned' \subseteq {lease'.holder}
    <3>1. owned \subseteq {lease.holder}
      BY <1>2, <1>a
    <3>2. owned' \subseteq {lease'.holder}
      BY <1>2 DEF HeldInv
    <3> QED BY <3>1, <3>2
  <2>2. owned \subseteq Instances /\ owned' \subseteq Instances
    OBVIOUS
  <2>3. CASE owned = {}
    <3>1. owned' = {} \/ owned' = {lease'.holder}
      BY <2>1
    <3> QED BY <2>2, <2>3, <3>1 DEF Mutex!Next, Mutex!Enter
  <2>4. CASE owned # {} /\ owned' = {}
    <3>1. owned = {lease.holder}
      BY <2>1, <2>4
    <3> QED BY <2>2, <2>4, <3>1 DEF Mutex!Next, Mutex!Exit
  <2>5. CASE owned # {} /\ owned' # {}
    <3>1. owned = {lease.holder} /\ owned' = {lease'.holder}
      BY <2>1, <2>5
    <3>2. lease.holder \in Instances /\ lease'.holder \in Instances
      BY <2>2, <3>1
    <3>3. ~IsLeaseAvailable(lease, lease'.holder)
      <4>1. ~stray /\ pc[lease.holder] = "held" /\ InTime(lease.holder)
        BY <3>1, <2>5
      <4> QED BY <4>1, <3>2, <1>2, HolderNotExpired
    <3>4. lease'.holder = lease.holder
      BY <3>2, <3>3, <1>2, TakeoverStep, LockConstants DEF Exists
    <3> QED BY <3>1, <3>4
  <2> QED BY <2>3, <2>4, <2>5
<1>3. QED
  BY <1>1, <1>2, SafeAlways, HeldAlways, PTL DEF Spec, ImplementsMutex, Mutex!Spec
=============================================================================
