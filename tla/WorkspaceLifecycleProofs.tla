---------------------- MODULE WorkspaceLifecycleProofs ----------------------
(***************************************************************************)
(* Proofs about WorkspaceLifecycle for any number of requests.             *)
(***************************************************************************)
EXTENDS WorkspaceLifecycle, TLAPS

(***************************************************************************)
(* Type correctness: tokens are never invented, every token in the Secret, *)
(* in the pod or in a request was minted before.                           *)
(***************************************************************************)

LEMMA RequestKinds ==
    /\ Provisions \subseteq Upward /\ Starts \subseteq Upward
    /\ Stops \subseteq Downward /\ Deletes \subseteq Downward
    /\ Upward \subseteq Requests /\ Downward \subseteq Requests
  BY DEF Upward, Downward, Requests

\* The value of the lock: every write of it yields one of these.
Locks == [holder : Requests \union {Nobody}, stale : BOOLEAN]

LEMMA LockValues ==
    /\ Free \in Locks
    /\ \A r \in Requests : TakeLock(r) => lock' \in Locks
<1>1. \A h \in Requests \union {Nobody} : [holder |-> h, stale |-> FALSE] \in Locks
  BY DEF Locks
<1> QED
  BY <1>1 DEF Free, TakeLock

LEMMA TypeInit == Init => TypeOK
<1> SUFFICES ASSUME Init PROVE TypeOK
  OBVIOUS
<1>0. threat \in BOOLEAN
  BY Zenon DEF Init
<1>1. /\ minted \in Nat
      /\ secret \in 0..minted /\ pat \in 0..minted
      /\ release \in {"none", "deployed"}
      /\ pod \in [phase : {"none", "running"}, tok : 0..minted]
  BY DEF Init, NoPod
<1>2. pc \in [Requests -> PC] /\ wpat \in [Requests -> 0..minted]
  BY <1>1 DEF Init, PC
<1>3. user \in [Requests -> BOOLEAN] /\ unrevoked \subseteq Deletes
  BY Zenon DEF Init
<1>4. lock \in Locks
  BY LockValues DEF Init
<1>5. overran \in BOOLEAN
  BY Zenon DEF Init
<1> QED
  BY <1>0, <1>1, <1>2, <1>3, <1>4, <1>5 DEF TypeOK, Locks, Live

LEMMA TypeUp ==
    ASSUME TypeOK, NEW r \in Requests, UpStep(r), UNCHANGED overran
    PROVE  TypeOK'
<1> USE DEF TypeOK, Goto, At, PC, Guarded, Ended, Live, Deleting, NoPod
<1>1. CASE ProvisionGate(r) \/ GatePod(r) \/ GateWait(r) \/ StartGate(r) \/ PreCheck(r)
             \/ PreCheckPod(r)
  BY <1>1 DEF ProvisionGate, GatePod, GateWait, StartGate, PreCheck, PreCheckPod, world, local
<1>2. CASE StoreThreat(r)
  BY <1>2 DEF StoreThreat, local
<1>3. CASE Observe(r) \/ Recheck(r) \/ WaitGone(r) \/ PodFromRelease(r) \/ Watch(r)
  BY <1>3 DEF Observe, Recheck, WaitGone, PodFromRelease, Watch, world, local
<1>4. CASE Acquire(r)
  <2>1. lock' \in Locks
    BY <1>4, LockValues DEF Acquire, Locks
  <2> QED
    BY <1>4, <2>1 DEF Acquire, Locks, world, local
<1>5. CASE Recycle(r)
  BY <1>5 DEF Recycle, StopPod, local
<1>6. ASSUME NEW from \in PC, NEW to \in PC, Mint(r, from, to)
      PROVE  TypeOK'
  BY <1>6 DEF Mint
<1>7. CASE MintPAT(r)
  BY <1>7, <1>6 DEF MintPAT
<1>8. CASE InstallBegin(r)
  BY <1>8 DEF InstallBegin, local
<1>9. CASE InstallFinish(r)
  BY <1>9 DEF InstallFinish, local
<1>10. CASE RefreshPATSecret(r)
  BY <1>10 DEF RefreshPATSecret, local
<1>11. CASE CreatePod(r)
  BY <1>11 DEF CreatePod, local
<1>12. CASE Unlock(r)
  BY <1>12, LockValues DEF Unlock, Locks, world, local
<1> QED
  BY <1>1, <1>2, <1>3, <1>4, <1>5, <1>7, <1>8, <1>9, <1>10, <1>11, <1>12 DEF UpStep

LEMMA TypeDown ==
    ASSUME TypeOK, NEW r \in Requests, DownStep(r), UNCHANGED overran
    PROVE  TypeOK'
<1> USE DEF TypeOK, Goto, At, PC, Guarded, Ended, Live, Deleting, NoPod
<1>1. CASE StopFind(r) \/ DeleteFind(r) \/ Wake(r)
  BY <1>1 DEF StopFind, DeleteFind, Wake, world, local
<1>2. CASE TryAcquire(r)
  <2>1. lock' \in Locks
    BY <1>2, LockValues DEF TryAcquire, Locks
  <2> QED
    BY <1>2, <2>1 DEF TryAcquire, Locks, world, local
<1>3. CASE DeletePAT(r)
  BY <1>3 DEF DeletePAT, local
<1>4. CASE StopWorkspacePod(r)
  BY <1>4 DEF StopWorkspacePod, StopPod, local
<1>5. CASE Uninstall(r)
  BY <1>5 DEF Uninstall, UninstallBegin, UninstallPod, UninstallSecret, DeletePod, local
<1>6. CASE Purge(r) \/ Sweep(r)
  BY <1>6 DEF Purge, Sweep, local
<1>8. CASE ClearThreat(r)
  <2>1. threat' \in BOOLEAN
    BY <1>8, Zenon DEF ClearThreat
  <2> QED
    BY <1>8, <2>1 DEF ClearThreat, local
<1>7. CASE Unlock(r)
  BY <1>7, LockValues DEF Unlock, Locks, world, local
<1> QED
  BY <1>1, <1>2, <1>3, <1>4, <1>5, <1>6, <1>7, <1>8 DEF DownStep

LEMMA TypeStep == TypeOK /\ [Next]_vars => TypeOK'
<1> SUFFICES ASSUME TypeOK, [Next]_vars PROVE TypeOK'
  OBVIOUS
<1>1. CASE (\E r \in Upward : UpStep(r)) /\ UNCHANGED overran
  BY <1>1, TypeUp, RequestKinds
<1>2. CASE (\E r \in Downward : DownStep(r)) /\ UNCHANGED overran
  BY <1>2, TypeDown, RequestKinds
<1>3. CASE (\E r \in Requests : Crash(r)) /\ UNCHANGED overran
  BY <1>3 DEF TypeOK, Crash, Goto, PC, Ended, world, local
<1>4. CASE Cluster /\ UNCHANGED overran
  BY <1>4 DEF TypeOK, Cluster, PodUp, PodEnds, PodDeleted, Live, Deleting, NoPod, local
<1>5. CASE Expire
  <2>1. overran' \in BOOLEAN
    BY <1>5, Zenon DEF Expire, TypeOK
  <2> QED
    BY <1>5, <2>1 DEF TypeOK, Expire, world, local
<1>6. CASE UNCHANGED vars
  BY <1>6 DEF TypeOK, vars, world, local
<1> QED
  BY <1>1, <1>2, <1>3, <1>4, <1>5, <1>6 DEF Next

\* Every behaviour of the requests keeps the types, and with them the bound
\* of every token by the number of tokens minted.
THEOREM LifecycleTypes == Spec => []TypeOK
  BY TypeInit, TypeStep, PTL DEF Spec

(***************************************************************************)
(* Mutual exclusion of the operations, as long as no lease ran out under a *)
(* request at work.  The invariant that carries it ties the program        *)
(* counters to the lock: whoever is between taking the lock and releasing  *)
(* it holds a lease that has not run out.                                  *)
(***************************************************************************)

GuardedHolds ==
    \A r \in Requests : pc[r] \in Guarded => lock.holder = r /\ ~lock.stale

Excl == TypeOK /\ ~overran /\ GuardedHolds

\* A step that leaves the lock alone and moves one request, into the
\* guarded section only from inside it, keeps the invariant.
LEMMA MoveKeeps ==
    ASSUME Excl, NEW r \in Requests, NEW p, Goto(r, p), UNCHANGED lock,
           p \in Guarded => pc[r] \in Guarded
    PROVE  GuardedHolds'
  BY DEF Excl, TypeOK, GuardedHolds, Goto

\* So does the step that takes a free lock.
LEMMA TakeKeeps ==
    ASSUME Excl, NEW r \in Requests, NEW p, Goto(r, p), LockFree, TakeLock(r)
    PROVE  GuardedHolds'
<1>1. ASSUME NEW q \in Requests, pc[q] \in Guarded
      PROVE  FALSE
  <2>1. q # Nobody
    BY LifecycleConstants
  <2> QED
    BY <1>1, <2>1 DEF Excl, GuardedHolds, LockFree
<1> QED
  BY <1>1 DEF Excl, TypeOK, GuardedHolds, Goto, TakeLock

\* And the step that gives it up.
LEMMA UnlockKeeps ==
    ASSUME Excl, NEW r \in Requests, Unlock(r)
    PROVE  GuardedHolds'
<1> USE DEF Excl, TypeOK, GuardedHolds, Unlock, Goto, At
<1>1. CASE lock.holder = r /\ lock' = Free
  <2>1. "done" \notin Guarded
    BY DEF Guarded
  <2> QED
    BY <1>1, <2>1
<1>2. CASE UNCHANGED lock
  BY <1>2 DEF Guarded
<1> QED
  BY <1>1, <1>2

LEMMA ExclUp ==
    ASSUME Excl, NEW r \in Requests, UpStep(r)
    PROVE  GuardedHolds'
<1>1. CASE Acquire(r)
  <2>1. CASE LockFree /\ TakeLock(r) /\ Goto(r, "recheck")
    BY <2>1, TakeKeeps
  <2>2. CASE Goto(r, "rejected") /\ UNCHANGED lock
    BY <2>2, MoveKeeps DEF Guarded
  <2> QED
    BY <1>1, <2>1, <2>2 DEF Acquire
<1>2. CASE Unlock(r)
  BY <1>2, UnlockKeeps
<1>3. CASE ProvisionGate(r) \/ GatePod(r) \/ GateWait(r) \/ StartGate(r) \/ StoreThreat(r)
             \/ PreCheck(r) \/ PreCheckPod(r) \/ Observe(r)
  <2> USE DEF ProvisionGate, GatePod, GateWait, StartGate, StoreThreat, PreCheck, PreCheckPod,
              Observe
  <2>1. \E p \in {"store", "gate", "gatewait", "rejected", "pre", "prepod", "done", "observe",
                  "lock"} : Goto(r, p)
    BY <1>3
  <2>2. UNCHANGED lock
    BY <1>3
  <2> QED
    BY <2>1, <2>2, MoveKeeps DEF Guarded
<1>4. CASE Recheck(r) \/ Recycle(r) \/ WaitGone(r) \/ MintPAT(r) \/ InstallBegin(r)
             \/ InstallFinish(r) \/ RefreshPATSecret(r) \/ PodFromRelease(r)
             \/ CreatePod(r) \/ Watch(r)
  <2> USE DEF Recheck, Recycle, WaitGone, MintPAT, Mint, InstallBegin, InstallFinish,
              RefreshPATSecret, PodFromRelease, CreatePod, Watch
  <2>1. pc[r] \in Guarded
    BY <1>4 DEF At, Guarded
  <2>2. UNCHANGED lock
    BY <1>4
  <2>3. \E p : Goto(r, p)
    BY <1>4
  <2> QED
    BY <2>1, <2>2, <2>3, MoveKeeps
<1> QED
  BY <1>1, <1>2, <1>3, <1>4 DEF UpStep

LEMMA ExclDown ==
    ASSUME Excl, NEW r \in Requests, DownStep(r)
    PROVE  GuardedHolds'
<1>1. CASE TryAcquire(r)
  <2>1. CASE LockFree /\ TakeLock(r)
    BY <1>1, <2>1, TakeKeeps DEF TryAcquire, Goto
  <2>2. CASE Goto(r, "rejected") /\ UNCHANGED lock
    BY <2>2, MoveKeeps DEF Guarded
  <2> QED
    BY <1>1, <2>1, <2>2 DEF TryAcquire
<1>2. CASE Unlock(r)
  BY <1>2, UnlockKeeps
<1>3. CASE StopFind(r) \/ DeleteFind(r)
  <2>1. \E p \in {"try", "rejected"} : Goto(r, p)
    BY <1>3 DEF StopFind, DeleteFind
  <2>2. UNCHANGED lock
    BY <1>3 DEF StopFind, DeleteFind
  <2> QED
    BY <2>1, <2>2, MoveKeeps DEF Guarded
<1>4. CASE Wake(r) \/ DeletePAT(r) \/ StopWorkspacePod(r) \/ Uninstall(r)
             \/ Purge(r) \/ Sweep(r) \/ ClearThreat(r)
  <2> USE DEF Wake, DeletePAT, StopWorkspacePod, Uninstall, UninstallBegin, UninstallPod,
              UninstallSecret, Purge, Sweep, ClearThreat
  <2>1. pc[r] \in Guarded
    BY <1>4 DEF At, Guarded
  <2>2. UNCHANGED lock
    BY <1>4
  <2>3. \E p : Goto(r, p)
    BY <1>4
  <2> QED
    BY <2>1, <2>2, <2>3, MoveKeeps
<1> QED
  BY <1>1, <1>2, <1>3, <1>4 DEF DownStep

LEMMA ExclStep ==
    ASSUME Excl, [Next]_vars, ~overran'
    PROVE  GuardedHolds'
<1>1. CASE \E r \in Upward : UpStep(r)
  BY <1>1, ExclUp, RequestKinds
<1>2. CASE \E r \in Downward : DownStep(r)
  BY <1>2, ExclDown, RequestKinds
<1>3. CASE \E r \in Requests : Crash(r)
  <2>1. PICK r \in Requests : Crash(r)
    BY <1>3
  <2> QED
    BY <2>1, MoveKeeps DEF Crash, Guarded
<1>4. CASE Cluster
  BY <1>4 DEF Excl, GuardedHolds, Cluster
<1>5. CASE Expire
  <2>1. lock.holder # Nobody /\ pc[lock.holder] \in Ended /\ UNCHANGED pc
    BY <1>5, Zenon DEF Expire
  <2>2. \A r \in Requests : pc[r] \in Guarded => FALSE
    BY <2>1 DEF Excl, GuardedHolds, Ended, Guarded
  <2> QED
    BY <2>1, <2>2 DEF GuardedHolds
<1>6. CASE UNCHANGED vars
  BY <1>6 DEF Excl, GuardedHolds, vars
<1> QED
  BY <1>1, <1>2, <1>3, <1>4, <1>5, <1>6 DEF Next

(***************************************************************************)
(* What the one request inside the lock may rely on.  An unlocked gate has *)
(* read the cluster at some earlier time; what it read need not hold any   *)
(* more.  From the second look on, under the lock, the facts below hold at *)
(* the step of a request named by its program counter until it leaves it,  *)
(* whatever the others do and whoever of them dies where.                  *)
(***************************************************************************)

NothingLive == pod.phase \notin Live

\* Upward: a fresh installation meets no release and no live pod, a start an
\* installed release and no pod; the token minted is still the valid one, and
\* so is the one in the Secret a new pod will read.
UpwardKnows(r) ==
    /\ pc[r] \in {"mint_install", "install"} => ~Installed
    /\ pc[r] = "installing" => Installed /\ NothingLive
    /\ pc[r] \in {"mint_start", "refresh", "manifest", "create"} =>
           Installed /\ pod.phase = "none"
    /\ pc[r] \in {"install", "installing", "refresh"} => wpat[r] = pat /\ pat # 0
    /\ pc[r] \in {"manifest", "create"} => secret = pat

\* Downward: once the uninstall has begun no pod lives, once it has forgotten
\* the release nothing brings one back, and a revoked token stays revoked.
DownwardKnows(r) ==
    /\ pc[r] \in {"unpod", "unsecret", "unrest", "purge"} =>
           release \notin {"none", "deployed"}
    /\ pc[r] \in {"unsecret", "purge"} => NothingLive
    /\ pc[r] \in {"sweep", "clear"} => ~Installed
    /\ pc[r] \in {"uninstall", "unpod", "unsecret", "purge", "sweep", "clear"} =>
           (user[r] /\ r \notin unrevoked => pat = 0)

Knows == \A r \in Requests : UpwardKnows(r) /\ DownwardKnows(r)

\* The token a live pod runs with, or will read from the Secret, is the valid
\* one unless it was revoked.
SecretInSync == pod.phase \in Live => secret = 0 \/ pat \in {secret, 0}

\* The properties themselves, of a workspace whose lock was never overrun.
TokenValid == pod.phase = "running" => pat \in {pod.tok, 0}
PodOwned   == pod.phase \in Live => Installed
SecretKept == release = "deployed" => secret # 0

WorkspaceInv ==
    /\ PodOwned /\ TokenValid /\ SecretInSync /\ SecretKept
    /\ Knows

Inv == Excl /\ WorkspaceInv

\* The steps at which a request relies on what it knows.
Relying == {"mint_install", "install", "installing", "mint_start", "refresh",
            "manifest", "create", "uninstall", "unpod", "unsecret", "unrest", "purge",
            "sweep", "clear"}

\* A step of the request inside: nobody else relies on anything.
LEMMA InsideKeeps ==
    ASSUME Inv, NEW r \in Requests, pc[r] \in Guarded, NEW p, Goto(r, p),
           UpwardKnows(r)', DownwardKnows(r)'
    PROVE  Knows'
<1> SUFFICES ASSUME NEW q \in Requests, q # r
             PROVE  UpwardKnows(q)' /\ DownwardKnows(q)'
  BY DEF Knows
<1>1. pc'[q] = pc[q] /\ pc[q] \notin Guarded
  BY DEF Inv, Excl, TypeOK, GuardedHolds, Goto
<1> QED
  BY <1>1 DEF UpwardKnows, DownwardKnows, Guarded

\* A step that leaves the workspace alone and relies on nothing afterwards.
LEMMA OutsideKeeps ==
    ASSUME Inv, NEW r \in Requests, NEW p, Goto(r, p), p \notin Relying,
           UNCHANGED <<release, pod, secret, pat, wpat, unrevoked>>,
           \A q \in Requests : q # r => user'[q] = user[q]
    PROVE  WorkspaceInv'
<1>1. ASSUME NEW q \in Requests
      PROVE  UpwardKnows(q)' /\ DownwardKnows(q)'
  <2>1. CASE q = r
    <3>1. pc'[q] \notin Relying
      BY <2>1 DEF Inv, Excl, TypeOK, Goto
    <3> QED
      BY <3>1 DEF UpwardKnows, DownwardKnows, Relying
  <2>2. CASE q # r
    <3>1. pc'[q] = pc[q] /\ user'[q] = user[q]
      BY <2>2 DEF Inv, Excl, TypeOK, Goto
    <3>2. UpwardKnows(q) /\ DownwardKnows(q)
      BY DEF Inv, WorkspaceInv, Knows
    <3> QED
      BY <3>1, <3>2 DEF UpwardKnows, DownwardKnows, Installed, NothingLive
  <2> QED
    BY <2>1, <2>2
<1> QED
  BY <1>1 DEF Inv, WorkspaceInv, Knows, PodOwned, TokenValid, SecretInSync,
              SecretKept, Installed

LEMMA WorkspaceUp ==
    ASSUME Inv, NEW r \in Upward, UpStep(r)
    PROVE  WorkspaceInv'
<1>r. r \in Requests
  BY RequestKinds
<1>t. TypeOK
  BY DEF Inv, Excl
<1>k. UpwardKnows(r) /\ DownwardKnows(r)
  BY <1>r DEF Inv, WorkspaceInv, Knows
<1>w. PodOwned /\ TokenValid /\ SecretInSync /\ SecretKept
  BY DEF Inv, WorkspaceInv
<1>1. CASE ProvisionGate(r) \/ GatePod(r) \/ GateWait(r) \/ StartGate(r) \/ StoreThreat(r)
             \/ PreCheck(r) \/ PreCheckPod(r) \/ Observe(r) \/ Acquire(r) \/ Watch(r)
             \/ Unlock(r)
  <2> USE DEF ProvisionGate, GatePod, GateWait, StartGate, StoreThreat, PreCheck, PreCheckPod,
              Observe, Acquire, Watch, Unlock, world, local
  <2>1. \E p \in PC \ Relying : Goto(r, p)
    BY <1>1 DEF PC, Guarded, Ended, Relying
  <2>2. UNCHANGED <<release, pod, secret, pat, wpat, unrevoked, user>>
    BY <1>1
  <2> QED
    BY <2>1, <2>2, <1>r, OutsideKeeps
<1>2. CASE Recheck(r) \/ WaitGone(r) \/ PodFromRelease(r)
  <2> USE DEF Recheck, WaitGone, PodFromRelease, world, local
  <2>1. UNCHANGED <<release, pod, secret, pat, wpat, unrevoked, user>>
    BY <1>2
  <2>2. PICK p : Goto(r, p)
    BY <1>2
  <2>3. pc'[r] = p /\ pc[r] \in Guarded
    BY <1>2, <1>r, <1>t, <2>2 DEF TypeOK, Goto, At, Guarded
  <2>4. UpwardKnows(r)' /\ DownwardKnows(r)'
    BY <1>2, <1>k, <1>r, <1>t, <2>1
    DEF TypeOK, Goto, At, UpwardKnows, DownwardKnows, Installed, NothingLive
  <2>5. Knows'
    BY <2>2, <2>3, <2>4, <1>r, InsideKeeps
  <2> QED
    BY <2>1, <2>5, <1>w
    DEF WorkspaceInv, PodOwned, TokenValid, SecretInSync, SecretKept, Installed
<1>3. CASE Recycle(r)
  <2>1. \E p \in {"waitgone", "unlock"} : Goto(r, p)
    BY <1>3 DEF Recycle
  <2>2. pc[r] \in Guarded /\ pc'[r] \in {"waitgone", "unlock"}
    BY <1>3, <1>r, <1>t, <2>1 DEF TypeOK, Recycle, At, Goto, Guarded
  <2>3. Knows'
    BY <2>1, <2>2, <1>r, InsideKeeps DEF UpwardKnows, DownwardKnows
  <2>4. pod' = pod \/ pod'.phase \notin Live
    BY <1>3, <1>t DEF Recycle, StopPod, NoPod, TypeOK, Live
  <2> QED
    BY <2>3, <2>4, <1>3, <1>w
    DEF Recycle, local, WorkspaceInv, PodOwned, TokenValid, SecretInSync,
        SecretKept, Installed, Live
<1>4. CASE MintPAT(r)
  <2>0. pc[r] \in {"mint_install", "mint_start"} /\ pc[r] \in Guarded
    BY <1>4 DEF MintPAT, Mint, At, Guarded
  <2>1. NothingLive
    BY <2>0, <1>k, <1>w DEF UpwardKnows, NothingLive, PodOwned, Live
  <2>2. PICK p : Goto(r, p)
    BY <1>4 DEF MintPAT, Mint
  <2>3. UpwardKnows(r)' /\ DownwardKnows(r)'
    BY <1>4, <1>k, <1>r, <1>t
    DEF MintPAT, Mint, TypeOK, Goto, At, UpwardKnows, DownwardKnows, Installed, NothingLive
  <2>4. Knows'
    BY <2>0, <2>2, <2>3, <1>r, InsideKeeps
  <2> QED
    BY <2>1, <2>4, <1>4, <1>w
    DEF MintPAT, Mint, WorkspaceInv, NothingLive, PodOwned, TokenValid, SecretInSync,
        SecretKept, Installed, Live
<1>5. CASE InstallBegin(r)
  <2>1. PICK p : Goto(r, p)
    BY <1>5 DEF InstallBegin
  <2>2. UpwardKnows(r)' /\ DownwardKnows(r)'
    BY <1>5, <1>k, <1>r, <1>t, <1>w
    DEF InstallBegin, local, TypeOK, Goto, At, UpwardKnows, DownwardKnows, Installed,
        NothingLive, PodOwned
  <2>3. Knows'
    BY <1>5, <2>1, <2>2, <1>r, InsideKeeps DEF InstallBegin, At, Guarded
  <2> QED
    BY <2>3, <1>5, <1>w
    DEF InstallBegin, WorkspaceInv, PodOwned, TokenValid, SecretInSync,
        SecretKept, Installed
<1>6. CASE InstallFinish(r)
  <2>1. pc[r] = "installing" /\ NothingLive /\ wpat[r] = pat /\ pat # 0
    BY <1>6, <1>k DEF InstallFinish, At, UpwardKnows
  <2>2. \E p \in {"watch", "unlock"} : Goto(r, p)
    BY <1>6 DEF InstallFinish
  <2>3. pc'[r] \in {"watch", "unlock"} /\ pc[r] \in Guarded
    BY <2>1, <2>2, <1>r, <1>t DEF TypeOK, Goto, Guarded
  <2>4. Knows'
    BY <2>2, <2>3, <1>r, InsideKeeps DEF UpwardKnows, DownwardKnows
  <2>5. /\ release' # "none" /\ pat' = pat
        /\ release' = "deployed" => secret' = pat
        /\ pod'.phase \in Live => pod'.phase = "starting" /\ secret' = pat
    BY <1>6, <2>1 DEF InstallFinish, NothingLive, Live
  <2> QED
    BY <2>1, <2>4, <2>5
    DEF WorkspaceInv, PodOwned, TokenValid, SecretInSync, SecretKept, Installed, Live
<1>7. CASE RefreshPATSecret(r)
  <2>1. pc[r] = "refresh" /\ pod.phase = "none" /\ wpat[r] = pat /\ pat # 0
    BY <1>7, <1>k DEF RefreshPATSecret, At, UpwardKnows
  <2>2. PICK p : Goto(r, p)
    BY <1>7 DEF RefreshPATSecret
  <2>3. UpwardKnows(r)' /\ DownwardKnows(r)'
    BY <1>7, <2>1, <1>k, <1>r, <1>t
    DEF RefreshPATSecret, local, TypeOK, Goto, At, UpwardKnows, DownwardKnows, Installed
  <2>4. Knows'
    BY <2>1, <2>2, <2>3, <1>r, InsideKeeps DEF Guarded
  <2> QED
    BY <2>1, <2>4, <1>7, <1>w
    DEF RefreshPATSecret, WorkspaceInv, PodOwned, TokenValid, SecretInSync,
        SecretKept, Installed, Live
<1>8. CASE CreatePod(r)
  <2>1. pc[r] = "create" /\ Installed /\ secret = pat
    BY <1>8, <1>k DEF CreatePod, At, UpwardKnows
  <2>2. \E p \in {"watch", "unlock"} : Goto(r, p)
    BY <1>8 DEF CreatePod
  <2>3. pc'[r] \in {"watch", "unlock"} /\ pc[r] \in Guarded
    BY <2>1, <2>2, <1>r, <1>t DEF TypeOK, Goto, Guarded
  <2>4. Knows'
    BY <2>2, <2>3, <1>r, InsideKeeps DEF UpwardKnows, DownwardKnows
  <2>5. pod' = pod \/ pod'.phase = "starting"
    BY <1>8 DEF CreatePod
  <2> QED
    BY <2>1, <2>4, <2>5, <1>8, <1>w
    DEF CreatePod, WorkspaceInv, PodOwned, TokenValid, SecretInSync,
        SecretKept, Installed
<1> QED
  BY <1>1, <1>2, <1>3, <1>4, <1>5, <1>6, <1>7, <1>8 DEF UpStep

LEMMA WorkspaceDown ==
    ASSUME Inv, NEW r \in Downward, DownStep(r)
    PROVE  WorkspaceInv'
<1>r. r \in Requests /\ (r \notin Stops => r \in Deletes)
  BY RequestKinds DEF Downward
<1>t. TypeOK
  BY DEF Inv, Excl
<1>k. UpwardKnows(r) /\ DownwardKnows(r)
  BY <1>r DEF Inv, WorkspaceInv, Knows
<1>w. PodOwned /\ TokenValid /\ SecretInSync /\ SecretKept
  BY DEF Inv, WorkspaceInv
<1>1. CASE StopFind(r) \/ DeleteFind(r) \/ TryAcquire(r) \/ Wake(r) \/ ClearThreat(r)
             \/ Unlock(r)
  <2> USE DEF StopFind, DeleteFind, TryAcquire, Wake, ClearThreat, Unlock, world, local
  <2>1. \E p \in PC \ Relying : Goto(r, p)
    BY <1>1 DEF PC, Guarded, Ended, Relying
  <2>2. UNCHANGED <<release, pod, secret, pat, wpat, unrevoked>>
    BY <1>1
  <2>3. \A q \in Requests : q # r => user'[q] = user[q]
    BY <1>1, <1>t DEF TypeOK
  <2> QED
    BY <2>1, <2>2, <2>3, <1>r, OutsideKeeps
<1>2. CASE DeletePAT(r)
  <2>1. PICK p : Goto(r, p)
    BY <1>2 DEF DeletePAT
  <2>2. pc'[r] \in {"stoppod", "uninstall"} /\ pc[r] \in Guarded
    BY <1>2, <1>r, <1>t DEF DeletePAT, TypeOK, Goto, At, Guarded
  <2>3. UpwardKnows(r)'
    BY <2>2 DEF UpwardKnows
  <2>4. ASSUME pc'[r] = "uninstall"
        PROVE  user'[r] /\ r \notin unrevoked' => pat' = 0
    <3>1. r \in Deletes
      BY <1>2, <2>4, <1>r, <1>t DEF DeletePAT, TypeOK, Goto
    <3> QED
      BY <1>2, <3>1 DEF DeletePAT
  <2>5. Knows'
    BY <2>1, <2>2, <2>3, <2>4, <1>r, InsideKeeps DEF DownwardKnows
  <2> QED
    BY <2>5, <1>2, <1>w
    DEF DeletePAT, WorkspaceInv, PodOwned, TokenValid, SecretInSync,
        SecretKept, Installed
<1>3. CASE StopWorkspacePod(r)
  <2>1. Goto(r, "unlock")
    BY <1>3 DEF StopWorkspacePod
  <2>2. pc[r] \in Guarded /\ pc'[r] = "unlock"
    BY <1>3, <1>r, <1>t, <2>1 DEF TypeOK, StopWorkspacePod, At, Goto, Guarded
  <2>3. Knows'
    BY <2>1, <2>2, <1>r, InsideKeeps DEF UpwardKnows, DownwardKnows
  <2>4. pod' = pod \/ pod'.phase \notin Live
    BY <1>3, <1>t DEF StopWorkspacePod, StopPod, NoPod, TypeOK, Live
  <2> QED
    BY <2>3, <2>4, <1>3, <1>w
    DEF StopWorkspacePod, WorkspaceInv, PodOwned, TokenValid, SecretInSync,
        SecretKept, Installed, Live
<1>4. CASE Uninstall(r)
  <2> USE DEF Uninstall, UninstallBegin, UninstallPod, UninstallSecret
  <2>1. PICK p : Goto(r, p)
    BY <1>4
  <2>2. pc[r] \in {"uninstall", "unpod", "unsecret", "unrest"} /\ pc[r] \in Guarded
    BY <1>4 DEF At, Guarded
  <2>3. /\ pc[r] = "unpod" /\ pc'[r] = "unsecret" => pod'.phase \notin Live
        /\ pod' = pod \/ pod'.phase \notin Live
    BY <1>4, <1>r, <1>t DEF DeletePod, TypeOK, Goto, At, Live
  <2>4. UpwardKnows(r)' /\ DownwardKnows(r)'
    BY <1>4, <2>2, <2>3, <1>k, <1>r, <1>t
    DEF local, UpwardKnows, DownwardKnows, NothingLive, Installed, At, Goto, TypeOK
  <2>5. Knows'
    BY <2>1, <2>2, <2>4, <1>r, InsideKeeps
  <2>6. release' # "deployed" \/ UNCHANGED <<release, secret>>
    BY <1>4, <1>k DEF At, DownwardKnows
  <2>7. Installed' = Installed /\ pat' = pat
    BY <1>4 DEF Installed
  <2>8. secret' \in {secret, 0}
    BY <1>4
  <2> QED
    BY <2>3, <2>5, <2>6, <2>7, <2>8, <1>w
    DEF WorkspaceInv, PodOwned, TokenValid, SecretInSync, SecretKept, Live
<1>5. CASE Purge(r) \/ Sweep(r)
  <2>1. PICK p : Goto(r, p)
    BY <1>5 DEF Purge, Sweep
  <2>2. pc[r] \in {"purge", "sweep"} /\ pc'[r] \in {"sweep", "clear"} /\ pc[r] \in Guarded
    BY <1>5, <1>r, <1>t DEF Purge, Sweep, TypeOK, Goto, At, Guarded
  <2>3. NothingLive /\ release' = "none"
    BY <1>5, <1>k, <1>w
    DEF Purge, Sweep, At, DownwardKnows, NothingLive, PodOwned, Installed
  <2>4. UpwardKnows(r)' /\ DownwardKnows(r)'
    BY <1>5, <2>2, <2>3, <1>k
    DEF Purge, Sweep, local, UpwardKnows, DownwardKnows, Installed
  <2>5. Knows'
    BY <2>1, <2>2, <2>4, <1>r, InsideKeeps
  <2> QED
    BY <1>5, <2>3, <2>5
    DEF Purge, Sweep, NothingLive, WorkspaceInv, PodOwned, TokenValid, SecretInSync,
        SecretKept, Installed, Live
<1> QED
  BY <1>1, <1>2, <1>3, <1>4, <1>5 DEF DownStep

\* The cluster may take a pod away or make it live again, but it does not
\* bring back one that is gone or on its way out.
LEMMA WorkspaceCluster ==
    ASSUME Inv, Cluster
    PROVE  WorkspaceInv'
<1> USE DEF Cluster, PodUp, PodEnds, PodDeleted, NoPod, Live, Deleting
<1>t. TypeOK
  BY DEF Inv, Excl
<1>w. PodOwned /\ TokenValid /\ SecretInSync /\ SecretKept /\ Knows
  BY DEF Inv, WorkspaceInv
<1>1. /\ UNCHANGED <<release, secret, pat, pc, wpat, user, unrevoked>>
      /\ pod'.phase \in Live => pod.phase \in Live
      /\ pod.phase = "none" => pod'.phase = "none"
  BY <1>t DEF TypeOK, local
<1>2. TokenValid'
  <2>1. pod'.phase = "running" => pod'.tok = secret /\ secret # 0
    BY <1>t DEF TypeOK
  <2> QED
    BY <2>1, <1>1, <1>w DEF TokenValid, SecretInSync
<1>3. Knows'
  BY <1>1, <1>w DEF Knows, UpwardKnows, DownwardKnows, NothingLive, Installed
<1> QED
  BY <1>1, <1>2, <1>3, <1>w
  DEF WorkspaceInv, PodOwned, SecretInSync, SecretKept, Installed

LEMMA WorkspaceStep ==
    ASSUME Inv, [Next]_vars, ~overran'
    PROVE  WorkspaceInv'
<1>1. CASE \E r \in Upward : UpStep(r)
  BY <1>1, WorkspaceUp
<1>2. CASE \E r \in Downward : DownStep(r)
  BY <1>2, WorkspaceDown
<1>3. CASE \E r \in Requests : Crash(r)
  BY <1>3, OutsideKeeps DEF Crash, world, local, Relying
<1>4. CASE Cluster
  BY <1>4, WorkspaceCluster
<1>5. CASE Expire \/ UNCHANGED vars
  <2>1. UNCHANGED <<release, pod, secret, pat, pc, wpat, user, unrevoked>>
    BY <1>5 DEF Expire, vars, world, local
  <2> QED
    BY <2>1 DEF Inv, WorkspaceInv, PodOwned, TokenValid, SecretInSync,
                SecretKept, Knows, UpwardKnows, DownwardKnows, NothingLive, Installed
<1> QED
  BY <1>1, <1>2, <1>3, <1>4, <1>5 DEF Next

\* What is always true: the types, and all of the above until a lease runs
\* out under a request at work.
Safe == TypeOK /\ (~overran => Inv)

LEMMA SafeAlways == Spec => []Safe
<1>1. Init => Safe
  <2> SUFFICES ASSUME Init PROVE Excl /\ WorkspaceInv
    BY TypeInit DEF Safe, Inv
  <2>0. ~overran
    BY Zenon DEF Init
  <2>1. Excl
    BY TypeInit, <2>0 DEF Init, Excl, GuardedHolds, Guarded
  <2>2. Knows
    BY DEF Init, Knows, UpwardKnows, DownwardKnows
  <2> QED
    BY <2>1, <2>2 DEF Init, NoPod, Live, WorkspaceInv, PodOwned, TokenValid,
                      SecretInSync, SecretKept, Installed
<1>2. Safe /\ [Next]_vars => Safe'
  <2> SUFFICES ASSUME Safe, [Next]_vars, ~overran' PROVE Inv'
    BY TypeStep DEF Safe
  <2>1. ~overran
    BY Zenon DEF Next, Expire, vars
  <2>2. Inv /\ Excl
    BY <2>1 DEF Safe, Inv
  <2>3. GuardedHolds' /\ WorkspaceInv' /\ TypeOK'
    BY <2>2, ExclStep, WorkspaceStep, TypeStep DEF Excl
  <2> QED
    BY <2>3 DEF Inv, Excl
<1> QED
  BY <1>1, <1>2, PTL DEF Spec

\* No pod outlives its release: however installs, starts, stops, deletes and
\* crashes of replicas fall, a delete never forgets the release of a pod that
\* is not on its way out, and no start creates one for a release that is gone,
\* until a lease runs out under a request at work.
THEOREM PodsAreOwned == Spec => []NoOrphanPod
<1>1. Safe => NoOrphanPod
  BY DEF Safe, Inv, WorkspaceInv, PodOwned, NoOrphanPod
<1> QED
  BY <1>1, SafeAlways, PTL

\* A running pod holds the valid token or a revoked one: tokens are minted
\* only while no pod is live, and a pod reads its token from a Secret that
\* was written with the token minted last.
THEOREM TokensAgree == Spec => []TokenInSync
<1>1. Safe => TokenInSync
  BY DEF Safe, Inv, WorkspaceInv, TokenValid, TokenInSync
<1> QED
  BY <1>1, SafeAlways, PTL

\* A deployed release has its Secret: no uninstall that fails or dies half way
\* leaves a release that looks deployed without it, and the clean-up of a
\* delete never hits the objects of a later installation.
THEOREM DeployedStarts == Spec => []DeployedIsStartable
<1>1. Safe => DeployedIsStartable
  BY DEF Safe, Inv, WorkspaceInv, SecretKept, DeployedIsStartable
<1> QED
  BY <1>1, SafeAlways, PTL

\* From the moment a delete has removed the release until it has swept the
\* leftovers, nothing newer is there: no release, no live pod, and no token
\* but one it could not revoke.
THEOREM DeletesAlone == Spec => []DeleteIsAlone
<1>1. Safe => DeleteIsAlone
  <2> SUFFICES ASSUME Safe, NEW d \in Deletes, ~overran, pc[d] \in {"sweep", "clear"}
               PROVE  ~Installed /\ NothingLive /\ (user[d] /\ d \notin unrevoked => pat = 0)
    BY DEF DeleteIsAlone, NothingLive
  <2>1. DownwardKnows(d) /\ PodOwned
    BY RequestKinds DEF Safe, Inv, WorkspaceInv, Knows
  <2> QED
    BY <2>1 DEF DownwardKnows, PodOwned, NothingLive
<1> QED
  BY <1>1, SafeAlways, PTL
=============================================================================
