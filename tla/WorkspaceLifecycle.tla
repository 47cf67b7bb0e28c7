------------------------- MODULE WorkspaceLifecycle -------------------------
(***************************************************************************)
(* The life of one standalone workspace: the requests that provision,      *)
(* start, stop and delete it, on any number of provisioner replicas, and   *)
(* what they share: the Helm release, the pod, the PAT Secret, the token   *)
(* at the identity service, the threat detection entry and the lock.       *)
(* (internal/server/provision.go, lifecycle.go and threat.go;              *)
(*  internal/workspace/provision.go, workspace.go and pat.go.)             *)
(*                                                                         *)
(* Every call that reads or changes shared state is a step of its own, so  *)
(* what an unlocked gate saw may be stale when the request acts on it.     *)
(* The lock is the abstract mutex WorkspaceLock implements: taking it is   *)
(* one step.  Its lease lasts 30 seconds and no request renews it, so it   *)
(* may run out under any holder; overran remembers that it did under one   *)
(* that was still at work.                                                 *)
(***************************************************************************)
EXTENDS Naturals, FiniteSets

CONSTANTS
    Provisions,   \* ProvisionWorkspaceStream requests
    Starts,       \* StartWorkspaceStream requests
    Stops,        \* StopWorkspace requests
    Deletes,      \* DeleteWorkspace requests
    Delayed,      \* the stops and deletes with DelaySeconds > 0
    Nobody,       \* the holder of a free lock
    ReadsFail,    \* a read of the cluster may fail
    ServicesFail  \* the identity, authz and NATS services may be away

Upward   == Provisions \union Starts
Downward == Stops \union Deletes
Requests == Upward \union Downward

ASSUME LifecycleConstants ==
    /\ Nobody \notin Requests
    /\ Delayed \subseteq Downward
    /\ Upward \intersect Downward = {}
    /\ Stops \intersect Deletes = {}
    /\ Provisions \intersect Starts = {}
    /\ {ReadsFail, ServicesFail} \subseteq BOOLEAN

VARIABLES
    release,   \* status of the Helm release, "none" when there is none
    pod,       \* the workspace pod: its phase and the token it runs with
    secret,    \* token in the PAT Secret, 0 when the Secret is missing
    pat,       \* token the identity service accepts, 0 when there is none
    minted,    \* number of tokens minted so far
    threat,    \* a threat detection entry is stored for the workspace
    lock,      \* the workspace lock: its holder, and whether it ran out
    pc,        \* where each request is
    wpat,      \* Workspace.pat: the token a request minted
    user,      \* the request's Workspace knows its user and identity client
    unrevoked, \* deletes whose DeletePAT failed, which is only logged
    overran    \* history: a lease ran out under a request at work

world == <<release, pod, secret, pat, minted, threat>>
local == <<wpat, user, unrevoked>>
vars  == <<world, lock, pc, local, overran>>

Deleting == {"stopping", "terminating", "nodelost"}
Live     == {"starting", "running", "crashing", "failed", "stopped"}
Ended    == {"done", "rejected", "crashed"}

\* The steps a request takes between taking the lock and releasing it.
Guarded == {"recheck", "recycle", "waitgone", "mint_install", "install",
            "installing", "mint_start", "refresh", "manifest",
            "create", "watch", "sleep", "revoke", "stoppod", "uninstall",
            "unpod", "unsecret", "unrest", "purge", "sweep", "clear", "unlock"}

PC == {"new", "gate", "gatewait", "store", "pre", "prepod", "observe", "lock", "try"}
          \union Guarded \union Ended

Free  == [holder |-> Nobody, stale |-> FALSE]
NoPod == [phase |-> "none", tok |-> 0]

TypeOK ==
    /\ release \in {"none", "pending", "deployed", "uninstalling", "failed"}
    /\ pod \in [phase : {"none"} \union Live \union Deleting, tok : 0..minted]
    /\ minted \in Nat
    /\ secret \in 0..minted /\ pat \in 0..minted
    /\ threat \in BOOLEAN
    /\ lock \in [holder : Requests \union {Nobody}, stale : BOOLEAN]
    /\ pc \in [Requests -> PC]
    /\ wpat \in [Requests -> 0..minted]
    /\ user \in [Requests -> BOOLEAN]
    /\ unrevoked \subseteq Deletes
    /\ overran \in BOOLEAN

\* The requests meet no workspace, or one that was provisioned before.
Init ==
    /\ \/ /\ release = "none" /\ pod = NoPod
          /\ minted = 0 /\ threat = FALSE
       \/ /\ release = "deployed" /\ pod = [phase |-> "running", tok |-> 1]
          /\ minted = 1 /\ threat = TRUE
    /\ secret = minted /\ pat = minted
    /\ lock = Free
    /\ pc = [r \in Requests |-> "new"]
    /\ wpat = [r \in Requests |-> 0]
    /\ user = [r \in Requests |-> r \notin Deletes]
    /\ unrevoked = {}
    /\ overran = FALSE

-----------------------------------------------------------------------------
(* Helpers.                                                                *)

Goto(r, p)   == pc' = [pc EXCEPT ![r] = p]
At(r, p)     == pc[r] = p
Installed    == release # "none"      \* IsInstalled: any release status
LockFree     == lock.holder = Nobody \/ lock.stale
TakeLock(r)  == lock' = [holder |-> r, stale |-> FALSE]

\* StopPod's effect on the pod: the stop label and a graceful deletion.
StopPod == IF pod.phase = "none" THEN NoPod ELSE [pod EXCEPT !.phase = "stopping"]

\* A deletion Helm or Kubernetes starts.
DeletePod == IF pod.phase \in Live THEN [pod EXCEPT !.phase = "terminating"] ELSE pod

-----------------------------------------------------------------------------
(* Provision and Start up to the lock.                                     *)

\* ProvisionWorkspaceStream's unlocked gate asks for the release first.
ProvisionGate(r) ==
    /\ r \in Provisions /\ At(r, "new")
    /\ \/ ~Installed /\ Goto(r, "store")
       \/ Installed /\ Goto(r, "gate")
       \/ ReadsFail /\ Goto(r, "rejected")
    /\ UNCHANGED <<world, lock, local>>

\* ... and for the pod only when there is one.  GetPodStatus answers with an
\* error for a pod with a critical error ("crashing").
GatePod(r) ==
    /\ At(r, "gate")
    /\ \/ /\ pod.phase \notin Deleting \union {"running", "crashing"}
          /\ Goto(r, "store")
       \/ /\ pod.phase \in {"stopping", "terminating"}
          /\ Goto(r, "gatewait")
       \/ /\ pod.phase \in {"running", "crashing", "nodelost"} \/ ReadsFail
          /\ Goto(r, "rejected")
    /\ UNCHANGED <<world, lock, local>>

\* The gate's WaitForPodGone: the pod is gone, or the wait timed out.
GateWait(r) ==
    /\ At(r, "gatewait")
    /\ \/ pod.phase = "none" /\ Goto(r, "store")
       \/ (pod.phase # "none" \/ ReadsFail) /\ Goto(r, "rejected")
    /\ UNCHANGED <<world, lock, local>>

\* StartWorkspaceStream: only a deployed release is found.
StartGate(r) ==
    /\ r \in Starts /\ At(r, "new")
    /\ \/ /\ release = "deployed" /\ pod.phase \notin {"running", "crashing"}
          /\ Goto(r, "store")
       \/ /\ release # "deployed" \/ pod.phase \in {"running", "crashing"} \/ ReadsFail
          /\ Goto(r, "rejected")
    /\ UNCHANGED <<world, lock, local>>

\* storeThreatDetection, before Provision takes the lock; best effort.
StoreThreat(r) ==
    /\ At(r, "store")
    /\ \/ threat' = TRUE
       \/ ServicesFail /\ UNCHANGED threat
    /\ Goto(r, "pre")
    /\ UNCHANGED <<release, pod, secret, pat, minted, lock, local>>

\* Provision's first, unlocked look, again the release before the pod; a
\* read that fails is ignored.
PreCheck(r) ==
    /\ At(r, "pre")
    /\ \/ Installed /\ Goto(r, "prepod")
       \/ (~Installed \/ ReadsFail) /\ Goto(r, "lock")
    /\ UNCHANGED <<world, lock, local>>

PreCheckPod(r) ==
    /\ At(r, "prepod")
    /\ \/ pod.phase = "running" /\ Goto(r, "done")
       \/ pod.phase = "starting" /\ Goto(r, "observe")
       \/ /\ pod.phase \notin {"running", "starting"} \/ ReadsFail
          /\ Goto(r, "lock")
    /\ UNCHANGED <<world, lock, local>>

\* Another request is starting the pod: watch it without the lock until it
\* runs, fails or the timeout elapses.
Observe(r) ==
    /\ At(r, "observe")
    /\ Goto(r, "done")
    /\ UNCHANGED <<world, lock, local>>

AcquireAlways(r) ==   \* mutant: Provision does not take the lock
    /\ At(r, "lock")
    /\ Goto(r, "recheck")
    /\ UNCHANGED <<lock, world, local>>

\* Acquire waits for the lock until its context times out.
Acquire(r) ==
    /\ At(r, "lock")
    /\ \/ /\ LockFree
          /\ TakeLock(r)
          /\ Goto(r, "recheck")
       \/ /\ ~LockFree
          /\ Goto(r, "rejected")
          /\ UNCHANGED lock
    /\ UNCHANGED <<world, local>>

-----------------------------------------------------------------------------
(* Provision under the lock.                                               *)

RecheckNoWait(r) ==   \* mutant: start beside whatever pod there is
    /\ At(r, "recheck")
    /\ \/ ~Installed /\ Goto(r, "mint_install")
       \/ Installed /\ pod.phase # "running" /\ Goto(r, "mint_start")
       \/ Goto(r, "unlock")
    /\ UNCHANGED <<world, lock, local>>

\* The authoritative look, and provisionExisting's choice.  A running pod, a
\* pod on a lost node, a pod with a critical error and a failed read end the
\* request.
Recheck(r) ==
    /\ At(r, "recheck")
    /\ \/ ~Installed /\ Goto(r, "mint_install")
       \/ Installed /\ pod.phase = "none" /\ Goto(r, "mint_start")
       \/ Installed /\ pod.phase = "starting" /\ Goto(r, "watch")
       \/ Installed /\ pod.phase \in {"stopping", "terminating"} /\ Goto(r, "waitgone")
       \/ Installed /\ pod.phase \in {"stopped", "failed"} /\ Goto(r, "recycle")
       \/ /\ (Installed /\ pod.phase \in {"running", "nodelost", "crashing"}) \/ ReadsFail
          /\ Goto(r, "unlock")
    /\ UNCHANGED <<world, lock, local>>

\* StopPod on a pod that ended; it refuses a pod on a lost node, and the
\* calls may fail.
Recycle(r) ==
    /\ At(r, "recycle")
    /\ \/ /\ pod.phase # "nodelost"
          /\ pod' = StopPod
          /\ Goto(r, "waitgone")
       \/ /\ Goto(r, "unlock")
          /\ UNCHANGED pod
    /\ UNCHANGED <<release, secret, pat, minted, threat, lock, local>>

\* WaitForPodGone, then the second look at the release.
WaitGone(r) ==
    /\ At(r, "waitgone")
    /\ \/ /\ pod.phase = "none"
          /\ Goto(r, IF Installed THEN "mint_start" ELSE "mint_install")
       \/ (pod.phase # "none" \/ ReadsFail) /\ Goto(r, "unlock")
    /\ UNCHANGED <<world, lock, local>>

\* MintPAT with Renew: the identity service replaces the workspace's token.
Mint(r, from, to) ==
    /\ At(r, from)
    /\ \/ /\ minted' = minted + 1
          /\ pat' = minted + 1
          /\ wpat' = [wpat EXCEPT ![r] = minted + 1]
          /\ Goto(r, to)
       \/ /\ Goto(r, "unlock")
          /\ UNCHANGED <<minted, pat, wpat>>
    /\ UNCHANGED <<release, pod, secret, threat, lock, user, unrevoked>>

MintPAT(r) == Mint(r, "mint_install", "install") \/ Mint(r, "mint_start", "refresh")

\* helm install begins; it refuses a release name in use, and what comes
\* before it in doInstallation may fail.
InstallBegin(r) ==
    /\ At(r, "install")
    /\ \/ /\ ~Installed
          /\ release' = "pending"
          /\ Goto(r, "installing")
       \/ /\ Goto(r, "unlock")
          /\ UNCHANGED release
    /\ UNCHANGED <<pod, secret, pat, minted, threat, lock, local>>

\* helm install creates the chart's objects.  It may fail part way.  An
\* object of the same name left by an uninstall that is not finished makes
\* it fail, or is adopted and then disappears.
InstallFinish(r) ==
    /\ At(r, "installing")
    /\ \/ /\ release' = "deployed"
          /\ secret' = wpat[r]
          /\ pod' = IF pod.phase = "none" THEN [phase |-> "starting", tok |-> 0] ELSE pod
          /\ Goto(r, "watch")
       \/ /\ release' = "failed"
          /\ secret' \in {secret, wpat[r]}
          /\ \/ UNCHANGED pod
             \/ /\ pod.phase = "none" /\ secret' = wpat[r]
                /\ pod' = [phase |-> "starting", tok |-> 0]
          /\ Goto(r, "unlock")
    /\ UNCHANGED <<pat, minted, threat, lock, local>>

\* RefreshPATSecret fails when the Secret is missing.
RefreshPATSecret(r) ==
    /\ At(r, "refresh")
    /\ \/ /\ secret # 0
          /\ secret' = wpat[r]
          /\ Goto(r, "manifest")
       \/ /\ Goto(r, "unlock")
          /\ UNCHANGED secret
    /\ UNCHANGED <<release, pod, pat, minted, threat, lock, local>>

\* PodFromRelease needs the release; the alias is claimed again after it.
PodFromRelease(r) ==
    /\ At(r, "manifest")
    /\ \/ Installed /\ Goto(r, "create")
       \/ (~Installed \/ ReadsFail) /\ Goto(r, "unlock")
    /\ UNCHANGED <<world, lock, local>>

\* doStart creates the pod of the stored manifest.
CreatePod(r) ==
    /\ At(r, "create")
    /\ \/ /\ pod.phase = "none"
          /\ pod' = [phase |-> "starting", tok |-> 0]
          /\ Goto(r, "watch")
       \/ /\ Goto(r, "unlock")
          /\ UNCHANGED pod
    /\ UNCHANGED <<release, secret, pat, minted, threat, lock, local>>

\* Watch returns when the pod runs, fails or the timeout elapses; it may also
\* stay for ever in a send on a channel nobody reads any more.
Watch(r) ==
    /\ At(r, "watch")
    /\ Goto(r, "unlock")
    /\ UNCHANGED <<world, lock, local>>

\* The deferred Release, when the request returns.  A failure is logged and
\* leaves the lease to run out; a lease that ran out and was taken over while
\* Release was at work is deleted with the name of its new holder.
Unlock(r) ==
    /\ At(r, "unlock")
    /\ \/ (lock.holder = r \/ overran) /\ lock' = Free
       \/ UNCHANGED lock
    /\ Goto(r, "done")
    /\ UNCHANGED <<world, local>>

-----------------------------------------------------------------------------
(* Stop and Delete.                                                        *)

\* StopWorkspace needs a deployed release and a reachable node.
StopFind(r) ==
    /\ r \in Stops /\ At(r, "new")
    /\ \/ release = "deployed" /\ pod.phase # "nodelost" /\ Goto(r, "try")
       \/ /\ release # "deployed" \/ pod.phase = "nodelost" \/ ReadsFail
          /\ Goto(r, "rejected")
    /\ UNCHANGED <<world, lock, local>>

\* DeleteWorkspace looks the deployed release up, with the identity of its
\* user; a stuck release gives a Workspace that has no identity.
DeleteFind(r) ==
    /\ r \in Deletes /\ At(r, "new")
    /\ \/ Installed /\ Goto(r, "try")
       \/ (~Installed \/ ReadsFail) /\ Goto(r, "rejected")
    /\ user' = [user EXCEPT ![r] = release = "deployed"]
    /\ UNCHANGED <<world, lock, wpat, unrevoked>>

\* TryAcquire answers at once; a delayed request then sleeps with the lock.
TryAcquire(r) ==
    /\ At(r, "try")
    /\ \/ /\ LockFree
          /\ TakeLock(r)
          /\ Goto(r, IF r \in Delayed THEN "sleep" ELSE "revoke")
       \/ /\ ~LockFree
          /\ Goto(r, "rejected")
          /\ UNCHANGED lock
    /\ UNCHANGED <<world, local>>

\* The delay ends; a stop checks the node again.
Wake(r) ==
    /\ At(r, "sleep")
    /\ Goto(r, IF r \in Stops /\ pod.phase = "nodelost" THEN "unlock" ELSE "revoke")
    /\ UNCHANGED <<world, lock, local>>

\* DeletePAT: best effort, and nothing at all without an identity.
DeletePAT(r) ==
    /\ At(r, "revoke")
    /\ \/ user[r] /\ pat' = 0 /\ UNCHANGED unrevoked
       \/ ~user[r] /\ UNCHANGED <<pat, unrevoked>>
       \/ user[r] /\ ServicesFail /\ unrevoked' = unrevoked \union ({r} \intersect Deletes) /\ UNCHANGED pat
    /\ Goto(r, IF r \in Stops THEN "stoppod" ELSE "uninstall")
    /\ UNCHANGED <<release, pod, secret, minted, threat, lock, wpat, user>>

\* StopPod, which refuses a pod on a lost node; the calls may fail.
StopWorkspacePod(r) ==
    /\ At(r, "stoppod")
    /\ \/ pod.phase # "nodelost" /\ pod' = StopPod
       \/ UNCHANGED pod
    /\ Goto(r, "unlock")
    /\ UNCHANGED <<release, secret, pat, minted, threat, lock, local>>

UninstallSilently(r) ==   \* mutant: the release keeps its status meanwhile
    /\ At(r, "uninstall")
    /\ Goto(r, IF Installed THEN "unpod" ELSE "unlock")
    /\ UNCHANGED <<world, lock, local>>

\* helm uninstall marks the release before it deletes anything of it; what
\* comes before may fail.
UninstallBegin(r) ==
    /\ At(r, "uninstall")
    /\ \/ /\ Installed
          /\ release' = "uninstalling"
          /\ Goto(r, "unpod")
       \/ /\ Goto(r, "unlock")
          /\ UNCHANGED release
    /\ UNCHANGED <<pod, secret, pat, minted, threat, lock, local>>

\* It deletes the pod, without waiting for it, and goes on when that fails.
UninstallPod(r) ==
    /\ At(r, "unpod")
    /\ \/ pod' = DeletePod /\ Goto(r, "unsecret")
       \/ UNCHANGED pod /\ Goto(r, "unrest")
    /\ UNCHANGED <<release, secret, pat, minted, threat, lock, local>>

\* It deletes the Secret.  When one deletion failed, the uninstall fails and
\* leaves the release "uninstalling".
UninstallSecret(r) ==
    /\ pc[r] \in {"unsecret", "unrest"}
    /\ \/ /\ secret' = 0
          /\ Goto(r, IF At(r, "unsecret") THEN "purge" ELSE "unlock")
       \/ UNCHANGED secret /\ Goto(r, "unlock")
    /\ UNCHANGED <<release, pod, pat, minted, threat, lock, local>>

Uninstall(r) == UninstallBegin(r) \/ UninstallPod(r) \/ UninstallSecret(r)

PurgeUnlocking(r) ==   \* mutant: the lock is given up before the sweep
    /\ At(r, "purge")
    /\ release' = "none"
    /\ lock' = IF lock.holder = r THEN Free ELSE lock
    /\ Goto(r, "sweep")
    /\ UNCHANGED <<pod, secret, pat, minted, threat, local>>

\* helm uninstall forgets the release.
Purge(r) ==
    /\ At(r, "purge")
    /\ release' = "none"
    /\ Goto(r, "sweep")
    /\ UNCHANGED <<pod, secret, pat, minted, threat, lock, local>>

\* DeleteNamespacedWorkspaceResources by canonical id; pods are not swept.
Sweep(r) ==
    /\ At(r, "sweep")
    /\ secret' \in {0, secret}
    /\ Goto(r, "clear")
    /\ UNCHANGED <<release, pod, pat, minted, threat, lock, local>>

\* clearThreatDetection, still under the lock; best effort.
ClearThreat(r) ==
    /\ At(r, "clear")
    /\ \/ threat' = FALSE
       \/ ServicesFail /\ UNCHANGED threat
    /\ Goto(r, "unlock")
    /\ UNCHANGED <<release, pod, secret, pat, minted, lock, local>>

-----------------------------------------------------------------------------
(* The cluster, and replicas that die.                                     *)

\* The kubelet starts or restarts the containers with the token in the
\* Secret; without a Secret they cannot start.
PodUp ==
    /\ pod.phase \in {"starting", "crashing"}
    /\ pod' = IF secret = 0 THEN [pod EXCEPT !.phase = "crashing"]
              ELSE [phase |-> "running", tok |-> secret]

\* A pod crash-loops, ends, or is deleted by the cluster (a node drain).
PodEnds ==
    /\ pod.phase \in {"starting", "running"}
    /\ \E p \in {"crashing", "failed", "stopped", "terminating"} :
           pod' = [pod EXCEPT !.phase = p]

\* A pod being deleted disappears, or its node is lost first.
PodDeleted ==
    /\ pod.phase \in Deleting
    /\ \/ pod' = NoPod
       \/ pod.phase # "nodelost" /\ pod' = [pod EXCEPT !.phase = "nodelost"]

Cluster ==
    /\ PodUp \/ PodEnds \/ PodDeleted
    /\ UNCHANGED <<release, secret, pat, minted, threat, lock, pc, local>>

\* A replica dies in the middle of a request.
Crash(r) ==
    /\ pc[r] \notin {"new"} \union Ended
    /\ Goto(r, "crashed")
    /\ UNCHANGED <<world, lock, local>>

\* The lease runs out under its holder, who is gone or at work: a stop or a
\* delete may sleep for 60 seconds, WaitForPodGone and Watch take as long as
\* the request's timeout says, and any call may be slow.
Expire ==
    /\ lock.holder # Nobody /\ ~lock.stale
    /\ lock' = [lock EXCEPT !.stale = TRUE]
    /\ overran' = (overran \/ pc[lock.holder] \notin Ended)
    /\ UNCHANGED <<world, pc, local>>

UpStep(r) ==
    \/ ProvisionGate(r) \/ GatePod(r) \/ GateWait(r) \/ StartGate(r)
    \/ StoreThreat(r) \/ PreCheck(r) \/ PreCheckPod(r) \/ Observe(r) \/ Acquire(r)
    \/ Recheck(r) \/ Recycle(r) \/ WaitGone(r) \/ MintPAT(r) \/ InstallBegin(r)
    \/ InstallFinish(r) \/ RefreshPATSecret(r) \/ PodFromRelease(r) \/ CreatePod(r)
    \/ Watch(r) \/ Unlock(r)

DownStep(r) ==
    \/ StopFind(r) \/ DeleteFind(r) \/ TryAcquire(r) \/ Wake(r) \/ DeletePAT(r)
    \/ StopWorkspacePod(r) \/ Uninstall(r) \/ Purge(r) \/ Sweep(r)
    \/ ClearThreat(r) \/ Unlock(r)

Next ==
    \/ /\ \/ \E r \in Upward : UpStep(r)
          \/ \E r \in Downward : DownStep(r)
          \/ \E r \in Requests : Crash(r)
          \/ Cluster
       /\ UNCHANGED overran
    \/ Expire

Spec == Init /\ [][Next]_vars

-----------------------------------------------------------------------------
(* Properties.                                                             *)

\* The lock is to prevent concurrent operations on a workspace (README.md),
\* and does while no lease runs out under a request at work.  What it is for
\* is stated of such behaviours.

\* A running pod holds the token the identity service accepts, unless that
\* token was revoked: no interleaving of provisions, starts and deletes
\* rotates the token behind a pod's back.
TokenInSync == ~overran /\ pod.phase = "running" => pat \in {pod.tok, 0}

\* No pod outlives its release, except for the time its deletion takes: a
\* later delete would not find it.
NoOrphanPod == ~overran /\ pod.phase \in Live => Installed

\* A deployed release has its PAT Secret, so a stopped workspace can be
\* started again: neither an uninstall that stops half way nor the clean-up
\* of an earlier delete takes it from a release that looks deployed.
DeployedIsStartable == ~overran /\ release = "deployed" => secret # 0

\* Once a delete has removed the release, nothing newer is there until it has
\* swept the leftovers and cleared the detection entry: no release, no live
\* pod, and no other token than the one it revoked, unless it did not know the
\* user or its call to the identity service failed.
DeleteIsAlone ==
    \A d \in Deletes : ~overran /\ pc[d] \in {"sweep", "clear"} =>
        /\ ~Installed /\ pod.phase \notin Live
        /\ user[d] /\ d \notin unrevoked => pat = 0
=============================================================================
