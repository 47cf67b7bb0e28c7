------------------------------ MODULE Injection ------------------------------
(***************************************************************************)
(* Injection of workspaces into one existing workload: Inject and Eject of *)
(* internal/workspace/inject.go over helm/inject.go and helm/workload.go,  *)
(* the requests that call them (server/provision.go, server/lifecycle.go), *)
(* and the InjectionWatcher of server/watcher.go, one per replica, that    *)
(* cleans up behind a workload which lost its injection.  None of them     *)
(* takes the workspace lock.  A workspace is known by its canonical id.    *)
(* Of the resources it has in the workload's namespace a ConfigMap and the *)
(* Secret with its token stand for all.  Every API call is a step.         *)
(***************************************************************************)
EXTENDS Integers, Sequences

CONSTANTS
    Workspaces,
    Requests,
    Watchers,
    None,
    MaxRemovals   \* bound: removals that are not requests

ASSUME InjectionConstants ==
    /\ None \notin Workspaces
    /\ MaxRemovals \in Nat

VARIABLES
    calm,      \* fixed at the start: no call fails, nobody else writes to the
               \* workload, no replica restarts and no watch is interrupted
    workload,  \* the workload: is it there, whom is it injected with, its version
    history,   \* whom it was injected with so far, as its watches tell
    res,       \* the token each resource was written with, 0 if it is not there
    pat,       \* the valid token of each workspace, 0 if there is none
    minted,    \* tokens minted so far
    pods,      \* whom the workload's pods are injected with
    removals,  \* removals so far
    req,       \* the requests
    watch      \* the watchers

world == <<calm, workload, history, res, pat, minted, pods, removals>>
vars  == <<world, req, watch>>

Kinds     == {"config", "secret"}
Workspace == Workspaces \union {None}
InjectPC  == {"apply", "put", "read", "update"}
EjectPC   == {"revoke", "reread", "strip", "clean"}
PC        == {"idle", "done", "failed"} \union InjectPC \union EjectPC
Idle      == [pc |-> "idle", ws |-> None, tok |-> 0, kind |-> None, seen |-> 0, todo |-> {}]
Watching  == [at |-> 1, ws |-> None, todo |-> {}]

TypeOK ==
    /\ calm \in BOOLEAN
    /\ workload \in [exists : BOOLEAN, by : Workspace, rv : Nat]
    /\ history \in Seq(Workspace) /\ Len(history) > 0
    /\ res \in [Workspaces -> [Kinds -> 0..minted]]
    /\ pat \in [Workspaces -> 0..minted]
    /\ minted \in Nat /\ removals \in Nat
    /\ pods \in Workspace
    /\ req \in [Requests -> [pc : PC, ws : Workspace, tok : 0..minted,
                             kind : Kinds \union {None}, seen : Nat, todo : SUBSET Kinds]]
    /\ watch \in [Watchers -> [at : 1..Len(history), ws : Workspace, todo : SUBSET Kinds]]

Init ==
    /\ calm \in BOOLEAN
    /\ workload = [exists |-> TRUE, by |-> None, rv |-> 1]
    /\ history = <<None>>
    /\ res = [w \in Workspaces |-> [k \in Kinds |-> 0]]
    /\ pat = [w \in Workspaces |-> 0]
    /\ minted = 0 /\ removals = 0
    /\ pods = None
    /\ req = [r \in Requests |-> Idle]
    /\ watch = [i \in Watchers |-> Watching]

-----------------------------------------------------------------------------
(* Helpers.                                                                *)

Busy(r)        == req[r].pc \notin {"idle", "done", "failed"}
Goto(r, p)     == req' = [req EXCEPT ![r].pc = p]
Fail(r)        == Goto(r, "failed")
NothingChanges == UNCHANGED world

\* The workload is written; its watches are told.
WriteWorkload(exists, by) ==
    /\ workload' = [exists |-> exists, by |-> by, rv |-> workload.rv + 1]
    /\ history' = IF by = workload.by THEN history ELSE Append(history, by)

AnyVersion(r) == TRUE   \* mutant: the object is sent without its version

\* adapter.Update sends the object that was read, with its version.
SameVersion(r) == req[r].seen = workload.rv

-----------------------------------------------------------------------------
(* Inject: mint, apply the resources, update the workload.                 *)

\* The request finds the workload and mints a token, which revokes the
\* workspace's last one.
Mint(r) ==
    /\ req[r].pc = "idle"
    /\ \E w \in Workspaces :
        \/ /\ workload.exists
           /\ minted' = minted + 1
           /\ pat' = [pat EXCEPT ![w] = minted + 1]
           /\ req' = [req EXCEPT ![r] = [Idle EXCEPT
                        !.pc = "apply", !.ws = w, !.tok = minted + 1, !.todo = Kinds]]
           /\ UNCHANGED <<calm, workload, history, res, pods, removals>>
        \/ (~workload.exists \/ ~calm) /\ Fail(r) /\ NothingChanges
    /\ UNCHANGED watch

\* applyGenericResource: look whether the resource is there ...
ApplyGet(r) ==
    /\ req[r].pc = "apply"
    /\ \/ \E k \in req[r].todo :
             req' = [req EXCEPT ![r].pc = "put", ![r].kind = k, ![r].seen = res[req[r].ws][k]]
       \/ ~calm /\ Fail(r)
    /\ NothingChanges /\ UNCHANGED watch

\* ... then create it, or update the one that was found.  Whoever was faster
\* makes the request fail; what it has applied so far stays.
ApplyPut(r) ==
    /\ req[r].pc = "put"
    /\ LET w == req[r].ws
           k == req[r].kind IN
       \/ /\ res[w][k] = req[r].seen
          /\ res' = [res EXCEPT ![w][k] = req[r].tok]
          /\ req' = [req EXCEPT ![r].todo = @ \ {k},
                                ![r].pc = IF req[r].todo = {k} THEN "read" ELSE "apply"]
       \/ (res[w][k] # req[r].seen \/ ~calm) /\ Fail(r) /\ UNCHANGED res
    /\ UNCHANGED <<calm, workload, history, pat, minted, pods, removals, watch>>

\* Read the workload, which must not be injected with any workspace.
ReadWorkload(r) ==
    /\ req[r].pc = "read"
    /\ \/ /\ workload.exists /\ workload.by = None
          /\ req' = [req EXCEPT ![r].pc = "update", ![r].seen = workload.rv]
       \/ (~workload.exists \/ workload.by # None \/ ~calm) /\ Fail(r)
    /\ NothingChanges /\ UNCHANGED watch

\* Containers, volumes, labels and the annotation are written in one update.
\* The request then only watches the pods.
InjectIntoWorkload(r) ==
    /\ req[r].pc = "update"
    /\ \/ /\ workload.exists /\ SameVersion(r)
          /\ WriteWorkload(TRUE, req[r].ws)
          /\ Goto(r, "done")
       \/ /\ ~workload.exists \/ ~SameVersion(r) \/ ~calm
          /\ Fail(r) /\ UNCHANGED <<workload, history>>
    /\ UNCHANGED <<calm, res, pat, minted, pods, removals, watch>>

-----------------------------------------------------------------------------
(* Eject: revoke the token, strip the workload, delete the resources.      *)

\* EjectWorkspace takes the workspace from the workload's annotation,
\* DeleteWorkspace from the labels of its pod.
FindInjected(r) ==
    /\ req[r].pc = "idle"
    /\ \E w \in {workload.by, pods} \ {None} :
         /\ workload.exists
         /\ req' = [req EXCEPT ![r] = [Idle EXCEPT !.pc = "revoke", !.ws = w]]
    /\ NothingChanges /\ UNCHANGED watch

\* A failure to revoke the token is logged.
Revoke(r) ==
    /\ req[r].pc = "revoke"
    /\ \/ pat' = [pat EXCEPT ![req[r].ws] = 0]
       \/ ~calm /\ UNCHANGED pat
    /\ Goto(r, "reread")
    /\ UNCHANGED <<calm, workload, history, res, minted, pods, removals, watch>>

\* Eject reads the workload again; it must be injected with this workspace.
Reread(r) ==
    /\ req[r].pc = "reread"
    /\ \/ /\ workload.exists /\ workload.by = req[r].ws
          /\ req' = [req EXCEPT ![r].pc = "strip", ![r].seen = workload.rv]
       \/ (~workload.exists \/ workload.by # req[r].ws \/ ~calm) /\ Fail(r)
    /\ NothingChanges /\ UNCHANGED watch

EjectFromWorkload(r) ==
    /\ req[r].pc = "strip"
    /\ \/ /\ workload.exists /\ SameVersion(r)
          /\ WriteWorkload(TRUE, None)
          /\ req' = [req EXCEPT ![r].pc = "clean", ![r].todo = Kinds]
       \/ /\ ~workload.exists \/ ~SameVersion(r) \/ ~calm
          /\ Fail(r) /\ UNCHANGED <<workload, history>>
    /\ UNCHANGED <<calm, res, pat, minted, pods, removals, watch>>

\* The next collection to delete: ConfigMaps first.
NextKind(todo) == IF "config" \in todo THEN "config" ELSE "secret"

\* Delete whatever carries the workspace's label, whoever wrote it.
DeleteResources(r) ==
    /\ req[r].pc = "clean"
    /\ LET w == req[r].ws
           k == NextKind(req[r].todo) IN
       \/ /\ res' = [res EXCEPT ![w][k] = 0]
          /\ req' = [req EXCEPT ![r].todo = @ \ {k},
                                ![r].pc = IF req[r].todo = {k} THEN "done" ELSE "clean"]
       \/ ~calm /\ Fail(r) /\ UNCHANGED res
    /\ UNCHANGED <<calm, workload, history, pat, minted, pods, removals, watch>>

-----------------------------------------------------------------------------
(* InjectionWatcher.                                                       *)

\* UpdateFunc and DeleteFunc, for the change from what the watcher has seen
\* last to the n-th: clean up behind an injection that is gone.
Notice(i, n) ==
    LET old == history[watch[i].at]
    IN  IF old # None /\ history[n] # old
        THEN [at |-> n, ws |-> old, todo |-> Kinds]
        ELSE [at |-> n, ws |-> None, todo |-> {}]

NoticeNothing(i) ==   \* mutant: a removal is not cleaned up
    /\ watch[i].todo = {} /\ watch[i].at < Len(history)
    /\ watch' = [watch EXCEPT ![i] = [at |-> @.at + 1, ws |-> None, todo |-> {}]]
    /\ NothingChanges /\ UNCHANGED req

\* The changes come one after the other, each handled to its end.
WatchEvent(i) ==
    /\ watch[i].todo = {} /\ watch[i].at < Len(history)
    /\ watch' = [watch EXCEPT ![i] = Notice(i, @.at + 1)]
    /\ NothingChanges /\ UNCHANGED req

\* The informer lists anew after an interruption and sees the latest only.
Relist(i) ==
    /\ ~calm
    /\ watch[i].todo = {} /\ watch[i].at < Len(history)
    /\ watch' = [watch EXCEPT ![i] = Notice(i, Len(history))]
    /\ NothingChanges /\ UNCHANGED req

\* The replica starts anew: what is there is added, and has no handler.
Restart(i) ==
    /\ ~calm
    /\ watch' = [watch EXCEPT ![i] = [at |-> Len(history), ws |-> None, todo |-> {}]]
    /\ NothingChanges /\ UNCHANGED req

\* A failure is logged, and the rest is left.
Cleanup(i) ==
    /\ watch[i].todo # {}
    /\ LET k == NextKind(watch[i].todo) IN
       \/ /\ res' = [res EXCEPT ![watch[i].ws][k] = 0]
          /\ watch' = [watch EXCEPT ![i].todo = @ \ {k}]
       \/ ~calm /\ watch' = [watch EXCEPT ![i].todo = {}] /\ UNCHANGED res
    /\ UNCHANGED <<calm, workload, history, pat, minted, pods, removals, req>>

-----------------------------------------------------------------------------
(* The cluster and its users.                                              *)

\* The workload's controller replaces its pods.
Rollout ==
    /\ pods # workload.by
    /\ pods' = workload.by
    /\ UNCHANGED <<calm, workload, history, res, pat, minted, removals, req, watch>>

\* A user removes the injection by hand, or deletes the workload.
RemoveByHand ==
    /\ workload.exists /\ removals < MaxRemovals
    /\ \/ workload.by # None /\ WriteWorkload(TRUE, None)
       \/ WriteWorkload(FALSE, None)
    /\ removals' = removals + 1
    /\ UNCHANGED <<calm, res, pat, minted, pods, req, watch>>

\* Somebody else writes to the workload: its status, its scale.
Touch ==
    /\ ~calm /\ workload.exists /\ removals < MaxRemovals
    /\ WriteWorkload(TRUE, workload.by)
    /\ removals' = removals + 1
    /\ UNCHANGED <<calm, res, pat, minted, pods, req, watch>>

Begin(r) == Mint(r) \/ FindInjected(r)

Step(r) ==
    \/ ApplyGet(r) \/ ApplyPut(r) \/ ReadWorkload(r) \/ InjectIntoWorkload(r)
    \/ Revoke(r) \/ Reread(r) \/ EjectFromWorkload(r) \/ DeleteResources(r)

Watcher(i) == WatchEvent(i) \/ Cleanup(i)

Next ==
    \/ \E r \in Requests : Begin(r) \/ Step(r)
    \/ \E i \in Watchers : Watcher(i) \/ Relist(i) \/ Restart(i)
    \/ Rollout \/ RemoveByHand \/ Touch

Spec == Init /\ [][Next]_vars

\* A request runs to its end, and the informers deliver.
Fairness ==
    /\ \A r \in Requests : WF_vars(Step(r))
    /\ \A i \in Watchers : WF_vars(Watcher(i))

FairSpec == Spec /\ Fairness

-----------------------------------------------------------------------------
(* Properties.                                                             *)

\* "It fails if the workload is already injected with any workspace"
\* (InjectIntoWorkload), and EjectFromWorkload removes the workspace it was
\* called for: through any race of injections, ejections and other writers, a
\* workspace's injection is removed by an ejection of that workspace or by a
\* user, and never replaced.
OneInjection ==
    [][workload.by # None /\ workload'.by # workload.by =>
         /\ workload'.by = None
         /\ \/ removals' # removals
            \/ \E r \in Requests : req[r].pc = "strip" /\ req'[r].pc = "clean"
                                   /\ req[r].ws = workload.by]_vars

\* The watcher "cleans up workspace resources when a workload loses its
\* injection annotation (either updated away or deleted)": the resources that
\* a successful injection has written go once the workload has lost it, unless
\* the workspace is injected again, while no call fails and the watches are not
\* interrupted.
LeftoversGo ==
    \A r \in Requests :
        LET me   == req[r].ws
            Left == me # None /\ \E k \in Kinds : res[me][k] = req[r].tok
        IN  calm /\ req[r].pc = "done" /\ req[r].tok # 0 /\ workload.by # me /\ Left
                ~> ~Left \/ workload.by = me
=============================================================================
