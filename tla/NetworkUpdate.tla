---------------------------- MODULE NetworkUpdate ----------------------------
(***************************************************************************)
(* UpdateWorkspaceResources on one workspace: the resize of its container  *)
(* and the re-applied network policies of internal/workspace/update.go.    *)
(* An update changes the live objects and never the Helm release, so it    *)
(* meets the workspace's install, stop, start and uninstall.  All of them  *)
(* hold the workspace lock and run one at a time; every API call of the    *)
(* update is a step.  The web-proxy part of an update is in AliasClaims.   *)
(***************************************************************************)
EXTENDS Integers

CONSTANTS
    Classes,      \* network policy classes, "system" among them
    Egress,       \* egress rules
    Limits,       \* limits of the main container
    BlueClass, BlueEgress, BlueLimits,  \* what the blueprint declares
    None,
    MaxUpdates    \* bound

ASSUME NetworkConstants ==
    /\ "system" \in Classes
    /\ BlueClass \in Classes /\ BlueEgress \in Egress /\ BlueLimits \in Limits
    /\ None \notin Classes \union Egress \union Limits
    /\ MaxUpdates \in Nat

VARIABLES
    calm,       \* fixed at the start: no call fails, no replica or node dies
                \* and the pod is not stopped
    crd,        \* fixed at the start: the cluster has CiliumNetworkPolicies
    installed,  \* is there a Helm release?
    policy,     \* class and egress of the NetworkPolicy in force
    cilium,     \* is there the CiliumNetworkPolicy of class system?
    pod,        \* class label, egress annotation and limits of the pod
    updates,    \* updates begun
    pc,         \* where the update is
    ask,        \* what it asks for; None leaves a setting alone
    render,     \* class and egress it renders the policies with
    result      \* how the last update ended

objects == <<installed, policy, cilium, pod>>
cluster == <<calm, crd>>
vars    == <<cluster, objects, updates, pc, ask, render, result>>

Policy  == [class : Classes, egress : Egress]
Pod     == [class : Classes, egress : Egress, limits : Limits]
Ask     == [class : Classes \union {None}, egress : Egress \union {None},
            limits : Limits \union {None}]
BluePolicy == [class |-> BlueClass, egress |-> BlueEgress]
BluePod    == [class |-> BlueClass, egress |-> BlueEgress, limits |-> BlueLimits]
NoAsk      == [class |-> None, egress |-> None, limits |-> None]

ASSUME NoneIsNoObject == None \notin Policy \union Pod

TypeOK ==
    /\ calm \in BOOLEAN /\ crd \in BOOLEAN
    /\ installed \in BOOLEAN /\ cilium \in BOOLEAN
    /\ policy \in Policy \union {None}
    /\ pod \in Pod \union {None}
    /\ updates \in 0..MaxUpdates
    /\ pc \in {"idle", "resize", "class", "delete", "uncilium", "create", "cilium", "patch"}
    /\ ask \in Ask
    /\ render \in Policy
    /\ result \in {"none", "ok", "failed"}

Init ==
    /\ calm \in BOOLEAN /\ crd \in BOOLEAN
    /\ installed = FALSE /\ cilium = FALSE
    /\ policy = None /\ pod = None
    /\ updates = 0 /\ pc = "idle"
    /\ ask = NoAsk /\ render = BluePolicy
    /\ result = "none"

-----------------------------------------------------------------------------
(* The workspace's other operations, as far as the same objects go.        *)

\* helm install applies what the chart renders, the Cilium policy included.
Install ==
    /\ pc = "idle" /\ ~installed
    /\ installed' = TRUE
    /\ policy' = BluePolicy
    /\ cilium' = (cilium \/ (crd /\ BlueClass = "system"))
    /\ pod' = BluePod
    /\ result' = "none"
    /\ UNCHANGED <<cluster, updates, pc, ask, render>>

\* StopPod, or the pod is lost.
Stop ==
    /\ ~calm /\ pod # None
    /\ pod' = None
    /\ UNCHANGED <<cluster, installed, policy, cilium, updates, pc, ask, render, result>>

\* doStart creates the pod of the release manifest, and nothing else.
Start ==
    /\ pc = "idle" /\ installed /\ pod = None
    /\ pod' = BluePod
    /\ UNCHANGED <<cluster, installed, policy, cilium, updates, pc, ask, render, result>>

\* helm uninstall removes what carries its ownership metadata, which updates
\* stamp on the policies they create; the sweep by label, which may fail,
\* removes a Cilium policy the release never had.
Uninstall ==
    /\ pc = "idle" /\ installed
    /\ installed' = FALSE
    /\ policy' = None /\ pod' = None
    /\ cilium' = FALSE \/ (~calm /\ UNCHANGED cilium)
    /\ result' = "none"
    /\ UNCHANGED <<cluster, updates, pc, ask, render>>

-----------------------------------------------------------------------------
(* UpdateWorkspaceResources.                                               *)

Goto(p) == pc' = p
End(r)  == pc' = "idle" /\ result' = r

\* The call ends the update with an error.
Fails == ~calm /\ End("failed")

Begin ==
    /\ pc = "idle" /\ installed /\ updates < MaxUpdates
    /\ \E a \in Ask \ {NoAsk} :
         /\ ask' = a
         /\ Goto(IF a.limits # None THEN "resize" ELSE "class")
    /\ updates' = updates + 1
    /\ result' = "none"
    /\ UNCHANGED <<cluster, objects, render>>

\* resizeMainContainer: the limits that are not asked for stay.
Resize ==
    /\ pc = "resize"
    /\ \/ /\ pod # None
          /\ pod' = [pod EXCEPT !.limits = ask.limits]
          /\ IF ask.class = None /\ ask.egress = None
             THEN End("ok")
             ELSE Goto("class") /\ UNCHANGED result
       \/ (pod = None \/ ~calm) /\ End("failed") /\ UNCHANGED pod
    /\ UNCHANGED <<cluster, installed, policy, cilium, updates, ask, render>>

ClassOfBlueprint ==   \* mutant: an egress-only update falls back on the blueprint
    /\ pc = "class"
    /\ render' = [class  |-> IF ask.class # None THEN ask.class ELSE BlueClass,
                  egress |-> IF ask.egress # None THEN ask.egress ELSE BlueEgress]
    /\ Goto("delete")
    /\ UNCHANGED <<cluster, objects, updates, ask, result>>

\* The class to render: the one asked for, or that of the pod's label.  The
\* egress comes from the request or from the release's blueprint.
ReadClass ==
    /\ pc = "class"
    /\ \/ /\ ask.class # None \/ pod # None
          /\ render' = [class  |-> IF ask.class # None THEN ask.class ELSE pod.class,
                        egress |-> IF ask.egress # None THEN ask.egress ELSE BlueEgress]
          /\ Goto("delete")
          /\ UNCHANGED result
       \/ ask.class = None /\ (pod = None \/ ~calm) /\ End("failed") /\ UNCHANGED render
    /\ UNCHANGED <<cluster, objects, updates, ask>>

DeletePolicies ==
    /\ pc = "delete"
    /\ \/ policy' = None /\ Goto("uncilium") /\ UNCHANGED result
       \/ Fails /\ UNCHANGED policy
    /\ UNCHANGED <<cluster, installed, cilium, pod, updates, ask, render>>

\* A failure to delete the Cilium policies is taken for a missing CRD.
DeleteCilium ==
    /\ pc = "uncilium"
    /\ \/ cilium' = FALSE
       \/ ~calm /\ UNCHANGED cilium
    /\ Goto("create")
    /\ UNCHANGED <<cluster, installed, policy, pod, updates, ask, render, result>>

CreateUnchecked ==   \* mutant: a failed create goes unnoticed
    /\ pc = "create"
    /\ policy' = render \/ (~calm /\ UNCHANGED policy)
    /\ Goto(IF render.class = "system" THEN "cilium" ELSE "patch")
    /\ UNCHANGED <<cluster, installed, cilium, pod, updates, ask, render, result>>

\* Only class system has a Cilium policy to create as well.
CreatePolicy ==
    /\ pc = "create"
    /\ \/ /\ policy' = render
          /\ Goto(IF render.class = "system" THEN "cilium" ELSE "patch")
          /\ UNCHANGED result
       \/ Fails /\ UNCHANGED policy
    /\ UNCHANGED <<cluster, installed, cilium, pod, updates, ask, render>>

\* Created, or replaced when there is one.  Without the CRD the dynamic client
\* answers NotFound, which is not the NoMatch the code skips: the update ends
\* with an error although the NetworkPolicy is replaced.
CreateCilium ==
    /\ pc = "cilium"
    /\ \/ crd /\ cilium' = TRUE /\ Goto("patch") /\ UNCHANGED result
       \/ ~crd /\ End("failed") /\ UNCHANGED cilium
       \/ Fails /\ cilium' \in {cilium, FALSE}
    /\ UNCHANGED <<cluster, installed, policy, pod, updates, ask, render>>

\* Sync the pod's label and annotation with what was asked for.  A failure
\* is logged, and a missing pod ignored.
PatchPod ==
    /\ pc = "patch"
    /\ \/ pod # None /\ pod' = [pod EXCEPT
              !.class  = IF ask.class # None THEN ask.class ELSE @,
              !.egress = IF ask.egress # None THEN ask.egress ELSE @]
       \/ (pod = None \/ ~calm) /\ UNCHANGED pod
    /\ End("ok")
    /\ UNCHANGED <<cluster, installed, policy, cilium, updates, ask, render>>

Crash ==
    /\ ~calm /\ pc # "idle"
    /\ End("failed")
    /\ UNCHANGED <<cluster, objects, updates, ask, render>>

Update ==
    \/ Begin \/ Resize \/ ReadClass \/ DeletePolicies \/ DeleteCilium
    \/ CreatePolicy \/ CreateCilium \/ PatchPod

Next ==
    \/ Install \/ Stop \/ Start \/ Uninstall
    \/ Update \/ Crash

Spec == Init /\ [][Next]_vars

-----------------------------------------------------------------------------
(* Properties.                                                             *)

\* The Cilium policy is there exactly where class system needs it.
CiliumFits(class) == cilium = (class = "system")

\* The pod's k8shell.io/network-policy label, "the source of truth" of
\* reapplyNetworkPolicies, names the policies in force, whatever updates of
\* the class, of the egress and of both came before, while none of the calls
\* fails, the CRD is there and the pod is not replaced.
LabelIsTrue ==
    calm /\ crd /\ pc = "idle" /\ pod # None =>
        /\ policy # None
        /\ policy.class = pod.class
        /\ CiliumFits(pod.class)

\* An update of the network that reports success has put the policy it
\* rendered in force, whichever of its calls failed on the way.
SuccessIsApplied ==
    result = "ok" /\ (ask.class # None \/ ask.egress # None) =>
        /\ policy = render
        /\ ask.class # None => policy.class = ask.class
        /\ ask.egress # None => policy.egress = ask.egress
=============================================================================
