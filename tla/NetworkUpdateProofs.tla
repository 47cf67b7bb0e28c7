------------------------- MODULE NetworkUpdateProofs -------------------------
(***************************************************************************)
(* Proofs about NetworkUpdate for any classes, egress rules and limits and *)
(* any number of updates: an update that reports success is in force, and  *)
(* the label of the pod names the policies in force.                       *)
(***************************************************************************)
EXTENDS NetworkUpdate, TLAPS

\* What is rendered is what was asked for.
Rendered ==
    /\ ask.class # None => render.class = ask.class
    /\ ask.egress # None => render.egress = ask.egress

AsksNetwork == ask.class # None \/ ask.egress # None

Rendering == {"delete", "uncilium", "create", "cilium", "patch"}

(***************************************************************************)
(* What each step of an update may rely on, whichever calls fail and even  *)
(* when the pod is gone.                                                   *)
(***************************************************************************)
UpdateInv ==
    /\ pc = "resize" => ask.limits # None
    /\ pc # "idle" => installed /\ result # "ok"
    /\ pc \in Rendering => Rendered
    /\ pc \in {"cilium", "patch"} => policy = render
    /\ result = "ok" /\ AsksNetwork => policy = render /\ Rendered

(***************************************************************************)
(* Where the policies, the Cilium policy and the pod's label stand at each *)
(* step of an update none of whose calls fails: they may differ only from  *)
(* the first delete to the patch of the pod.                               *)
(***************************************************************************)
CalmInv ==
    calm /\ crd =>
      /\ installed <=> pod # None
      /\ ~installed => ~cilium
      /\ pc \in {"idle", "resize", "class", "delete"} /\ pod # None =>
           policy # None /\ policy.class = pod.class
      /\ pc \in {"idle", "resize", "class", "delete", "uncilium"} /\ pod # None =>
           CiliumFits(pod.class)
      /\ pc \in Rendering /\ ask.class = None => render.class = pod.class
      /\ pc = "create" => ~cilium
      /\ pc = "cilium" => render.class = "system"
      /\ pc = "patch" => CiliumFits(render.class)

Inv == TypeOK /\ UpdateInv /\ CalmInv

(***************************************************************************)
(* Types.  That a resize has limits to set is not a matter of types alone, *)
(* so the step takes UpdateInv as well.                                    *)
(***************************************************************************)

LEMMA BlueTypes == BluePolicy \in Policy /\ BluePod \in Pod /\ NoAsk \in Ask
  BY NetworkConstants DEF BluePolicy, BluePod, NoAsk, Policy, Pod, Ask

LEMMA TypeInit == Init => TypeOK
<1> SUFFICES ASSUME Init PROVE TypeOK
  OBVIOUS
<1>1. calm \in BOOLEAN /\ crd \in BOOLEAN /\ installed \in BOOLEAN /\ cilium \in BOOLEAN
  BY Zenon DEF Init
<1> QED
  BY <1>1, BlueTypes, NetworkConstants DEF Init, TypeOK

LEMMA TypeStep == TypeOK /\ UpdateInv /\ [Next]_vars => TypeOK'
<1> SUFFICES ASSUME TypeOK, UpdateInv, [Next]_vars PROVE TypeOK'
  OBVIOUS
<1> USE NetworkConstants DEF TypeOK, objects, cluster, Goto, End, Fails
<1>1. CASE Install
  <2>1. cilium' \in BOOLEAN
    BY <1>1, Zenon DEF Install
  <2> QED
    BY <1>1, <2>1, BlueTypes DEF Install
<1>2. CASE Stop \/ Start
  BY <1>2, BlueTypes DEF Stop, Start
<1>3. CASE Uninstall
  BY <1>3 DEF Uninstall
<1>4. CASE Begin
  BY <1>4 DEF Begin
<1>5. CASE Resize
  <2>1. ask.limits \in Limits
    BY <1>5 DEF Resize, UpdateInv, Ask
  <2>2. pod # None => [pod EXCEPT !.limits = ask.limits] \in Pod
    BY <2>1 DEF Pod
  <2> QED
    BY <1>5, <2>2 DEF Resize
<1>6. CASE ReadClass
  BY <1>6 DEF ReadClass, Policy, Pod, Ask
<1>7. CASE DeletePolicies \/ DeleteCilium \/ CreatePolicy \/ CreateCilium
  BY <1>7 DEF DeletePolicies, DeleteCilium, CreatePolicy, CreateCilium
<1>8. CASE PatchPod
  BY <1>8 DEF PatchPod, Pod, Ask
<1>9. CASE Crash
  BY <1>9 DEF Crash
<1>10. CASE UNCHANGED vars
  BY <1>10 DEF vars, cluster
<1> QED
  BY <1>1, <1>2, <1>3, <1>4, <1>5, <1>6, <1>7, <1>8, <1>9, <1>10 DEF Next, Update

(***************************************************************************)
(* The rendered policy.                                                    *)
(***************************************************************************)

LEMMA UpdateStep == TypeOK /\ UpdateInv /\ [Next]_vars => UpdateInv'
<1> SUFFICES ASSUME TypeOK, UpdateInv, [Next]_vars PROVE UpdateInv'
  OBVIOUS
<1> USE DEF UpdateInv, Rendered, AsksNetwork, Rendering, objects, cluster, Goto, End, Fails
<1>1. CASE Install \/ Stop \/ Start \/ Uninstall
  BY <1>1 DEF Install, Stop, Start, Uninstall
<1>2. CASE Begin
  BY <1>2 DEF Begin
<1>3. CASE Resize
  BY <1>3 DEF Resize
<1>4. CASE ReadClass
  BY <1>4 DEF ReadClass
<1>5. CASE DeletePolicies \/ DeleteCilium
  BY <1>5 DEF DeletePolicies, DeleteCilium
<1>6. CASE CreatePolicy \/ CreateCilium
  BY <1>6 DEF CreatePolicy, CreateCilium
<1>7. CASE PatchPod
  BY <1>7 DEF PatchPod
<1>8. CASE Crash
  BY <1>8 DEF Crash
<1>9. CASE UNCHANGED vars
  BY <1>9 DEF vars, cluster
<1> QED
  BY <1>1, <1>2, <1>3, <1>4, <1>5, <1>6, <1>7, <1>8, <1>9 DEF Next, Update

(***************************************************************************)
(* The label of the pod.                                                   *)
(***************************************************************************)

LEMMA CalmStep == Inv /\ [Next]_vars => CalmInv'
<1> SUFFICES ASSUME TypeOK, UpdateInv, CalmInv, [Next]_vars, calm, crd PROVE CalmInv'
  BY DEF Inv, CalmInv, Next, Update, Install, Stop, Start, Uninstall, Begin, Resize,
         ReadClass, DeletePolicies, DeleteCilium, CreatePolicy, CreateCilium, PatchPod,
         Crash, vars, cluster
<1> USE NetworkConstants, NoneIsNoObject
    DEF TypeOK, CalmInv, CiliumFits, Rendering, objects, cluster, Goto, End, Fails
<1>1. CASE Install
  BY <1>1, BlueTypes DEF Install, BluePolicy, BluePod
<1>2. CASE Stop \/ Start \/ Crash
  BY <1>2 DEF Stop, Start, Crash
<1>3. CASE Uninstall
  BY <1>3 DEF Uninstall
<1>4. CASE Begin
  BY <1>4 DEF Begin
<1>5. CASE Resize
  BY <1>5 DEF Resize, UpdateInv, Pod, Ask
<1>6. CASE ReadClass
  BY <1>6 DEF ReadClass, UpdateInv
<1>7. CASE DeletePolicies
  BY <1>7 DEF DeletePolicies, UpdateInv
<1>8. CASE DeleteCilium
  BY <1>8 DEF DeleteCilium, UpdateInv
<1>9. CASE CreatePolicy
  BY <1>9 DEF CreatePolicy, UpdateInv
<1>10. CASE CreateCilium
  BY <1>10 DEF CreateCilium, UpdateInv
<1>11. CASE PatchPod
  <2>1. pod # None /\ pod \in Pod /\ policy = render
    BY <1>11 DEF PatchPod, UpdateInv
  <2>2. pod'.class = render.class /\ pod' \in Pod
    BY <1>11, <2>1 DEF PatchPod, UpdateInv, Rendered, Pod, Ask
  <2> QED
    BY <1>11, <2>1, <2>2 DEF PatchPod, UpdateInv
<1>12. CASE UNCHANGED vars
  BY <1>12 DEF vars, cluster
<1> QED
  BY <1>1, <1>2, <1>3, <1>4, <1>5, <1>6, <1>7, <1>8, <1>9, <1>10, <1>11, <1>12
  DEF Next, Update

LEMMA InvInit == Init => Inv
  BY TypeInit DEF Init, Inv, UpdateInv, CalmInv, AsksNetwork, Rendering, CiliumFits

LEMMA InvAlways == Spec => []Inv
<1>1. Inv /\ [Next]_vars => Inv'
  BY TypeStep, UpdateStep, CalmStep DEF Inv
<1> QED
  BY <1>1, InvInit, PTL DEF Spec

\* UpdateWorkspaceResources never answers ok for a network setting that is
\* not in force, whichever of the calls fail and whatever the pod is doing.
THEOREM UpdatesTakeEffect == Spec => []SuccessIsApplied
<1>1. Inv => SuccessIsApplied
  BY DEF Inv, UpdateInv, Rendered, AsksNetwork, SuccessIsApplied
<1> QED
  BY <1>1, InvAlways, PTL

\* The pod label that reapplyNetworkPolicies reads the class from is right
\* after any sequence of updates none of whose calls fails, where the cluster
\* has the CRD and the pod is not replaced.
THEOREM LabelNamesPolicy == Spec => []LabelIsTrue
<1>1. Inv => LabelIsTrue
  BY DEF Inv, CalmInv, LabelIsTrue
<1> QED
  BY <1>1, InvAlways, PTL
=============================================================================
