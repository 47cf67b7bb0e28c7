--------------------------- MODULE InjectionProofs ---------------------------
(***************************************************************************)
(* Proofs about three components that work on a workload beside others,    *)
(* each with its own specification:                                        *)
(*                                                                         *)
(* Injection, for any workspaces, requests and watchers: the version that  *)
(* adapter.Update sends along is enough to keep a workload with one        *)
(* injection, and to have an ejection remove its own workspace;            *)
(*                                                                         *)
(* ProvisionStream, for any messages and milestones: the percentages of a  *)
(* stream only grow;                                                       *)
(*                                                                         *)
(* PodWatch, for any length of the pod's and the events' logs: nothing is  *)
(* lost between reading, listing and watching.                             *)
(***************************************************************************)
EXTENDS Injection, ProvisionStream, PodWatch, FiniteSetTheorems, TLAPS

\* A request that is under way knows its workspace.
HasWorkspace == \A r \in Requests : Busy(r) => req[r].ws \in Workspaces

(***************************************************************************)
(* The version a request has read is not ahead of the workload's, and      *)
(* while it is the workload's, what the request read of the annotation is  *)
(* still true.                                                             *)
(***************************************************************************)
StillTrue(r) ==
    /\ req[r].pc \in {"update", "strip"} => req[r].seen <= workload.rv
    /\ req[r].pc = "update" /\ SameVersion(r) => workload.by = None
    /\ req[r].pc = "strip" /\ SameVersion(r) => workload.by = req[r].ws

Versions == \A r \in Requests : StillTrue(r)

Inv == TypeOK /\ HasWorkspace /\ Versions

(***************************************************************************)
(* Types.  Only a request that knows its workspace finds a resource's      *)
(* token, so the steps take HasWorkspace as well.                          *)
(***************************************************************************)

LEMMA Inits == Init => Inv
<1> SUFFICES ASSUME Init PROVE Inv
  OBVIOUS
<1>1. TypeOK
  <2>1. history \in Seq(Workspace) /\ Len(history) = 1
    BY DEF Init, Workspace
  <2>2. calm \in BOOLEAN
    BY Zenon DEF Init
  <2> QED
    BY <2>1, <2>2 DEF Init, TypeOK, Idle, Watching, Workspace, PC, Kinds
<1> QED
  BY <1>1 DEF Init, Inv, HasWorkspace, Versions, StillTrue, Busy, Idle

\* What the steps of a request leave of the types of the others, and of the
\* watchers, when tokens are minted and the history grows.
LEMMA Grown ==
    ASSUME TypeOK, minted' \in Nat, minted <= minted',
           history' \in Seq(Workspace), Len(history) <= Len(history')
    PROVE  /\ req \in [Requests -> [pc : PC, ws : Workspace, tok : 0..minted',
                          kind : Kinds \union {None}, seen : Nat, todo : SUBSET Kinds]]
           /\ watch \in [Watchers -> [at : 1..Len(history'), ws : Workspace,
                                      todo : SUBSET Kinds]]
           /\ res \in [Workspaces -> [Kinds -> 0..minted']]
           /\ pat \in [Workspaces -> 0..minted']
           /\ Len(history') > 0
<1> USE DEF TypeOK
<1>1. 0..minted \subseteq 0..minted' /\ 1..Len(history) \subseteq 1..Len(history')
  OBVIOUS
<1>2. res \in [Workspaces -> [Kinds -> 0..minted']] /\ pat \in [Workspaces -> 0..minted']
  BY <1>1
<1> QED
  BY <1>1, <1>2

LEMMA ResourceSet ==
    ASSUME TypeOK, NEW w, NEW k, NEW t \in 0..minted
    PROVE  [res EXCEPT ![w][k] = t] \in [Workspaces -> [Kinds -> 0..minted]]
  BY DEF TypeOK

LEMMA Written ==
    ASSUME TypeOK, NEW exists \in BOOLEAN, NEW by \in Workspace,
           WriteWorkload(exists, by)
    PROVE  /\ workload' \in [exists : BOOLEAN, by : Workspace, rv : Nat]
           /\ workload'.rv = workload.rv + 1 /\ workload'.by = by
           /\ history' \in Seq(Workspace) /\ Len(history) <= Len(history')
  BY DEF TypeOK, WriteWorkload

Request(m) == [pc : PC, ws : Workspace, tok : 0..m, kind : Kinds \union {None},
               seen : Nat, todo : SUBSET Kinds]

\* Request r, and no other, goes to p for the same workspace.
Moves(r, p, new) ==
    /\ new \in [Requests -> Request(minted)]
    /\ \A q \in Requests \ {r} : new[q] = req[q]
    /\ new[r].ws = req[r].ws /\ new[r].pc = p

LEMMA Goes ==
    ASSUME TypeOK, NEW r \in Requests, NEW p \in PC
    PROVE  Moves(r, p, [req EXCEPT ![r].pc = p])
  BY DEF TypeOK, Request, Moves

LEMMA GoesSeeing ==
    ASSUME TypeOK, NEW r \in Requests, NEW p \in PC, NEW s \in Nat
    PROVE  /\ Moves(r, p, [req EXCEPT ![r].pc = p, ![r].seen = s])
           /\ [req EXCEPT ![r].pc = p, ![r].seen = s][r].seen = s
  BY DEF TypeOK, Request, Moves

LEMMA GoesPutting ==
    ASSUME TypeOK, NEW r \in Requests, NEW p \in PC, NEW s \in Nat, NEW k \in Kinds
    PROVE  Moves(r, p, [req EXCEPT ![r].pc = p, ![r].kind = k, ![r].seen = s])
<1>1. req \in [Requests -> Request(minted)] /\ req[r] \in Request(minted)
  BY DEF TypeOK, Request
<1> QED
  BY <1>1 DEF Request, Moves

LEMMA GoesWith ==
    ASSUME TypeOK, NEW r \in Requests, NEW p \in PC, NEW t \in SUBSET Kinds
    PROVE  /\ Moves(r, p, [req EXCEPT ![r].todo = t, ![r].pc = p])
           /\ Moves(r, p, [req EXCEPT ![r].pc = p, ![r].todo = t])
  BY DEF TypeOK, Request, Moves

\* A step of a request that is under way.  It has just read the workload when
\* it is about to update it.
LEMMA RequestStep ==
    ASSUME TypeOK, HasWorkspace, NEW r \in Requests, Step(r)
    PROVE  /\ Busy(r)
           /\ Moves(r, req'[r].pc, req')
           /\ req'[r].pc = "update" => req'[r].seen = workload.rv /\ workload.by = None
           /\ req'[r].pc = "strip" => req'[r].seen = workload.rv /\ workload.by = req[r].ws
           /\ req'[r].pc \in {"update", "strip"} => UNCHANGED workload
<1>1. {"failed", "put", "read", "apply", "update", "done", "reread", "strip", "clean"}
        \subseteq PC
  BY DEF PC, InjectPC, EjectPC
<1>2. /\ req[r].todo \in SUBSET Kinds /\ req[r].kind \in Kinds \union {None}
      /\ req[r].seen \in Nat /\ workload.rv \in Nat
  BY DEF TypeOK
<1>3. Busy(r)
  BY DEF Step, Busy, ApplyGet, ApplyPut, ReadWorkload, InjectIntoWorkload, Revoke, Reread,
         EjectFromWorkload, DeleteResources
<1>4. CASE req' = [req EXCEPT ![r].pc = "failed"]
  <2>1. Moves(r, "failed", req')
    BY <1>4, <1>1, Goes
  <2> QED
    BY <1>3, <2>1 DEF Moves
<1> USE <1>1, <1>2, <1>3 DEF Goto, Fail, NothingChanges, world
<1>5. CASE ApplyGet(r)
  <2>1. ASSUME NEW k \in req[r].todo,
               req' = [req EXCEPT ![r].pc = "put", ![r].kind = k,
                                  ![r].seen = res[req[r].ws][k]]
        PROVE  Moves(r, "put", req')
    <3>1. req[r].ws \in Workspaces /\ k \in Kinds
      BY DEF HasWorkspace
    <3>2. res[req[r].ws][k] \in Nat
      BY <3>1 DEF TypeOK
    <3> QED
      BY <2>1, <3>1, <3>2, GoesPutting
  <2> QED
    BY <1>4, <1>5, <2>1 DEF ApplyGet, Moves
<1>6. CASE ApplyPut(r)
  <2>1. ASSUME NEW p \in {"read", "apply"},
               req' = [req EXCEPT ![r].todo = @ \ {req[r].kind}, ![r].pc = p]
        PROVE  Moves(r, p, req')
    BY <2>1, GoesWith
  <2> QED
    BY <1>4, <1>6, <2>1 DEF ApplyPut, Moves
<1>7. CASE ReadWorkload(r)
  <2>1. ASSUME req' = [req EXCEPT ![r].pc = "update", ![r].seen = workload.rv]
        PROVE  Moves(r, "update", req') /\ req'[r].seen = workload.rv
    BY <2>1, GoesSeeing
  <2> QED
    BY <1>4, <1>7, <2>1 DEF ReadWorkload, Moves
<1>8. CASE InjectIntoWorkload(r)
  <2>1. ASSUME req' = [req EXCEPT ![r].pc = "done"]
        PROVE  Moves(r, "done", req')
    BY <2>1, Goes
  <2> QED
    BY <1>4, <1>8, <2>1 DEF InjectIntoWorkload, Moves
<1>9. CASE Revoke(r)
  BY <1>9, Goes DEF Revoke, Moves
<1>10. CASE Reread(r)
  <2>1. ASSUME req' = [req EXCEPT ![r].pc = "strip", ![r].seen = workload.rv]
        PROVE  Moves(r, "strip", req') /\ req'[r].seen = workload.rv
    BY <2>1, GoesSeeing
  <2> QED
    BY <1>4, <1>10, <2>1 DEF Reread, Moves
<1>11. CASE EjectFromWorkload(r)
  <2>1. ASSUME req' = [req EXCEPT ![r].pc = "clean", ![r].todo = Kinds]
        PROVE  Moves(r, "clean", req')
    BY <2>1, GoesWith
  <2> QED
    BY <1>4, <1>11, <2>1 DEF EjectFromWorkload, Moves
<1>12. CASE DeleteResources(r)
  <2>1. ASSUME NEW k, NEW p \in {"done", "clean"},
               req' = [req EXCEPT ![r].todo = @ \ {k}, ![r].pc = p]
        PROVE  Moves(r, p, req')
    BY <2>1, GoesWith
  <2> QED
    BY <1>4, <1>12, <2>1 DEF DeleteResources, Moves
<1> QED
  BY <1>5, <1>6, <1>7, <1>8, <1>9, <1>10, <1>11, <1>12 DEF Step

LEMMA TypeRequest ==
    ASSUME TypeOK, HasWorkspace, NEW r \in Requests, Step(r)
    PROVE  TypeOK' /\ HasWorkspace'
<1>1. req' \in [Requests -> Request(minted)]
  BY RequestStep DEF Moves
<1>2. HasWorkspace'
  <2> SUFFICES ASSUME NEW q \in Requests, Busy(q)' PROVE req'[q].ws \in Workspaces
    BY DEF HasWorkspace
  <2>1. req'[q].ws = req[q].ws /\ Busy(q)
    BY RequestStep DEF Moves, Busy
  <2> QED
    BY <2>1 DEF HasWorkspace
<1>3. CASE UNCHANGED <<calm, workload, history, pat, minted, pods, removals, watch>>
           /\ res' \in [Workspaces -> [Kinds -> 0..minted]]
  BY <1>1, <1>2, <1>3 DEF TypeOK, Request
<1>4. CASE ApplyGet(r) \/ ReadWorkload(r) \/ Reread(r)
  BY <1>3, <1>4 DEF ApplyGet, ReadWorkload, Reread, NothingChanges, world, TypeOK
<1>5. CASE ApplyPut(r) \/ DeleteResources(r)
  <2>2. /\ req[r].tok \in 0..minted /\ 0 \in 0..minted
        /\ res \in [Workspaces -> [Kinds -> 0..minted]]
    BY DEF TypeOK
  <2>3. res' \in [Workspaces -> [Kinds -> 0..minted]]
    <3>1. \/ res' = res
          \/ res' = [res EXCEPT ![req[r].ws][req[r].kind] = req[r].tok]
          \/ res' = [res EXCEPT ![req[r].ws][NextKind(req[r].todo)] = 0]
      BY <1>5 DEF ApplyPut, DeleteResources
    <3>2. /\ [res EXCEPT ![req[r].ws][req[r].kind] = req[r].tok]
               \in [Workspaces -> [Kinds -> 0..minted]]
          /\ [res EXCEPT ![req[r].ws][NextKind(req[r].todo)] = 0]
               \in [Workspaces -> [Kinds -> 0..minted]]
      BY <2>2, ResourceSet, Zenon
    <3> QED
      BY <2>2, <3>1, <3>2, Zenon
  <2> QED
    BY <1>3, <1>5, <2>3 DEF ApplyPut, DeleteResources
<1>6. CASE InjectIntoWorkload(r) \/ EjectFromWorkload(r)
  <2>1. req[r].ws \in Workspace /\ None \in Workspace
    BY DEF TypeOK, Workspace
  <2>2. /\ workload' \in [exists : BOOLEAN, by : Workspace, rv : Nat]
        /\ history' \in Seq(Workspace) /\ Len(history) <= Len(history')
    <3>1. CASE WriteWorkload(TRUE, req[r].ws) \/ WriteWorkload(TRUE, None)
      BY <2>1, <3>1, Written
    <3>2. CASE UNCHANGED <<workload, history>>
      BY <3>2 DEF TypeOK
    <3> QED
      BY <1>6, <3>1, <3>2 DEF InjectIntoWorkload, EjectFromWorkload
  <2>3. UNCHANGED <<calm, res, pat, minted, pods, removals, watch>>
    BY <1>6 DEF InjectIntoWorkload, EjectFromWorkload
  <2> QED
    BY <1>1, <1>2, <2>2, <2>3, Grown DEF TypeOK, Request
<1>7. CASE Revoke(r)
  <2>1. pat \in [Workspaces -> 0..minted] /\ minted \in Nat
    BY DEF TypeOK
  <2>2. pat' \in [Workspaces -> 0..minted]
    BY <1>7, <2>1 DEF Revoke
  <2> QED
    BY <1>1, <1>2, <1>7, <2>2 DEF Revoke, TypeOK, Request
<1> QED
  BY <1>4, <1>5, <1>6, <1>7 DEF Step

LEMMA TypeBegin ==
    ASSUME TypeOK, HasWorkspace, NEW r \in Requests, Begin(r)
    PROVE  TypeOK' /\ HasWorkspace'
<1>1. ASSUME NEW f \in Request(minted'), f.ws \in Workspaces, req' = [req EXCEPT ![r] = f],
             minted' \in {minted, minted + 1}, pat' \in [Workspaces -> 0..minted'],
             UNCHANGED <<calm, workload, history, res, pods, removals, watch>>
      PROVE  TypeOK' /\ HasWorkspace'
  <2>1. req' \in [Requests -> Request(minted')]
    BY <1>1, Grown DEF TypeOK, Request
  <2>2. TypeOK'
    BY <1>1, <2>1, Grown DEF TypeOK, Request
  <2>3. HasWorkspace'
    BY <1>1, <2>1 DEF HasWorkspace, Busy, TypeOK
  <2> QED
    BY <2>2, <2>3
<1>2. CASE FindInjected(r)
  <2>1. PICK w \in Workspaces : req' = [req EXCEPT ![r] = [Idle EXCEPT !.pc = "revoke", !.ws = w]]
    BY <1>2 DEF FindInjected, TypeOK, Workspace
  <2>2. [Idle EXCEPT !.pc = "revoke", !.ws = w] \in Request(minted)
    <3>1. minted \in Nat
      BY DEF TypeOK
    <3>2. Idle \in Request(minted)
      BY <3>1 DEF Idle, Request, PC, Workspace
    <3> QED
      BY <3>2 DEF Request, PC, EjectPC, Workspace
  <2>3. UNCHANGED <<world, watch>>
    BY <1>2 DEF FindInjected, NothingChanges
  <2>4. pat \in [Workspaces -> 0..minted]
    BY DEF TypeOK
  <2>5. [Idle EXCEPT !.pc = "revoke", !.ws = w].ws = w
    BY DEF Idle
  <2> QED
    BY <1>1, <2>1, <2>2, <2>3, <2>4, <2>5 DEF world
<1>3. CASE Mint(r)
  <2>1. CASE req' = [req EXCEPT ![r].pc = "failed"] /\ UNCHANGED <<world, watch>>
    <3>1. Moves(r, "failed", req')
      BY <2>1, Goes DEF PC
    <3> QED
      BY <2>1, <3>1 DEF Moves, TypeOK, HasWorkspace, Busy, Request, world
  <2>2. ASSUME NEW w \in Workspaces, minted' = minted + 1,
               pat' = [pat EXCEPT ![w] = minted + 1],
               req' = [req EXCEPT ![r] = [Idle EXCEPT
                        !.pc = "apply", !.ws = w, !.tok = minted + 1, !.todo = Kinds]],
               UNCHANGED <<calm, workload, history, res, pods, removals, watch>>
        PROVE  TypeOK' /\ HasWorkspace'
    <3>1. pat \in [Workspaces -> 0..minted] /\ minted \in Nat
      BY DEF TypeOK
    <3>2. [Idle EXCEPT !.pc = "apply", !.ws = w, !.tok = minted + 1, !.todo = Kinds]
            \in Request(minted + 1)
      <4>1. Idle \in Request(minted + 1)
        BY <3>1 DEF Idle, Request, PC, Workspace
      <4>2. "apply" \in PC /\ w \in Workspace /\ minted + 1 \in 0..(minted + 1)
        BY <3>1 DEF PC, InjectPC, Workspace
      <4> QED
        BY <4>1, <4>2 DEF Request
    <3>3. pat' \in [Workspaces -> 0..(minted + 1)]
      BY <2>2, <3>1
    <3>4. [Idle EXCEPT !.pc = "apply", !.ws = w, !.tok = minted + 1, !.todo = Kinds].ws = w
      BY DEF Idle
    <3> QED
      BY <1>1, <2>2, <3>1, <3>2, <3>3, <3>4
  <2> QED
    BY <1>3, <2>1, <2>2 DEF Mint, Fail, Goto, NothingChanges
<1> QED
  BY <1>2, <1>3 DEF Begin

LEMMA TypeRest ==
    ASSUME TypeOK, HasWorkspace,
           \/ \E i \in Watchers : Watcher(i) \/ Relist(i) \/ Restart(i)
           \/ Rollout \/ RemoveByHand \/ Touch \/ UNCHANGED vars
    PROVE  TypeOK' /\ HasWorkspace'
<1> DEFINE View == [at : 1..Len(history), ws : Workspace, todo : SUBSET Kinds]
<1>1. CASE UNCHANGED <<calm, workload, history, pat, minted, pods, removals, req>>
           /\ res' \in [Workspaces -> [Kinds -> 0..minted]]
           /\ watch' \in [Watchers -> View]
  BY <1>1 DEF TypeOK, HasWorkspace, Busy
<1>2. /\ res \in [Workspaces -> [Kinds -> 0..minted]] /\ watch \in [Watchers -> View]
      /\ None \in Workspace /\ Len(history) \in Nat /\ Len(history) > 0 /\ minted \in Nat
      /\ \A n \in 1..Len(history) : history[n] \in Workspace
  BY DEF TypeOK, Workspace
<1>3. ASSUME NEW i \in Watchers, WatchEvent(i) \/ Relist(i) \/ Restart(i)
      PROVE  TypeOK' /\ HasWorkspace'
  <2>1. PICK f \in View : watch' = [watch EXCEPT ![i] = f]
    <3>1. ASSUME NEW n \in 1..Len(history) PROVE Notice(i, n) \in View
      BY <1>2 DEF Notice
    <3>2. [at |-> Len(history), ws |-> None, todo |-> {}] \in View
      BY <1>2
    <3>3. watch[i].at \in 1..Len(history)
      BY <1>2
    <3>4. CASE WatchEvent(i)
      <4>1. watch[i].at + 1 \in 1..Len(history)
        BY <1>2, <3>3, <3>4 DEF WatchEvent
      <4>2. watch' = [watch EXCEPT ![i] = Notice(i, watch[i].at + 1)]
        BY <3>4 DEF WatchEvent
      <4> QED
        BY <3>1, <4>1, <4>2
    <3>5. CASE Relist(i)
      <4>1. watch' = [watch EXCEPT ![i] = Notice(i, Len(history))]
        BY <3>5 DEF Relist
      <4>2. Len(history) \in 1..Len(history)
        BY <1>2
      <4> QED
        BY <3>1, <4>1, <4>2
    <3>6. CASE Restart(i)
      BY <3>2, <3>6 DEF Restart
    <3> QED
      BY <1>3, <3>4, <3>5, <3>6
  <2>2. UNCHANGED <<world, req>>
    BY <1>3 DEF WatchEvent, Relist, Restart, NothingChanges
  <2> QED
    BY <1>1, <1>2, <2>1, <2>2 DEF world
<1>4. ASSUME NEW i \in Watchers, Cleanup(i)
      PROVE  TypeOK' /\ HasWorkspace'
  <2>1. res' \in [Workspaces -> [Kinds -> 0..minted]]
    <3>1. res' = res \/ res' = [res EXCEPT ![watch[i].ws][NextKind(watch[i].todo)] = 0]
      BY <1>4 DEF Cleanup
    <3>2. 0 \in 0..minted
      BY <1>2
    <3>3. [res EXCEPT ![watch[i].ws][NextKind(watch[i].todo)] = 0]
            \in [Workspaces -> [Kinds -> 0..minted]]
      BY <3>2, ResourceSet, Zenon
    <3> QED
      BY <1>2, <3>1, <3>3, Zenon
  <2>2. watch' \in [Watchers -> View]
    <3>1. \E t \in SUBSET Kinds : watch' = [watch EXCEPT ![i].todo = t]
      <4>1. watch[i].todo \ {NextKind(watch[i].todo)} \in SUBSET Kinds
        BY <1>2
      <4> QED
        BY <1>4, <4>1 DEF Cleanup
    <3> QED
      BY <1>2, <3>1
  <2> QED
    BY <1>1, <1>4, <2>1, <2>2 DEF Cleanup
<1>5. CASE Rollout
  BY <1>5 DEF Rollout, TypeOK, HasWorkspace, Busy
<1>6. CASE RemoveByHand \/ Touch
  <2>1. PICK b \in Workspace, e \in BOOLEAN : WriteWorkload(e, b)
    <3>1. workload.by \in Workspace /\ None \in Workspace
      BY DEF TypeOK, Workspace
    <3> QED
      BY <1>6, <3>1 DEF RemoveByHand, Touch
  <2>2. removals' \in Nat /\ UNCHANGED <<calm, res, pat, minted, pods, req, watch>>
    <3>1. removals \in Nat
      BY DEF TypeOK
    <3>2. /\ removals' = removals + 1
          /\ UNCHANGED <<calm, res, pat, minted, pods, req, watch>>
      BY <1>6, Zenon DEF RemoveByHand, Touch
    <3> QED
      BY <3>1, <3>2
  <2>3. /\ workload' \in [exists : BOOLEAN, by : Workspace, rv : Nat]
        /\ history' \in Seq(Workspace) /\ Len(history) <= Len(history')
    BY <2>1, Written, Zenon
  <2>4. TypeOK'
    BY <2>2, <2>3, Grown DEF TypeOK
  <2> QED
    BY <2>2, <2>4 DEF HasWorkspace, Busy
<1>7. CASE UNCHANGED vars
  BY <1>7 DEF vars, world, TypeOK, HasWorkspace, Busy
<1> QED
  BY <1>3, <1>4, <1>5, <1>6, <1>7 DEF Watcher

LEMMA TypeStep == TypeOK /\ HasWorkspace /\ [Next]_vars => TypeOK' /\ HasWorkspace'
  BY TypeBegin, TypeRequest, TypeRest DEF Next

(***************************************************************************)
(* Versions.                                                               *)
(***************************************************************************)

LEMMA Wrote ==
    ASSUME TypeOK, NEW e, NEW b, WriteWorkload(e, b)
    PROVE  workload'.rv = workload.rv + 1 /\ workload'.by = b
  BY DEF WriteWorkload

\* A write leaves no request with the workload's version.
LEMMA VersionKept ==
    ASSUME TypeOK, NEW q \in Requests, StillTrue(q), req'[q] = req[q],
           UNCHANGED workload \/ workload'.rv = workload.rv + 1
    PROVE  StillTrue(q)'
<1>1. req[q].seen \in Nat /\ workload.rv \in Nat
  BY DEF TypeOK
<1> QED
  BY <1>1 DEF StillTrue, SameVersion

LEMMA VersionsStep == Inv /\ [Next]_vars => Versions'
<1> SUFFICES ASSUME TypeOK, HasWorkspace, Versions, [Next]_vars, NEW q \in Requests
             PROVE  StillTrue(q)'
  BY DEF Inv, Versions
<1>1. StillTrue(q)
  BY DEF Versions
<1>2. ASSUME NEW r \in Requests, Step(r) PROVE StillTrue(q)'
  <2>1. UNCHANGED workload \/ workload'.rv = workload.rv + 1
    BY <1>2, Wrote
    DEF Step, ApplyGet, ApplyPut, ReadWorkload, InjectIntoWorkload, Revoke, Reread,
        EjectFromWorkload, DeleteResources, NothingChanges, world
  <2>2. CASE q # r
    <3>1. req'[q] = req[q]
      BY <1>2, <2>2, RequestStep DEF Moves
    <3> QED
      BY <1>1, <2>1, <3>1, VersionKept
  <2>3. CASE q = r
    <3>1. workload.rv \in Nat
      BY DEF TypeOK
    <3> QED
      BY <1>2, <2>3, <3>1, RequestStep DEF Moves, StillTrue, SameVersion
  <2> QED
    BY <2>2, <2>3
<1>3. ASSUME NEW r \in Requests, Begin(r) PROVE StillTrue(q)'
  <2>1. UNCHANGED workload
    BY <1>3 DEF Begin, Mint, FindInjected, NothingChanges, world
  <2>2. q # r => req'[q] = req[q]
    BY <1>3 DEF Begin, Mint, FindInjected, Fail, Goto, TypeOK
  <2>3. req'[r].pc \in {"apply", "revoke", "failed"}
    <3>1. DOMAIN req = Requests /\ [req EXCEPT ![r].pc = "failed"][r].pc = "failed"
      BY DEF TypeOK
    <3>2. ASSUME NEW w \in Workspaces, NEW t
          PROVE  [Idle EXCEPT !.pc = "apply", !.ws = w, !.tok = t, !.todo = Kinds].pc = "apply"
      BY DEF Idle
    <3>3. CASE Mint(r)
      <4>1. \/ req' = [req EXCEPT ![r].pc = "failed"]
            \/ \E w \in Workspaces : req' = [req EXCEPT ![r] = [Idle EXCEPT
                 !.pc = "apply", !.ws = w, !.tok = minted + 1, !.todo = Kinds]]
        BY <3>3, Zenon DEF Mint, Fail, Goto
      <4>2. ASSUME NEW f PROVE [req EXCEPT ![r] = f][r] = f
        BY <3>1
      <4>3. ASSUME NEW w \in Workspaces, req' = [req EXCEPT ![r] = [Idle EXCEPT
                     !.pc = "apply", !.ws = w, !.tok = minted + 1, !.todo = Kinds]]
            PROVE  req'[r].pc = "apply"
        <5>1. req'[r] = [Idle EXCEPT !.pc = "apply", !.ws = w, !.tok = minted + 1, !.todo = Kinds]
          BY <4>3, <4>2, Zenon
        <5> QED
          BY <5>1, <3>2, Zenon
      <4>4. req'[r].pc = "failed" \/ req'[r].pc = "apply"
        BY <3>1, <4>1, <4>3, Zenon
      <4> QED
        BY <4>4
    <3>4. CASE FindInjected(r)
      BY <3>1, <3>4 DEF FindInjected, Idle
    <3> QED
      BY <1>3, <3>3, <3>4 DEF Begin
  <2> QED
    BY <1>1, <2>1, <2>2, <2>3, VersionKept DEF StillTrue
<1>4. CASE Rollout \/ RemoveByHand \/ Touch \/ UNCHANGED vars
           \/ \E i \in Watchers : Watcher(i) \/ Relist(i) \/ Restart(i)
  <2>1. UNCHANGED workload \/ workload'.rv = workload.rv + 1
    BY <1>4, Wrote
    DEF Rollout, RemoveByHand, Touch, Watcher, WatchEvent, Cleanup, Relist, Restart,
        NothingChanges, world, vars
  <2>2. UNCHANGED req
    BY <1>4
    DEF Rollout, RemoveByHand, Touch, Watcher, WatchEvent, Cleanup, Relist, Restart, vars
  <2> QED
    BY <1>1, <2>1, <2>2, VersionKept
<1> QED
  BY <1>2, <1>3, <1>4 DEF Next

LEMMA InvAlways == Spec => []Inv
<1>1. Inv /\ [Next]_vars => Inv'
  BY TypeStep, VersionsStep DEF Inv
<1> QED
  BY <1>1, Inits, PTL DEF Spec

\* Every reachable state of the injections is well typed.
THEOREM TypeCorrect == Spec => []TypeOK
<1>1. Inv => TypeOK
  BY DEF Inv
<1> QED
  BY <1>1, InvAlways, PTL

\* However injections, ejections, users and other writers of the workload
\* race, no injection replaces another and an ejection removes the workspace
\* it was asked to.
THEOREM InjectionsExclude == Spec => OneInjection
<1>1. ASSUME Inv, [Next]_vars, workload.by # None, workload'.by # workload.by
      PROVE  /\ workload'.by = None
             /\ \/ removals' # removals
                \/ \E r \in Requests : req[r].pc = "strip" /\ req'[r].pc = "clean"
                                       /\ req[r].ws = workload.by
  <2>1. ASSUME NEW r \in Requests, InjectIntoWorkload(r) PROVE FALSE
    BY <1>1, <2>1 DEF InjectIntoWorkload, Inv, Versions, StillTrue
  <2>2. ASSUME NEW r \in Requests, EjectFromWorkload(r)
        PROVE  /\ workload'.by = None /\ req[r].pc = "strip" /\ req'[r].pc = "clean"
               /\ req[r].ws = workload.by
    <3>1. /\ WriteWorkload(TRUE, None) /\ SameVersion(r) /\ req[r].pc = "strip"
          /\ req' = [req EXCEPT ![r].pc = "clean", ![r].todo = Kinds]
      BY <1>1, <2>2 DEF EjectFromWorkload
    <3>2. req'[r].pc = "clean"
      BY <1>1, <3>1 DEF Inv, TypeOK
    <3> QED
      BY <1>1, <3>1, <3>2, Wrote DEF Inv, Versions, StillTrue
  <2>3. CASE RemoveByHand
    <3>1. removals \in Nat
      BY <1>1 DEF Inv, TypeOK
    <3>2. removals' = removals + 1 /\ (WriteWorkload(TRUE, None) \/ WriteWorkload(FALSE, None))
      BY <2>3, Zenon DEF RemoveByHand
    <3>3. TypeOK
      BY <1>1 DEF Inv
    <3>4. workload'.by = None
      BY <3>2, <3>3, Wrote, Zenon
    <3> QED
      BY <3>1, <3>2, <3>4
  <2>4. CASE Touch
    BY <1>1, <2>4, Wrote DEF Touch, Inv
  <2> QED
    BY <1>1, <2>1, <2>2, <2>3, <2>4
    DEF Next, Begin, Step, Mint, FindInjected, ApplyGet, ApplyPut, ReadWorkload, Revoke, Reread,
        DeleteResources, Rollout, Watcher, WatchEvent, Cleanup, Relist, Restart,
        NothingChanges, world, vars
<1> QED
  BY <1>1, InvAlways, PTL DEF Spec, OneInjection

-----------------------------------------------------------------------------
(* ProvisionStream                                                         *)

(***************************************************************************)
(* What a stream has reported once the largest percentage on it is p.      *)
(***************************************************************************)
Grows(s) ==
    \A i, j \in 1..Len(s) :
        i < j /\ s[i].type = "progress" /\ s[j].type = "progress" => s[i].what < s[j].what

Reported(s, p) ==
    /\ Grows(s)
    /\ \A i \in 1..Len(s) : s[i].type = "progress" => s[i].what <= p
    /\ p > 0 => \E i \in 1..Len(s) : s[i] = Progress(p)

StreamInv ==
    /\ StreamTypeOK
    /\ gpc = "emit" => pending \in Messages /\ emitted < MaxMessages
    /\ cpc = "returned" => gpc = "ended"
    /\ cpc # "returned" => Reported(out, progress)
    /\ ProgressGrows

LEMMA SentTypes ==
  /\ \A m \in Messages \union Finals : Status(m) \in Sent /\ Status(m).type = "status"
  /\ \A n \in 0..100 : /\ Progress(n) \in Sent
                       /\ Progress(n).type = "progress" /\ Progress(n).what = n
  /\ [type |-> "event", what |-> "Event"] \in Sent
  /\ [type |-> "event", what |-> "Event"].type # "progress"
  BY DEF Status, Progress, Sent, Messages

LEMMA ReportOther ==
  ASSUME NEW s \in Seq(Sent), NEW p, Reported(s, p), NEW e \in Sent, e.type # "progress"
  PROVE  Append(s, e) \in Seq(Sent) /\ Reported(Append(s, e), p)
<1> DEFINE t == Append(s, e)
<1>1. /\ t \in Seq(Sent) /\ Len(t) = Len(s) + 1 /\ Len(s) \in Nat
      /\ t[Len(s) + 1] = e /\ \A i \in 1..Len(s) : t[i] = s[i]
  OBVIOUS
<1> HIDE DEF t
<1>2. Grows(t)
  BY <1>1 DEF Grows, Reported
<1>3. \A i \in 1..Len(t) : t[i].type = "progress" => t[i].what <= p
  BY <1>1 DEF Reported
<1>4. p > 0 => \E i \in 1..Len(t) : t[i] = Progress(p)
  BY <1>1 DEF Reported
<1> QED
  BY <1>1, <1>2, <1>3, <1>4 DEF Reported, t

LEMMA ReportMore ==
  ASSUME NEW s \in Seq(Sent), NEW p \in 0..100, Reported(s, p), NEW q \in 0..100, q > p
  PROVE  Append(s, Progress(q)) \in Seq(Sent) /\ Reported(Append(s, Progress(q)), q)
<1> DEFINE t == Append(s, Progress(q))
<1>0. Progress(q) \in Sent /\ Progress(q).type = "progress" /\ Progress(q).what = q
  BY SentTypes, Zenon
<1>1. /\ t \in Seq(Sent) /\ Len(t) = Len(s) + 1 /\ Len(s) \in Nat
      /\ t[Len(s) + 1] = Progress(q) /\ \A i \in 1..Len(s) : t[i] = s[i]
  BY <1>0
<1> HIDE DEF t
<1>2. \A i \in 1..Len(s) : t[i].type = "progress" => t[i].what \in 0..100 /\ t[i].what <= p
  <2> SUFFICES ASSUME NEW i \in 1..Len(s), t[i].type = "progress"
               PROVE  t[i].what \in 0..100 /\ t[i].what <= p
    OBVIOUS
  <2>1. t[i] = s[i] /\ s[i] \in Sent
    BY <1>1
  <2> QED
    BY <2>1 DEF Reported, Sent
<1>3. Grows(t)
  <2> SUFFICES ASSUME NEW i \in 1..Len(t), NEW j \in 1..Len(t), i < j,
                      t[i].type = "progress", t[j].type = "progress"
               PROVE  t[i].what < t[j].what
    BY DEF Grows
  <2>1. CASE j = Len(s) + 1
    <3>1. t[j].what = q
      BY <2>1, <1>0, <1>1
    <3>2. i \in 1..Len(s)
      BY <2>1, <1>1
    <3>3. t[i].what \in 0..100 /\ t[i].what <= p
      BY <3>2, <1>2
    <3>4. PICK x \in 0..100 : x = t[i].what
      BY <3>3
    <3> QED
      BY <3>1, <3>3, <3>4
  <2>2. CASE j # Len(s) + 1
    BY <2>2, <1>1 DEF Reported, Grows
  <2> QED
    BY <2>1, <2>2
<1>4. \A i \in 1..Len(t) : t[i].type = "progress" => t[i].what <= q
  <2> SUFFICES ASSUME NEW i \in 1..Len(t), t[i].type = "progress"
               PROVE  t[i].what <= q
    OBVIOUS
  <2>1. CASE i = Len(s) + 1
    BY <2>1, <1>0, <1>1
  <2>2. CASE i # Len(s) + 1
    <3>1. i \in 1..Len(s)
      BY <2>2, <1>1
    <3>2. t[i].what \in 0..100 /\ t[i].what <= p
      BY <3>1, <1>2
    <3>3. PICK x \in 0..100 : x = t[i].what
      BY <3>2
    <3>4. x <= q
      BY <3>2, <3>3
    <3> QED
      BY <3>3, <3>4
  <2> QED
    BY <2>1, <2>2
<1>5. \E i \in 1..Len(t) : t[i] = Progress(q)
  BY <1>1
<1> QED
  BY <1>1, <1>3, <1>4, <1>5 DEF Reported, t

LEMMA ConcatOne ==
  ASSUME NEW s \in Seq(Sent), NEW e \in Sent
  PROVE  s \o <<e>> = Append(s, e) /\ s \o <<>> = s
  OBVIOUS

LEMMA NewPercType ==
  ASSUME StreamTypeOK, NEW m \in Messages
  PROVE  NewPerc(m) \in 0..100
<1>1. step \in 0..4 /\ Len(Milestones) = 4
  BY DEF StreamTypeOK, Milestones
<1>2. \A k \in 1..4 : Milestones[k] \in 0..100
  BY DEF Milestones
<1> QED
  BY <1>1, <1>2 DEF NewPerc

LEMMA ForwardStep ==
  ASSUME StreamInv, Forward
  PROVE  out' \in Seq(Sent) /\ progress' \in 0..100 /\ Reported(out', progress')
<1> DEFINE m   == Head(messages)
           a   == CASE m \in Statuses -> <<Status(m)>>
                    [] m = "Event" /\ SendEvents -> <<[type |-> "event", what |-> m]>>
                    [] OTHER -> <<>>
           s   == out \o a
           q   == NewPerc(m)
<1>1. m \in Messages /\ out \in Seq(Sent) /\ progress \in 0..100 /\ Reported(out, progress)
  BY DEF Forward, StreamInv, StreamTypeOK
<1>2. s \in Seq(Sent) /\ Reported(s, progress)
  <2>1. CASE m \in Statuses
    <3>1. Status(m) \in Sent /\ Status(m).type # "progress"
      BY <1>1, SentTypes
    <3>2. s = Append(out, Status(m))
      BY <2>1, <3>1, <1>1, ConcatOne DEF Statuses
    <3> QED
      BY <3>1, <3>2, <1>1, ReportOther
  <2>2. CASE m = "Event" /\ SendEvents
    <3> DEFINE e == [type |-> "event", what |-> "Event"]
    <3>1. e \in Sent /\ e.type # "progress"
      BY SentTypes
    <3>2. s = Append(out, e)
      BY <2>2, <3>1, <1>1, ConcatOne DEF Statuses
    <3> HIDE DEF e
    <3> QED
      BY <3>1, <3>2, <1>1, ReportOther
  <2>3. CASE m \notin Statuses /\ ~(m = "Event" /\ SendEvents)
    <3>1. s = out
      BY <2>3, <1>1
    <3> QED
      BY <3>1, <1>1
  <2> QED
    BY <2>1, <2>2, <2>3
<1>3. q \in 0..100
  BY <1>1, NewPercType DEF StreamInv
<1>4. out' = s \o ReportProgress(m)
  BY DEF Forward
<1>5. progress' = IF ReportProgress(m) = <<>> THEN progress ELSE q
  BY DEF Forward
<1> HIDE DEF s, q, m
<1>6. CASE SendProgress /\ m \in Statuses /\ q > progress
  <2>1. ReportProgress(m) = <<Progress(q)>> /\ ReportProgress(m) # <<>>
    BY <1>6 DEF ReportProgress, q
  <2>2. Progress(q) \in Sent
    BY <1>3, SentTypes
  <2>3. out' = Append(s, Progress(q)) /\ progress' = q
    BY <1>2, <1>4, <1>5, <2>1, <2>2, ConcatOne
  <2> QED
    BY <1>1, <1>2, <1>3, <1>6, <2>3, ReportMore
<1>7. CASE ~(SendProgress /\ m \in Statuses /\ q > progress)
  <2>1. ReportProgress(m) = <<>>
    BY <1>7 DEF ReportProgress, q
  <2>2. out' = s /\ progress' = progress
    BY <1>2, <1>4, <1>5, <2>1
  <2> QED
    BY <1>1, <1>2, <2>2
<1> QED
  BY <1>6, <1>7

\* The result: 100 is on the stream, now or before.
LEMMA DoneStep ==
  ASSUME StreamInv, Done
  PROVE  /\ out' \in Seq(Sent) /\ Grows(out')
         /\ SendProgress => \E i \in 1..Len(out') : out'[i] = Progress(100)
<1> DEFINE e == Status("Final")
           s == Append(out, e)
<1>1. out \in Seq(Sent) /\ progress \in 0..100 /\ Reported(out, progress)
  BY DEF Done, StreamInv, StreamTypeOK
<1>2. e \in Sent /\ e.type # "progress" /\ Progress(100) \in Sent
  BY SentTypes DEF Finals
<1>3. s \in Seq(Sent) /\ Reported(s, progress)
  BY <1>1, <1>2, ReportOther
<1>4. CASE SendProgress /\ progress < 100
  <2>1. out' = Append(s, Progress(100))
    BY <1>4, <1>1, <1>2 DEF Done, Finish
  <2>2. out' \in Seq(Sent) /\ Reported(out', 100)
    <3>1. 100 \in 0..100 /\ 100 > progress
      BY <1>1, <1>4
    <3> HIDE DEF s
    <3> QED
      BY <1>1, <1>3, <2>1, <3>1, ReportMore
  <2> QED
    BY <2>2 DEF Reported
<1>5. CASE ~(SendProgress /\ progress < 100)
  <2>1. out' = s
    BY <1>5, <1>1, <1>2 DEF Done, Finish
  <2> QED
    BY <1>1, <1>3, <1>5, <2>1 DEF Reported
<1> QED
  BY <1>4, <1>5

LEMMA FailedStep ==
  ASSUME StreamInv, Failed
  PROVE  out' \in Seq(Sent) /\ Grows(out') /\ out'[Len(out')] = Status("Error")
<1> DEFINE e == Status("Error")
<1>1. out \in Seq(Sent) /\ Reported(out, progress)
  BY DEF Failed, StreamInv, StreamTypeOK
<1>2. e \in Sent /\ e.type # "progress"
  BY SentTypes DEF Finals
<1>3. out' = Append(out, e)
  BY <1>1, <1>2 DEF Failed, Finish
<1>4. out' \in Seq(Sent) /\ Reported(out', progress)
  BY <1>1, <1>2, <1>3, ReportOther
<1> QED
  BY <1>1, <1>2, <1>3, <1>4 DEF Reported

LEMMA StreamTypeStep ==
  ASSUME StreamInv, [StreamNext]_streamVars
  PROVE  StreamTypeOK'
<1> USE StreamConstants DEF StreamTypeOK, handler, worker
<1>1. CASE CreateJob \/ Handshake \/ Cancelled
  BY <1>1 DEF CreateJob, Handshake, Cancelled, StreamInv
<1>2. CASE Forward
  <2>1. step' \in 0..Len(Milestones)
    BY <1>2 DEF Forward, StreamInv, Milestones
  <2>2. messages' \in Seq(Messages) /\ Len(messages') <= Cap
    BY <1>2 DEF Forward, StreamInv
  <2> QED
    BY <1>2, <2>1, <2>2, ForwardStep DEF Forward, StreamInv
<1>3. CASE Done
  BY <1>3, DoneStep DEF Done, Finish, StreamInv
<1>4. CASE Failed
  BY <1>4, FailedStep DEF Failed, Finish, StreamInv
<1>5. CASE BeginRun \/ Work
  BY <1>5 DEF BeginRun, Work, StreamInv
<1>6. CASE Emit
  <2>1. pending \in Messages /\ emitted + 1 \in 0..MaxMessages
    BY <1>6 DEF Emit, StreamInv
  <2> QED
    BY <1>6, <2>1 DEF Emit, StreamInv
<1>7. CASE ClientLeaves
  BY <1>7 DEF ClientLeaves, StreamInv
<1>8. CASE UNCHANGED streamVars
  BY <1>8 DEF streamVars, StreamInv
<1> QED
  BY <1>1, <1>2, <1>3, <1>4, <1>5, <1>6, <1>7, <1>8 DEF StreamNext, Handler, Goroutine

LEMMA StreamStep == StreamInv /\ [StreamNext]_streamVars => StreamInv'
<1> SUFFICES ASSUME StreamInv, [StreamNext]_streamVars PROVE StreamInv'
  OBVIOUS
<1>1. StreamTypeOK'
  BY StreamTypeStep
<1>a. (gpc = "emit" => pending \in Messages /\ emitted < MaxMessages)'
  BY StreamConstants DEF StreamInv, StreamTypeOK, StreamNext, Handler, Goroutine, CreateJob, Handshake,
     Forward, Done, Failed, Finish, Cancelled, BeginRun, Work, Emit, ClientLeaves, handler,
     worker, streamVars
<1>b. (cpc = "returned" => gpc = "ended")'
  BY DEF StreamInv, StreamTypeOK, StreamNext, Handler, Goroutine, CreateJob, Handshake,
     Forward, Done, Failed, Finish, Cancelled, BeginRun, Work, Emit, ClientLeaves, handler,
     worker, streamVars
<1>2. CASE Forward
  <2>1. cpc' = "loop" /\ Reported(out', progress')
    BY <1>2, ForwardStep DEF Forward
  <2> QED
    BY <1>1, <1>a, <1>b, <2>1 DEF StreamInv, ProgressGrows, Reported, Grows
<1>3. CASE Done
  BY <1>1, <1>a, <1>b, <1>3, DoneStep DEF Done, Finish, StreamInv, ProgressGrows, Grows
<1>4. CASE Failed
  BY <1>1, <1>a, <1>b, <1>4, FailedStep DEF Failed, Finish, StreamInv, ProgressGrows, Grows
<1>5. CASE UNCHANGED <<out, progress>> /\ (cpc' = "returned" <=> cpc = "returned")
  BY <1>1, <1>a, <1>b, <1>5 DEF StreamInv, ProgressGrows, Reported, Grows
<1>6. CASE CreateJob \/ Handshake \/ Cancelled \/ Goroutine \/ ClientLeaves \/ UNCHANGED streamVars
  <2>1. UNCHANGED <<out, progress>> /\ (cpc' = "returned" <=> cpc = "returned")
    BY <1>6 DEF CreateJob, Handshake, Cancelled, Goroutine, BeginRun, Work, Emit, ClientLeaves,
                streamVars, handler, StreamInv, StreamTypeOK
  <2> QED
    BY <1>5, <2>1
<1> QED
  BY <1>2, <1>3, <1>4, <1>6 DEF StreamNext, Handler

LEMMA StreamAlways == StreamSpec => []StreamInv
<1>1. StreamInit => StreamInv
  BY StreamConstants
  DEF StreamInit, StreamInv, StreamTypeOK, ProgressGrows, Reported, Grows, Milestones, Messages
<1> QED
  BY <1>1, StreamStep, PTL DEF StreamSpec

\* The handler and the goroutine of one stream keep their types, and the
\* channel its capacity.
THEOREM StreamTypes == StreamSpec => []StreamTypeOK
<1>1. StreamInv => StreamTypeOK
  BY DEF StreamInv
<1> QED
  BY <1>1, StreamAlways, PTL

\* runWorkspaceStream never sends a percentage that is not larger than all it
\* has sent before, and sends 100 before it ends with success, whatever the
\* operation reports in whatever order and however much of it is lost when
\* the outcome overtakes the messages.
THEOREM StreamProgresses == StreamSpec => []ProgressGrows
<1>1. StreamInv => ProgressGrows
  BY DEF StreamInv
<1> QED
  BY <1>1, StreamAlways, PTL


-----------------------------------------------------------------------------
(* PodWatch                                                                *)

(***************************************************************************)
(* The orders in which a loop over the map of events may meet them.        *)
(***************************************************************************)

LEMMA OrdersOf ==
  ASSUME NEW n \in Nat, NEW evs
  PROVE  evs \in Orders(1..n) <=>
           \E s \in SetToSeqs(1..n) : evs = [i \in 1..n |-> events[s[i]]]
<1>1. Cardinality(1..n) = n
  BY FS_Interval
<1> QED
  BY <1>1 DEF Orders

LEMMA SeqsOf ==
  ASSUME NEW n \in Nat, NEW s
  PROVE  s \in SetToSeqs(1..n) <=>
           s \in [1..n -> 1..n] /\ \A i, j \in 1..n : i # j => s[i] # s[j]
<1>1. Cardinality(1..n) = n
  BY FS_Interval
<1> QED
  BY <1>1 DEF SetToSeqs

\* Recording another event leaves the orders of the earlier ones alone.
LEMMA OrdersStable ==
  ASSUME NEW n \in Nat, \A i \in 1..n : events'[i] = events[i], NEW evs \in Orders(1..n)
  PROVE  evs \in Orders(1..n)'
<1>1. PICK s \in SetToSeqs(1..n) : evs = [i \in 1..n |-> events[s[i]]]
  BY OrdersOf
<1>2. evs = [i \in 1..n |-> events'[s[i]]]
  BY <1>1, SeqsOf
<1>3. (Cardinality(1..n) = n)'
  BY FS_Interval
<1> QED
  BY <1>1, <1>2, <1>3 DEF Orders

LEMMA InOrderOfRecording ==
  ASSUME NEW T, events \in Seq(T)
  PROVE  events \in Orders(1..Len(events))
<1> DEFINE s == [i \in 1..Len(events) |-> i]
<1>2. events = [i \in 1..Len(events) |-> events[s[i]]]
  OBVIOUS
<1>3. /\ s \in [1..Len(events) -> 1..Len(events)] /\ Len(events) \in Nat
      /\ \A i, j \in 1..Len(events) : i # j => s[i] # s[j]
  OBVIOUS
<1> HIDE DEF s
<1>1. s \in SetToSeqs(1..Len(events))
  BY <1>3, SeqsOf
<1> QED
  BY <1>1, <1>2, OrdersOf

LEMMA NothingListed == <<>> \in Orders({})
<1>1. {} = 1..0 /\ Cardinality({}) = 0
  BY FS_EmptySet
<1> DEFINE s == [i \in 1..0 |-> i]
<1>2. <<>> = [i \in 1..0 |-> events[s[i]]]
  OBVIOUS
<1>3. s \in [1..0 -> 1..0] /\ \A i, j \in 1..0 : i # j => s[i] # s[j]
  OBVIOUS
<1> HIDE DEF s
<1>5. s \in SetToSeqs(1..0)
  BY <1>3, SeqsOf
<1>4. <<>> \in Orders(1..0)
  BY <1>2, <1>5, OrdersOf
<1> QED
  BY <1>1, <1>4

\* Every event is somewhere in every order.
LEMMA OrderIsOnto ==
  ASSUME NEW n \in Nat, NEW s \in SetToSeqs(1..n), NEW k \in 1..n
  PROVE  \E i \in 1..n : s[i] = k
<1>1. s \in Injection(1..n, 1..n)
  BY SeqsOf DEF Injection, IsInjective
<1>2. IsFiniteSet(1..n)
  BY FS_Interval
<1>3. s \in Surjection(1..n, 1..n)
  BY <1>1, <1>2, FS_Injection
<1> QED
  BY <1>3 DEF Surjection

(***************************************************************************)
(* The two logs of the cluster.  Events are recorded in the order of their *)
(* timestamps, and a finished pull has recorded the last pull event.       *)
(***************************************************************************)
PullReasons == {"Pulling", "Pulled"}

GoodPod(p) == p = NoPod \/ (p \in Pods(Nat) /\ (p.main # <<>> => p.node))

PodLog ==
    /\ versions \in Seq(Pods(Nat) \union {NoPod})
    /\ Len(versions) > 0
    /\ \A i \in 1..Len(versions) : GoodPod(versions[i])

EventLog ==
    /\ now \in 0..MaxTime
    /\ pull \in {"no", "active", "done"}
    /\ events \in Seq([reason : Reasons, path : {"main"}, time : Nat])
    /\ \A i \in 1..Len(events) : events[i].time <= now
    /\ \A i, j \in 1..Len(events) : i < j => events[i].time <= events[j].time
    /\ pull = "done" => \E k \in 1..Len(events) :
           /\ events[k].reason = "Pulled"
           /\ \A j \in 1..Len(events) : j > k => events[j].reason \notin PullReasons

\* A later state has the logs of an earlier one as a prefix.
Extends ==
    /\ Len(versions) <= Len(versions') /\ Len(events) <= Len(events')
    /\ \A i \in 1..Len(versions) : versions'[i] = versions[i]
    /\ \A i \in 1..Len(events) : events'[i] = events[i]

LEMMA PodIsGood == PodLog => GoodPod(Pod) /\ Pod = versions[Len(versions)]
  BY DEF PodLog, Pod, Last

LEMMA SetPodKeeps ==
  ASSUME PodLog, NEW p, GoodPod(p), SetPod(p)
  PROVE  /\ PodLog' /\ Len(versions) <= Len(versions')
         /\ \A i \in 1..Len(versions) : versions'[i] = versions[i]
<1>1. p \in Pods(Nat) \union {NoPod}
  BY DEF GoodPod
<1>2. /\ versions' \in Seq(Pods(Nat) \union {NoPod}) /\ Len(versions') = Len(versions) + 1
      /\ versions'[Len(versions) + 1] = p
      /\ \A i \in 1..Len(versions) : versions'[i] = versions[i]
  BY <1>1 DEF PodLog, SetPod
<1>3. ASSUME NEW i \in 1..Len(versions') PROVE GoodPod(versions'[i])
  <2>1. CASE i = Len(versions) + 1
    BY <2>1, <1>2
  <2>2. CASE i # Len(versions) + 1
    BY <2>2, <1>2 DEF PodLog
  <2> QED
    BY <2>1, <2>2
<1> QED
  BY <1>2, <1>3 DEF PodLog, GoodPod

LEMMA RecordKeeps ==
  ASSUME EventLog, NEW r \in Reasons, Record(r), now' = now,
         pull' \in {"no", "active", "done"},
         pull' = "done" => r = "Pulled" \/ (pull = "done" /\ r \notin PullReasons)
  PROVE  /\ EventLog' /\ Len(events) <= Len(events')
         /\ \A i \in 1..Len(events) : events'[i] = events[i]
<1> DEFINE E == [reason : Reasons, path : {"main"}, time : Nat]
           e == [reason |-> r, path |-> "main", time |-> now]
<1>1. e \in E /\ e.time = now /\ e.reason = r /\ now \in Nat
  BY DEF EventLog
<1>2. events' = Append(events, e) /\ events \in Seq(E)
  BY DEF Record, EventLog
<1> HIDE DEF e, E
<1>3. /\ events' \in Seq(E) /\ Len(events') = Len(events) + 1 /\ Len(events) \in Nat
      /\ events'[Len(events) + 1] = e
      /\ \A i \in 1..Len(events) : events'[i] = events[i]
  BY <1>1, <1>2
<1>4. \A i \in 1..Len(events) : events[i].time \in Nat /\ events[i].time <= now
  <2> SUFFICES ASSUME NEW i \in 1..Len(events)
               PROVE  events[i].time \in Nat /\ events[i].time <= now
    OBVIOUS
  <2>1. events[i] \in E
    BY <1>2
  <2> QED
    BY <2>1 DEF EventLog, E
<1>5. \A i \in 1..Len(events') : events'[i].time <= now'
  <2> SUFFICES ASSUME NEW i \in 1..Len(events') PROVE events'[i].time <= now
    OBVIOUS
  <2>1. CASE i = Len(events) + 1
    BY <2>1, <1>1, <1>3
  <2>2. CASE i # Len(events) + 1
    BY <2>2, <1>3, <1>4
  <2> QED
    BY <2>1, <2>2
<1>6. \A i, j \in 1..Len(events') : i < j => events'[i].time <= events'[j].time
  <2> SUFFICES ASSUME NEW i \in 1..Len(events'), NEW j \in 1..Len(events'), i < j
               PROVE  events'[i].time <= events'[j].time
    OBVIOUS
  <2>1. i \in 1..Len(events) /\ events'[i] = events[i]
    BY <1>3
  <2>2. CASE j = Len(events) + 1
    <3>1. events'[j].time = now
      BY <2>2, <1>1, <1>3
    <3>2. events[i].time <= now
      BY <2>1, <1>4
    <3> QED
      BY <2>1, <3>1, <3>2
  <2>3. CASE j # Len(events) + 1
    <3>1. j \in 1..Len(events) /\ events'[j] = events[j]
      BY <2>3, <1>3
    <3> QED
      BY <2>1, <3>1 DEF EventLog
  <2> QED
    BY <2>2, <2>3
<1>7. pull' = "done" => \E k \in 1..Len(events') :
           /\ events'[k].reason = "Pulled"
           /\ \A j \in 1..Len(events') : j > k => events'[j].reason \notin PullReasons
  <2>1. CASE r = "Pulled"
    BY <2>1, <1>1, <1>3
  <2>2. CASE pull = "done" /\ r \notin PullReasons
    <3>1. PICK k \in 1..Len(events) :
             /\ events[k].reason = "Pulled"
             /\ \A j \in 1..Len(events) : j > k => events[j].reason \notin PullReasons
      BY <2>2 DEF EventLog
    <3>2. k \in 1..Len(events') /\ events'[k].reason = "Pulled"
      BY <3>1, <1>3
    <3>3. ASSUME NEW j \in 1..Len(events'), j > k PROVE events'[j].reason \notin PullReasons
      <4>1. CASE j = Len(events) + 1
        BY <4>1, <2>2, <1>1, <1>3
      <4>2. CASE j # Len(events) + 1
        <5>1. j \in 1..Len(events) /\ events'[j] = events[j]
          BY <4>2, <1>3
        <5> QED
          BY <5>1, <3>1, <3>3
      <4> QED
        BY <4>1, <4>2
    <3> QED
      BY <3>2, <3>3
  <2> QED
    BY <2>1, <2>2
<1> QED
  BY <1>3, <1>5, <1>6, <1>7 DEF EventLog, E

\* A clock that goes on, and what leaves the events alone.
LEMMA QuietKeeps ==
  ASSUME EventLog, UNCHANGED events, now' \in {now, now + 1}, now' \in 0..MaxTime,
         pull' \in {pull, "no"}
  PROVE  EventLog'
<1>1. \A i \in 1..Len(events) : events[i].time \in Nat
  <2> SUFFICES ASSUME NEW i \in 1..Len(events) PROVE events[i].time \in Nat
    OBVIOUS
  <2> DEFINE E == [reason : Reasons, path : {"main"}, time : Nat]
  <2>1. events \in Seq(E)
    BY DEF EventLog
  <2> HIDE DEF E
  <2>2. events[i] \in E
    BY <2>1
  <2> QED
    BY <2>2 DEF E
<1>2. \A i \in 1..Len(events) : events[i].time <= now'
  BY <1>1 DEF EventLog
<1> QED
  BY <1>2 DEF EventLog

LEMMA ClusterStep ==
  ASSUME PodLog, EventLog, Cluster
  PROVE  PodLog' /\ EventLog' /\ Extends
<1>g. GoodPod(Pod) /\ (Pod # NoPod => Pod \in Pods(Nat))
  BY PodIsGood DEF GoodPod
<1>u. UNCHANGED versions =>
        /\ PodLog' /\ Len(versions) <= Len(versions')
        /\ \A i \in 1..Len(versions) : versions'[i] = versions[i]
  BY DEF PodLog, GoodPod
<1>v. UNCHANGED events =>
        /\ Len(events) <= Len(events')
        /\ \A i \in 1..Len(events) : events'[i] = events[i]
  BY DEF EventLog
<1>q. UNCHANGED <<now, events, pull>> => EventLog'
  BY QuietKeeps DEF EventLog
<1>1. CASE Schedule
  <2> DEFINE p == [Pod EXCEPT !.node = TRUE, !.main = <<"waiting">>,
                              !.init = IF HasInit THEN <<"waiting">> ELSE <<>>]
  <2>1. GoodPod(p)
    <3>1. Pod \in Pods(Nat)
      BY <1>1, <1>g DEF Schedule, Up
    <3>2. <<"waiting">> \in Seq(ContainerStates) /\ <<>> \in Seq(ContainerStates)
      BY DEF ContainerStates
    <3>3. p \in Pods(Nat) /\ p.node = TRUE
      BY <3>1, <3>2 DEF Pods
    <3> QED
      BY <3>3 DEF GoodPod
  <2>2. SetPod(p) /\ UNCHANGED <<now, events, pull>>
    BY <1>1 DEF Schedule
  <2> HIDE DEF p
  <2> QED
    BY <2>1, <2>2, <1>v, <1>q, SetPodKeeps DEF Extends
<1>2. CASE PullImage
  <2>1. UNCHANGED now /\ Up /\ Pod.node
    BY <1>2 DEF PullImage
  <2>2. CASE pull = "no" /\ pull' = "active" /\ Record("Pulling") /\ UNCHANGED versions
    BY <2>1, <2>2, <1>u, RecordKeeps DEF Extends, Reasons
  <2>3. CASE pull = "active" /\ pull' = "done" /\ Record("Pulled") /\ UNCHANGED versions
    BY <2>1, <2>3, <1>u, RecordKeeps DEF Extends, Reasons
  <2>4. CASE /\ pull = "active" /\ pull' = "no" /\ Record("ImageError")
             /\ SetPod([Pod EXCEPT !.main = <<"hard">>])
    <3> DEFINE p == [Pod EXCEPT !.main = <<"hard">>]
    <3>1. GoodPod(p)
      <4>1. Pod \in Pods(Nat) /\ Pod.node
        BY <2>1, <1>g DEF Up
      <4>2. <<"hard">> \in Seq(ContainerStates)
        BY DEF ContainerStates
      <4>3. p \in Pods(Nat) /\ p.node
        BY <4>1, <4>2 DEF Pods
      <4> QED
        BY <4>3 DEF GoodPod
    <3>2. SetPod(p)
      BY <2>4
    <3> HIDE DEF p
    <3> QED
      BY <2>1, <2>4, <3>1, <3>2, SetPodKeeps, RecordKeeps DEF Extends, Reasons
  <2> QED
    BY <1>2, <2>2, <2>3, <2>4 DEF PullImage
<1>3. CASE RunInit
  <2>1. PICK c \in {"running", "completed", "exited"} : SetPod([Pod EXCEPT !.init = <<c>>])
    BY <1>3 DEF RunInit
  <2> DEFINE p == [Pod EXCEPT !.init = <<c>>]
  <2>2. GoodPod(p)
    <3>1. Pod \in Pods(Nat) /\ (Pod.main # <<>> => Pod.node)
      BY <1>3, <1>g DEF RunInit, Up, GoodPod
    <3>2. <<c>> \in Seq(ContainerStates)
      BY DEF ContainerStates
    <3>3. p \in Pods(Nat) /\ p.node = Pod.node /\ p.main = Pod.main
      BY <3>1, <3>2 DEF Pods
    <3> QED
      BY <3>1, <3>3 DEF GoodPod
  <2>3. SetPod(p) /\ UNCHANGED <<now, events, pull>>
    BY <1>3, <2>1 DEF RunInit
  <2> HIDE DEF p
  <2> QED
    BY <2>2, <2>3, <1>v, <1>q, SetPodKeeps DEF Extends
<1>4. CASE RunMain
  <2>1. UNCHANGED <<now, pull>> /\ Up /\ Pod.node
    BY <1>4 DEF RunMain
  <2>2. CASE /\ SetPod([Pod EXCEPT !.main = <<"running">>, !.ready = TRUE, !.phase = "Running"])
             /\ UNCHANGED events
    <3> DEFINE p == [Pod EXCEPT !.main = <<"running">>, !.ready = TRUE, !.phase = "Running"]
    <3>1. GoodPod(p)
      <4>1. Pod \in Pods(Nat) /\ Pod.node
        BY <2>1, <1>g DEF Up
      <4>2. <<"running">> \in Seq(ContainerStates)
        BY DEF ContainerStates
      <4>3. p \in Pods(Nat) /\ p.node
        BY <4>1, <4>2 DEF Pods
      <4> QED
        BY <4>3 DEF GoodPod
    <3>2. SetPod(p)
      BY <2>2
    <3> HIDE DEF p
    <3> QED
      BY <2>1, <2>2, <3>1, <3>2, <1>v, <1>q, SetPodKeeps DEF Extends
  <2>3. CASE /\ SetPod([Pod EXCEPT !.main = <<"waiting">>, !.ready = FALSE, !.restarts = @ + 1])
             /\ Record("BackOff")
    <3>r. PICK r \in Nat : r = Pod.restarts + 1
      <4>1. Pod \in Pods(Nat)
        BY <2>1, <1>g DEF Up
      <4>2. Pod.restarts \in Nat
        BY <4>1 DEF Pods
      <4> QED
        BY <4>2
    <3> DEFINE p == [Pod EXCEPT !.main = <<"waiting">>, !.ready = FALSE, !.restarts = r]
    <3>1. GoodPod(p)
      <4>1. Pod \in Pods(Nat) /\ Pod.node
        BY <2>1, <1>g DEF Up
      <4>2. <<"waiting">> \in Seq(ContainerStates)
        BY DEF ContainerStates
      <4>3. p \in Pods(Nat) /\ p.node
        BY <4>1, <4>2 DEF Pods
      <4> QED
        BY <4>3 DEF GoodPod
    <3>2. SetPod(p)
      BY <2>3, <3>r
    <3>3. /\ "BackOff" \in Reasons /\ pull' \in {"no", "active", "done"}
          /\ pull' = "done" => pull = "done" /\ "BackOff" \notin PullReasons
      BY <2>1 DEF Reasons, PullReasons, EventLog
    <3> HIDE DEF p
    <3> QED
      BY <2>1, <2>3, <3>1, <3>2, <3>3, SetPodKeeps, RecordKeeps DEF Extends
  <2>4. CASE /\ \E p \in {"Succeeded", "Failed"} :
                   SetPod([Pod EXCEPT !.main = <<"completed">>, !.ready = FALSE, !.phase = p])
             /\ UNCHANGED events
    <3>1. PICK f \in {"Succeeded", "Failed"} :
                   SetPod([Pod EXCEPT !.main = <<"completed">>, !.ready = FALSE, !.phase = f])
      BY <2>4
    <3> DEFINE p == [Pod EXCEPT !.main = <<"completed">>, !.ready = FALSE, !.phase = f]
    <3>2. GoodPod(p)
      <4>1. Pod \in Pods(Nat) /\ Pod.node
        BY <2>1, <1>g DEF Up
      <4>2. <<"completed">> \in Seq(ContainerStates)
        BY DEF ContainerStates
      <4>3. p \in Pods(Nat) /\ p.node
        BY <4>1, <4>2 DEF Pods
      <4> QED
        BY <4>3 DEF GoodPod
    <3>3. SetPod(p)
      BY <3>1
    <3> HIDE DEF p
    <3> QED
      BY <2>1, <2>4, <3>2, <3>3, <1>v, <1>q, SetPodKeeps DEF Extends
  <2> QED
    BY <1>4, <2>2, <2>3, <2>4 DEF RunMain
<1>5. CASE Recreate
  <2>1. UNCHANGED <<now, events>> /\ pull' \in {pull, "no"} /\ EventLog'
    <3>1. UNCHANGED <<now, events>> /\ pull' \in {pull, "no"}
      BY <1>5 DEF Recreate
    <3> QED
      BY <3>1, QuietKeeps DEF EventLog
  <2>2. CASE Pod # NoPod /\ \E b \in BOOLEAN : SetPod([Pod EXCEPT !.deleting = TRUE, !.stop = b])
    <3>1. PICK b \in BOOLEAN : SetPod([Pod EXCEPT !.deleting = TRUE, !.stop = b])
      BY <2>2
    <3> DEFINE p == [Pod EXCEPT !.deleting = TRUE, !.stop = b]
    <3>2. GoodPod(p)
      BY <2>2, <1>g DEF GoodPod, Pods
    <3>3. SetPod(p)
      BY <3>1
    <3> HIDE DEF p
    <3> QED
      BY <2>1, <3>2, <3>3, <1>v, SetPodKeeps DEF Extends
  <2>3. CASE SetPod(NoPod)
    <3>1. GoodPod(NoPod)
      BY DEF GoodPod
    <3> QED
      BY <2>1, <2>3, <3>1, <1>v, SetPodKeeps DEF Extends
  <2>4. CASE SetPod(NewPod(2))
    <3>1. GoodPod(NewPod(2))
      BY DEF GoodPod, NewPod, Pods
    <3> QED
      BY <2>1, <2>4, <3>1, <1>v, SetPodKeeps DEF Extends
  <2> QED
    BY <1>5, <2>2, <2>3, <2>4 DEF Recreate
<1>6. CASE Tick
  <2>1. UNCHANGED <<versions, events, pull>> /\ now' = now + 1 /\ now' \in 0..MaxTime
    BY <1>6, PodWatchConstants DEF Tick, EventLog
  <2> QED
    BY <2>1, <1>u, <1>v, QuietKeeps DEF Extends
<1> QED
  BY <1>1, <1>2, <1>3, <1>4, <1>5, <1>6 DEF Cluster

(***************************************************************************)
(* What the watcher has read.  Its pod is the version it was delivered     *)
(* last, its events are a prefix of the log, and a loop that still waits   *)
(* does so because of the stage it derived from exactly these two.         *)
(***************************************************************************)
Derived == \E evs \in Orders(1..epos) : stage = Stage(cur, evs)

Reading ==
    /\ wpc \in {"idle", "list", "loop", "returned"} /\ alive \subseteq {"pod", "events"}
    /\ vpos \in 0..Len(versions) /\ epos \in 0..Len(events) /\ known \subseteq 1..epos
    /\ wpc \in {"list", "loop"} =>
           vpos > 0 /\ (versions[vpos] # NoPod => cur = versions[vpos])
    /\ wpc = "loop" => known = 1..epos /\ stage \notin Terminal /\ Derived

PodWatchInv == PodLog /\ EventLog /\ Reading

\* Whatever the orders are primed or not: the events of the log stay.
LEMMA DerivedAgain ==
  ASSUME NEW n \in Nat, epos' = n, \A i \in 1..n : events'[i] = events[i],
         NEW evs \in Orders(1..n), stage' = Stage(cur', evs)
  PROVE  Derived'
<1>1. evs \in Orders(1..n)'
  BY OrdersStable
<1> QED
  BY <1>1 DEF Derived

LEMMA ReadingInit == PodWatchInit => PodWatchInv
<1> SUFFICES ASSUME PodWatchInit PROVE PodWatchInv
  OBVIOUS
<1>1. GoodPod(NewPod(1)) /\ NewPod(1) \in Pods(Nat)
  BY DEF GoodPod, NewPod, Pods
<1>2. PodLog
  <2> DEFINE P == Pods(Nat) \union {NoPod}
             q == NewPod(1)
  <2>1. versions = <<q>> /\ q \in P
    BY <1>1 DEF PodWatchInit
  <2> HIDE DEF P, q
  <2>2. versions \in Seq(P) /\ Len(versions) = 1 /\ versions[1] = q
    BY <2>1
  <2>3. \A i \in 1..Len(versions) : GoodPod(versions[i])
    BY <2>2, <1>1 DEF q
  <2> QED
    BY <2>2, <2>3 DEF PodLog, P
<1>3. EventLog
  <2>1. events = <<>> /\ now = 0 /\ pull = "no" /\ Len(events) = 0
    BY DEF PodWatchInit
  <2> QED
    BY <2>1, PodWatchConstants DEF EventLog
<1>4. Reading
  <2>1. Len(versions) = 1 /\ Len(events) = 0
    BY DEF PodWatchInit
  <2> QED
    BY <2>1 DEF PodWatchInit, Reading
<1> QED
  BY <1>2, <1>3, <1>4 DEF PodWatchInv

LEMMA ReadingStays ==
  ASSUME PodWatchInv, PodLog', EventLog', Extends, UNCHANGED watcher
  PROVE  Reading'
<1>1. /\ Len(versions) \in Nat /\ Len(versions') \in Nat /\ Len(versions) <= Len(versions')
      /\ Len(events) \in Nat /\ Len(events') \in Nat /\ Len(events) <= Len(events')
  BY DEF PodWatchInv, PodLog, EventLog, Extends
<1>2. /\ wpc' = wpc /\ cur' = cur /\ vpos' = vpos /\ known' = known
      /\ epos' = epos /\ alive' = alive /\ stage' = stage
  BY DEF watcher
<1>3. Reading
  BY DEF PodWatchInv
<1>4. PICK n \in Nat : n = epos /\ n <= Len(events)
  BY <1>1, <1>3 DEF Reading
<1>5. ASSUME wpc = "loop" PROVE Derived'
  <2>1. PICK evs \in Orders(1..n) : stage = Stage(cur, evs)
    BY <1>3, <1>4, <1>5 DEF Reading, Derived
  <2>2. epos' = n /\ stage' = Stage(cur', evs)
    BY <2>1, <1>2, <1>4
  <2>3. \A i \in 1..n : events'[i] = events[i]
    BY <1>1, <1>4 DEF Extends
  <2> QED
    BY <2>2, <2>3, DerivedAgain
<1>6. ASSUME wpc \in {"list", "loop"}
      PROVE  vpos' > 0 /\ (versions'[vpos'] # NoPod => cur' = versions'[vpos'])
  <2>1. vpos \in 1..Len(versions)
    BY <1>1, <1>3, <1>6 DEF Reading
  <2>2. versions'[vpos'] = versions[vpos]
    BY <2>1, <1>2 DEF Extends
  <2> QED
    BY <2>1, <2>2, <1>2, <1>3, <1>6 DEF Reading
<1> QED
  BY <1>1, <1>2, <1>3, <1>5, <1>6 DEF Reading

LEMMA WatcherStep ==
  ASSUME PodWatchInv, Watch \/ CloseStream
  PROVE  Reading'
<1>1. PodLog /\ EventLog /\ Reading
  BY DEF PodWatchInv
<1>2. UNCHANGED cluster
  BY DEF Watch, CloseStream, GetPod, ListEvents, DeliverPod, DeliverEvent, GiveUp
<1>3. versions' = versions /\ events' = events
  BY <1>2 DEF cluster
<1>4. Len(versions) \in Nat /\ Len(events) \in Nat
  BY <1>1 DEF PodLog, EventLog
<1>s. ASSUME NEW n \in Nat, epos' = n, known' = 1..n, NEW evs \in Orders(1..n),
             Settle(Stage(cur', evs))
      PROVE  /\ wpc' \in {"loop", "returned"}
             /\ wpc' = "loop" => known' = 1..epos' /\ stage' \notin Terminal /\ Derived'
  <2>1. stage' = Stage(cur', evs)
    BY <1>s DEF Settle
  <2>2. Derived'
    BY <2>1, <1>s, <1>3, DerivedAgain
  <2> QED
    BY <2>1, <2>2, <1>s DEF Settle
<1>5. CASE GetPod
  <2>1. Pod = versions[Len(versions)]
    BY <1>1, PodIsGood
  <2>2. Len(versions) > 0
    BY <1>1 DEF PodLog
  <2> QED
    BY <1>1, <1>3, <1>4, <1>5, <2>1, <2>2 DEF GetPod, Reading
<1>6. CASE ListEvents
  <2>0. wpc = "list" /\ cur' = cur /\ vpos' = vpos /\ alive' = alive
    BY <1>6 DEF ListEvents
  <2>1. CASE known' = 1..Len(events) /\ epos' = Len(events) /\ Settle(Stage(cur, events))
    <3>1. events \in Orders(1..Len(events))
      BY <1>1, InOrderOfRecording DEF EventLog
    <3>2. PICK n \in Nat : n = Len(events)
      BY <1>4
    <3>3. epos' = n /\ known' = 1..n /\ events \in Orders(1..n) /\ Settle(Stage(cur', events))
      BY <2>0, <2>1, <3>1, <3>2
    <3>4. /\ wpc' \in {"loop", "returned"}
          /\ wpc' = "loop" => known' = 1..epos' /\ stage' \notin Terminal /\ Derived'
      BY <3>3, <1>s
    <3> QED
      BY <1>1, <1>3, <1>4, <2>0, <2>1, <3>4 DEF Reading
  <2>2. CASE known' = {} /\ epos' = 0 /\ Settle(Stage(cur, <<>>))
    <3>1. {} = 1..0
      OBVIOUS
    <3>2. <<>> \in Orders(1..0)
      BY <3>1, NothingListed
    <3>3. epos' = 0 /\ known' = 1..0 /\ Settle(Stage(cur', <<>>))
      BY <2>0, <2>2, <3>1
    <3>4. /\ wpc' \in {"loop", "returned"}
          /\ wpc' = "loop" => known' = 1..epos' /\ stage' \notin Terminal /\ Derived'
      BY <3>2, <3>3, <1>s
    <3> QED
      BY <1>1, <1>3, <1>4, <2>0, <2>2, <3>4 DEF Reading
  <2> QED
    BY <1>6, <2>1, <2>2 DEF ListEvents
<1>7. CASE DeliverPod
  <2>0. /\ wpc = "loop" /\ vpos < Len(versions) /\ vpos' = vpos + 1
        /\ known' = known /\ epos' = epos /\ alive' = alive
        /\ known = 1..epos /\ stage \notin Terminal /\ Derived
    BY <1>1, <1>7 DEF DeliverPod, Reading
  <2>1. PICK n \in Nat : n = epos
    BY <1>1 DEF Reading
  <2>2. vpos \in Nat /\ vpos + 1 \in 1..Len(versions)
    BY <1>1, <1>4, <2>0 DEF Reading
  <2>3. CASE versions[vpos + 1] = NoPod
    <3>1. cur' = cur /\ wpc' = wpc /\ stage' = stage
      BY <1>7, <2>3 DEF DeliverPod
    <3>2. PICK evs \in Orders(1..n) : stage = Stage(cur, evs)
      BY <2>0, <2>1 DEF Derived
    <3>3. epos' = n /\ stage' = Stage(cur', evs)
      BY <2>0, <2>1, <3>1, <3>2
    <3>4. Derived'
      BY <3>3, <1>3, DerivedAgain
    <3> QED
      BY <1>1, <1>3, <1>4, <2>0, <2>2, <2>3, <3>1, <3>4 DEF Reading
  <2>4. CASE versions[vpos + 1] # NoPod
    <3>1. cur' = versions[vpos + 1]
      BY <1>7, <2>4 DEF DeliverPod
    <3>2. PICK evs \in Orders(known) : Settle(Stage(cur', evs))
      BY <1>7, <2>4 DEF DeliverPod
    <3>3. epos' = n /\ known' = 1..n /\ evs \in Orders(1..n)
      BY <2>0, <2>1, <3>2
    <3>4. /\ wpc' \in {"loop", "returned"}
          /\ wpc' = "loop" => known' = 1..epos' /\ stage' \notin Terminal /\ Derived'
      BY <3>2, <3>3, <1>s
    <3> QED
      BY <1>1, <1>3, <1>4, <2>0, <2>2, <3>1, <3>4 DEF Reading
  <2> QED
    BY <2>3, <2>4
<1>8. CASE DeliverEvent
  <2>0. /\ wpc = "loop" /\ epos < Len(events) /\ epos' = epos + 1
        /\ known' = known \union {epos + 1}
        /\ cur' = cur /\ vpos' = vpos /\ alive' = alive /\ known = 1..epos
    BY <1>1, <1>8 DEF DeliverEvent, Reading
  <2>1. epos \in Nat
    BY <1>1 DEF Reading
  <2>2. PICK n \in Nat : n = epos + 1 /\ n <= Len(events)
    BY <1>4, <2>0, <2>1
  <2>3. PICK evs \in Orders(known') : Settle(Stage(cur, evs))
    BY <1>8 DEF DeliverEvent
  <2>4. known' = 1..n /\ epos' = n
    BY <2>0, <2>1, <2>2
  <2>5. evs \in Orders(1..n) /\ Settle(Stage(cur', evs))
    BY <2>0, <2>3, <2>4
  <2>6. /\ wpc' \in {"loop", "returned"}
        /\ wpc' = "loop" => known' = 1..epos' /\ stage' \notin Terminal /\ Derived'
    BY <2>4, <2>5, <1>s
  <2> QED
    BY <1>1, <1>3, <1>4, <2>0, <2>2, <2>4, <2>6 DEF Reading
<1>9. CASE CloseStream
  <2>0. /\ wpc = "loop" /\ alive' \subseteq alive /\ wpc' = wpc /\ cur' = cur /\ vpos' = vpos
        /\ known' = known /\ epos' = epos /\ stage' = stage
    BY <1>9 DEF CloseStream
  <2>1. PICK n \in Nat : n = epos
    BY <1>1 DEF Reading
  <2>2. PICK evs \in Orders(1..n) : stage = Stage(cur, evs)
    BY <1>1, <2>0, <2>1 DEF Reading, Derived
  <2>3. epos' = n /\ stage' = Stage(cur', evs)
    BY <2>0, <2>1, <2>2
  <2>4. Derived'
    BY <2>3, <1>3, DerivedAgain
  <2> QED
    BY <1>1, <1>3, <2>0, <2>4 DEF Reading
<1>10. CASE GiveUp
  BY <1>1, <1>3, <1>10 DEF GiveUp, Reading
<1> QED
  BY <1>5, <1>6, <1>7, <1>8, <1>9, <1>10 DEF Watch

LEMMA PodWatchInductive == PodWatchInv /\ [PodWatchNext]_podWatchVars => PodWatchInv'
<1> SUFFICES ASSUME PodWatchInv, [PodWatchNext]_podWatchVars PROVE PodWatchInv'
  OBVIOUS
<1>1. PodLog /\ EventLog /\ Reading
  BY DEF PodWatchInv
<1>q. UNCHANGED cluster => PodLog' /\ EventLog' /\ Extends
  <2> SUFFICES ASSUME UNCHANGED cluster PROVE PodLog' /\ EventLog' /\ Extends
    OBVIOUS
  <2>1. versions' = versions /\ events' = events /\ now' = now /\ pull' = pull
    BY DEF cluster
  <2> QED
    BY <1>1, <2>1 DEF PodLog, EventLog, Extends, GoodPod
<1>2. CASE Cluster
  <2>1. PodLog' /\ EventLog' /\ Extends
    BY <1>1, <1>2, ClusterStep
  <2>2. UNCHANGED watcher
    BY <1>2 DEF Cluster
  <2> QED
    BY <2>1, <2>2, ReadingStays DEF PodWatchInv
<1>3. CASE Watch \/ CloseStream
  <2>1. UNCHANGED cluster
    BY <1>3 DEF Watch, CloseStream, GetPod, ListEvents, DeliverPod, DeliverEvent, GiveUp
  <2> QED
    BY <1>3, <2>1, <1>q, WatcherStep DEF PodWatchInv
<1>4. CASE UNCHANGED podWatchVars
  <2>1. UNCHANGED cluster /\ UNCHANGED watcher
    BY <1>4 DEF podWatchVars
  <2> QED
    BY <2>1, <1>q, ReadingStays DEF PodWatchInv
<1> QED
  BY <1>2, <1>3, <1>4 DEF PodWatchNext

LEMMA PodWatchInvariant == PodWatchSpec => []PodWatchInv
<1> QED
  BY ReadingInit, PodWatchInductive, PTL DEF PodWatchSpec

\* A finished pull is not shown as going on in any order of the events, as
\* long as the timestamps of the pull events differ.
LEMMA PullIsOver ==
  ASSUME EventLog, pull = "done", NoTies, NEW n \in Nat, n = Len(events),
         NEW evs \in Orders(1..n)
  PROVE  ~ActivePulling(evs)
<1> DEFINE E == [reason : Reasons, path : {"main"}, time : Nat]
<1>1. events \in Seq(E)
  BY DEF EventLog
<1>2. PICK s \in SetToSeqs(1..n) : evs = [i \in 1..n |-> events[s[i]]]
  BY OrdersOf
<1>3. s \in [1..n -> 1..n] /\ \A i, j \in 1..n : i # j => s[i] # s[j]
  BY SeqsOf
<1>4. PICK k \in 1..n :
         /\ events[k].reason = "Pulled"
         /\ \A j \in 1..n : j > k => events[j].reason \notin PullReasons
  BY DEF EventLog
<1>5. PICK j \in 1..n : s[j] = k
  BY OrderIsOnto
<1>6. Len(evs) = n /\ \A i \in 1..n : evs[i] = events[s[i]]
  BY <1>2
<1> SUFFICES ASSUME ActivePulling(evs) PROVE FALSE
  OBVIOUS
<1>7. PICK i \in 1..n :
         /\ evs[i].reason = "Pulling"
         /\ \A l \in {m \in 1..n : evs[m].reason \in {"Pulling", "Pulled"}} \ {i} :
              evs[l].path = evs[i].path =>
                \/ evs[l].time < evs[i].time
                \/ evs[l].time = evs[i].time /\ i < l
  BY <1>6 DEF ActivePulling
<1>8. s[i] \in 1..n /\ events[s[i]].reason = "Pulling" /\ i # j /\ s[i] # k /\ s[i] < k
  <2>1. s[i] \in 1..n /\ events[s[i]].reason = "Pulling"
    BY <1>3, <1>6, <1>7
  <2>2. s[i] # k /\ i # j
    BY <2>1, <1>4, <1>5
  <2>3. ~(s[i] > k)
    BY <2>1, <1>4 DEF PullReasons
  <2> QED
    BY <2>1, <2>2, <2>3
<1>9. evs[j] = events[k] /\ evs[i] = events[s[i]]
  BY <1>5, <1>6
<1>10. events[k].path = events[s[i]].path /\ events[k].time \in Nat /\ events[s[i]].time \in Nat
  <2> HIDE DEF E
  <2>1. events[k] \in E /\ events[s[i]] \in E
    BY <1>1, <1>8
  <2> QED
    BY <2>1 DEF E
<1>11. events[s[i]].time <= events[k].time
  BY <1>8 DEF EventLog
<1>12. events[s[i]].time # events[k].time
  BY <1>4, <1>8 DEF NoTies
<1>13. \/ events[k].time < events[s[i]].time
       \/ events[k].time = events[s[i]].time
  BY <1>4, <1>7, <1>8, <1>9, <1>10
<1> QED
  BY <1>10, <1>11, <1>12, <1>13

\* A pod that is up, or has ended, is at a terminal stage once its pull is over.
LEMMA UpIsTerminal ==
  ASSUME NEW pod, pod # NoPod, GoodPod(pod), NEW evs, ~ActivePulling(evs), ~pod.deleting,
         MainStage(pod.main) = "Running", pod.init \in {<<>>, <<"completed">>}
  PROVE  Stage(pod, evs) \in Terminal
<1>1. pod \in Pods(Nat) /\ (pod.main # <<>> => pod.node)
  BY DEF GoodPod
<1>2. pod.main # <<>>
  <2> SUFFICES ASSUME pod.main = <<>> PROVE FALSE
    OBVIOUS
  <2> DEFINE cs == pod.main
             waiting == {i \in 1..Len(cs) : cs[i] \in {"waiting", "hard"}}
  <2>1. waiting = {}
    OBVIOUS
  <2>2. MainStage(cs) = "Starting"
    BY <2>1 DEF MainStage
  <2> QED
    BY <2>2
<1>3. pod.node
  BY <1>1, <1>2
<1> DEFINE openInit == {i \in 1..Len(pod.init) : pod.init[i] # "completed"}
<1>4. openInit = {}
  <2>1. CASE pod.init = <<>>
    BY <2>1
  <2>2. CASE pod.init = <<"completed">>
    BY <2>2
  <2> QED
    BY <2>1, <2>2
<1>5. pod.phase \in {"Pending", "Running", "Succeeded", "Failed"}
  BY <1>1 DEF Pods
<1> QED
  BY <1>3, <1>4, <1>5 DEF Stage, Terminal

\* The types, at every size of the two logs.
THEOREM PodWatchTypes == PodWatchSpec => []PodWatchTypeOK
<1>1. PodWatchInv => PodWatchTypeOK
  <2> SUFFICES ASSUME PodWatchInv PROVE PodWatchTypeOK
    OBVIOUS
  <2>1. PodLog /\ EventLog /\ Reading
    BY DEF PodWatchInv
  <2>2. \A i \in 1..Len(versions) : versions[i] = NoPod \/ versions[i] \in Pods(Nat)
    BY <2>1 DEF PodLog, GoodPod
  <2>3. ASSUME NEW i \in 1..Len(events)
        PROVE  events[i] \in [reason : Reasons, path : {"main"}, time : 0..now]
    <3> DEFINE E == [reason : Reasons, path : {"main"}, time : Nat]
    <3>1. events \in Seq(E)
      BY <2>1 DEF EventLog
    <3> HIDE DEF E
    <3>2. events[i] \in E
      BY <3>1
    <3>3. events[i].time <= now /\ now \in Nat
      BY <2>1 DEF EventLog
    <3> QED
      BY <3>2, <3>3 DEF E
  <2>4. known \subseteq 1..Len(events)
    BY <2>1 DEF Reading, EventLog
  <2> QED
    BY <2>1, <2>2, <2>3, <2>4 DEF PodWatchTypeOK, EventLog, Reading
<1> QED
  BY <1>1, PodWatchInvariant, PTL

LEMMA CaughtUpDerives ==
  ASSUME PodWatchInv, CaughtUp, Pod # NoPod
  PROVE  \E evs \in Orders(1..Len(events)) : Stage(Pod, evs) = stage /\ stage \notin Terminal
<1>1. PodLog /\ EventLog /\ Reading
  BY DEF PodWatchInv
<1>2. cur = Pod
  BY <1>1, PodIsGood DEF CaughtUp, Reading
<1> QED
  BY <1>1, <1>2 DEF CaughtUp, Reading, Derived

\* Nothing is lost between the read of the pod, the list of its events and
\* the two streams of PodWatcher.Watch.
THEOREM WatchMissesNothing == PodWatchSpec => []NothingMissed
<1>1. PodWatchInv => NothingMissed
  BY CaughtUpDerives DEF NothingMissed
<1> QED
  BY <1>1, PodWatchInvariant, PTL

\* A loop that has caught up does not go on waiting for a pod that is up.
THEOREM WatchSeesReady == PodWatchSpec => []ReadyIsSeen
<1>1. PodWatchInv => ReadyIsSeen
  <2> SUFFICES ASSUME PodWatchInv, CaughtUp, Pod # NoPod, pull = "done", NoTies,
                      MainStage(Pod.main) = "Running", ~Pod.deleting,
                      Pod.init \in {<<>>, <<"completed">>}
               PROVE  FALSE
    BY DEF ReadyIsSeen
  <2>1. PodLog /\ EventLog
    BY DEF PodWatchInv
  <2>2. PICK n \in Nat : n = Len(events)
    BY <2>1 DEF EventLog
  <2>3. PICK evs \in Orders(1..n) : Stage(Pod, evs) = stage /\ stage \notin Terminal
    BY <2>2, CaughtUpDerives
  <2>4. ~ActivePulling(evs)
    BY <2>1, <2>2, PullIsOver
  <2>5. Stage(Pod, evs) \in Terminal
    BY <2>1, <2>4, PodIsGood, UpIsTerminal
  <2> QED
    BY <2>3, <2>5
<1> QED
  BY <1>1, PodWatchInvariant, PTL

=============================================================================
