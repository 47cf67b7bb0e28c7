-------------------------- MODULE UserCleanupProofs --------------------------
(***************************************************************************)
(* Proofs about UserCleanup for any workspaces and calls: the types, with  *)
(* the locks of the workspaces, and that the listings overlook nothing.    *)
(***************************************************************************)
EXTENDS UserCleanup, TLAPS

(***************************************************************************)
(* Between the first listing and the merge workspaces come and go.  Those  *)
(* that stayed are in the list that was to have them, whether their pod    *)
(* was up or not when that list was made.                                  *)
(***************************************************************************)
Listed(c) ==
    /\ kept[c] \subseteq Deployed
    /\ call[c].pc = "new" => call[c].asked = {}
    /\ call[c].pc = "list" =>
        /\ "releases" \in call[c].asked => kept[c] \ Injected \subseteq call[c].stopped
        /\ "injected" \in call[c].asked =>
             "releases" \in call[c].asked /\ kept[c] \intersect Injected \subseteq call[c].injected

ListInv == \A c \in Calls : Listed(c)

\* A call holds a workspace's lock only while it deletes that workspace; once
\* it clears the detection entry, the lock is released.
LockedByCur ==
    \A w \in Standalone : busy[w] \in Calls =>
        call[busy[w]].cur = w /\ call[busy[w]].pc \in {"revoke", "delete"}

Inv == TypeOK /\ LockedByCur /\ ListInv

(***************************************************************************)
(* The records of the calls.                                               *)
(***************************************************************************)

LEMMA FreshCall == Fresh \in Call /\ Fresh.cur = None /\ Fresh.lost = FALSE /\ Fresh.pc = "new"
  BY DEF Fresh, Call, PC

\* Call c becomes f and the others stay.
Becomes(c, f) ==
    /\ call' \in [Calls -> Call] /\ f \in Call
    /\ call'[c] = f /\ \A d \in Calls \ {c} : call'[d] = call[d]

LEMMA CallSet ==
    ASSUME TypeOK, NEW c \in Calls, NEW f \in Call, Set(c, f)
    PROVE  Becomes(c, f)
  BY DEF TypeOK, Set, Becomes

LEMMA CallGoes ==
    ASSUME TypeOK, NEW c \in Calls, NEW l \in PC, Goto(c, l)
    PROVE  /\ Becomes(c, [call[c] EXCEPT !.pc = l])
           /\ call'[c].pc = l /\ call'[c].lost = call[c].lost /\ call'[c].cur = call[c].cur
<1>1. call[c] \in Call
  BY DEF TypeOK
<1>2. [call[c] EXCEPT !.pc = l] \in Call
  BY <1>1 DEF Call
<1>3. Becomes(c, [call[c] EXCEPT !.pc = l])
  BY <1>2, CallSet DEF Goto
<1> QED
  BY <1>1, <1>3 DEF Becomes, Call

LEMMA CallEnds ==
    ASSUME TypeOK, NEW c \in Calls, NEW l \in PC, End(c, l)
    PROVE  /\ Becomes(c, [Fresh EXCEPT !.pc = l, !.listed = call[c].listed])
           /\ call'[c].pc = l /\ call'[c].cur = None
<1>1. call[c].listed \in SUBSET Workspaces
  BY DEF TypeOK, Call
<1>2. [Fresh EXCEPT !.pc = l, !.listed = call[c].listed] \in Call
  BY <1>1, FreshCall DEF Call
<1>3. Becomes(c, [Fresh EXCEPT !.pc = l, !.listed = call[c].listed])
  BY <1>2, CallSet DEF End
<1> QED
  BY <1>1, <1>3, FreshCall DEF Becomes, Call

Listing(c) == TryAcquire(c) \/ ListPods(c) \/ ListReleases(c) \/ ListInjected(c)

\* What the steps of a call have in common: the other calls stay, the call has
\* a current workspace only while it deletes it, and it never lists again.
Proper(c) ==
    /\ call' \in [Calls -> Call]
    /\ \A d \in Calls \ {c} : call'[d] = call[d]
    /\ call'[c].cur # None <=> call'[c].pc \in {"revoke", "delete", "clear"}
    /\ call'[c].pc \in {"new", "list"} => Listing(c)

LEMMA ProperStep ==
    ASSUME TypeOK, NEW c \in Calls, Step(c) \/ Renew(c) \/ Crash(c)
    PROVE  Proper(c)
<1> DEFINE C == call[c]
<1>1. /\ call \in [Calls -> Call] /\ C \in Call
      /\ C.cur # None <=> C.pc \in {"revoke", "delete", "clear"}
      /\ C.asked \in SUBSET Lists /\ C.todo \in SUBSET Workspaces
      /\ pods \subseteq Workspaces /\ release \subseteq Workspaces
  BY DEF TypeOK, Call, Standalone
<1>2. ASSUME NEW f, Becomes(c, f), f.cur # None <=> f.pc \in {"revoke", "delete", "clear"},
             f.pc \in {"new", "list"} => Listing(c)
      PROVE  Proper(c)
  BY <1>2 DEF Becomes, Proper, Working
<1>3. PC = {"new", "list", "loop", "revoke", "delete", "clear", "release", "ended", "crashed"}
  BY DEF PC
<1>4. ASSUME NEW l \in {"ended", "crashed"}, End(c, l) PROVE Proper(c)
  BY <1>3, <1>4, CallEnds DEF Proper, Becomes, Working
<1>5. ASSUME C.cur = None, Goto(c, "release") PROVE Proper(c)
  BY <1>3, <1>5, CallGoes DEF Proper, Becomes, Working
<1>6. CASE TryAcquire(c)
  BY <1>1, <1>3, <1>4, <1>6, CallGoes 
  DEF TryAcquire, Listing, Proper, Becomes, Working
<1>7. CASE ListPods(c) \/ ListReleases(c) \/ ListInjected(c)
  <2>1. ASSUME NEW a \in SUBSET Lists, NEW w \in SUBSET Workspaces,
               NEW f \in {[C EXCEPT !.asked = a, !.live = w],
                          [C EXCEPT !.asked = a, !.stopped = w],
                          [C EXCEPT !.asked = a, !.injected = w]},
               Set(c, f)
        PROVE  Proper(c)
    <3>1. f \in Call /\ f.pc = C.pc /\ f.cur = C.cur
      BY <1>1 DEF Call
    <3>2. C.pc = "list"
      BY <1>7 DEF ListPods, ListReleases, ListInjected
    <3>3. Becomes(c, f)
      BY <2>1, <3>1, CallSet
    <3> QED
      BY <1>1, <1>2, <1>7, <3>1, <3>2, <3>3 DEF Listing
  <2>2. /\ C.asked \union {"pods"} \in SUBSET Lists
        /\ C.asked \union {"releases"} \in SUBSET Lists
        /\ Lists \in SUBSET Lists
        /\ pods \ Injected \in SUBSET Workspaces /\ release \in SUBSET Workspaces
        /\ pods \intersect Injected \in SUBSET Workspaces
    BY <1>1 DEF Lists
  <2>3. CASE ListPods(c)
    BY <2>1, <2>2, <2>3 DEF ListPods
  <2>4. CASE ListReleases(c)
    BY <2>1, <2>2, <2>4 DEF ListReleases
  <2>5. CASE ListInjected(c)
    BY <2>1, <2>2, <2>5 DEF ListInjected
  <2> QED
    BY <1>7, <2>3, <2>4, <2>5
<1>8. CASE Merge(c)
  <2> DEFINE found == C.live \union (C.stopped \ C.live) \union C.injected
             f == [Fresh EXCEPT !.pc = IF found = {} THEN "release" ELSE "loop",
                                !.listed = found, !.todo = found]
  <2>1. found \in SUBSET Workspaces
    BY <1>1 DEF Call
  <2>2. f \in Call /\ f.cur = None /\ f.pc \in {"release", "loop"}
    BY <1>3, <2>1, FreshCall DEF Call
  <2>3. Set(c, f) /\ C.pc = "list"
    BY <1>8 DEF Merge
  <2>4. Becomes(c, f)
    BY <2>2, <2>3, CallSet
  <2> QED
    BY <1>2, <2>2, <2>3, <2>4
<1>9. CASE ListFails(c) \/ Abort(c) \/ LoopEnds(c)
  BY <1>1, <1>5, <1>9 DEF ListFails, Abort, LoopEnds
<1>10. CASE NextPod(c)
  <2>1. ASSUME NEW w \in C.todo, Set(c, [C EXCEPT !.todo = @ \ {w}]) PROVE Proper(c)
    <3>1. C.todo \ {w} \in SUBSET Workspaces
      BY <1>1
    <3>2. /\ [C EXCEPT !.todo = @ \ {w}] \in Call
          /\ [C EXCEPT !.todo = @ \ {w}].pc = C.pc /\ [C EXCEPT !.todo = @ \ {w}].cur = C.cur
          /\ [C EXCEPT !.todo = @ \ {w}].lost = C.lost
      BY <1>1, <3>1 DEF Call
    <3>3. Becomes(c, [C EXCEPT !.todo = @ \ {w}])
      BY <2>1, <3>2, CallSet
    <3> QED
      BY <1>1, <1>2, <1>10, <3>2, <3>3 DEF NextPod, Working
  <2>2. ASSUME NEW w \in C.todo,
               Set(c, [C EXCEPT !.pc = "revoke", !.cur = w, !.todo = @ \ {w}])
        PROVE  Proper(c)
    <3> DEFINE f == [C EXCEPT !.pc = "revoke", !.cur = w, !.todo = @ \ {w}]
    <3>1. C.todo \ {w} \in SUBSET Workspaces /\ w \in Workspaces /\ w # None
      BY <1>1, CleanupConstants
    <3>2. f \in Call /\ f.pc = "revoke" /\ f.cur = w
      BY <1>1, <1>3, <3>1 DEF Call
    <3>3. Becomes(c, f)
      BY <2>2, <3>2, CallSet
    <3> QED
      BY <1>2, <3>1, <3>2, <3>3
  <2> QED
    BY <1>10, <2>1, <2>2 DEF NextPod
<1>11. CASE RevokePAT(c)
  BY <1>1, <1>3, <1>11, CallGoes DEF RevokePAT, Proper, Becomes, Working
<1>12. ASSUME Working(c), Set(c, [C EXCEPT !.pc = "loop", !.cur = None]) PROVE Proper(c)
  <2> DEFINE f == [C EXCEPT !.pc = "loop", !.cur = None]
  <2>1. f \in Call /\ f.pc = "loop" /\ f.cur = None /\ f.lost = C.lost
    BY <1>1, <1>3 DEF Call
  <2>2. Becomes(c, f)
    BY <1>12, <2>1, CallSet
  <2> QED
    BY <1>2, <1>12, <2>1, <2>2
<1>13. CASE DeletePod(c)
  <2>1. CASE Goto(c, "clear")
    BY <1>1, <1>3, <1>13, <2>1, CallGoes DEF DeletePod, Proper, Becomes, Working
  <2> QED
    BY <1>12, <1>13, <2>1 DEF DeletePod, Working
<1>14. CASE ClearThreat(c)
  BY <1>12, <1>14 DEF ClearThreat, Working
<1>15. CASE Release(c) \/ Crash(c)
  BY <1>4, <1>15 DEF Release, Crash
<1>16. CASE Renew(c)
  <2>1. CASE UNCHANGED call
    BY <1>1, <1>16, <2>1 DEF Renew, Proper, Working
  <2>2. CASE Set(c, [C EXCEPT !.lost = TRUE])
    <3> DEFINE f == [C EXCEPT !.lost = TRUE]
    <3>1. f \in Call /\ f.pc = C.pc /\ f.cur = C.cur
      BY <1>1 DEF Call
    <3>2. Becomes(c, f)
      BY <2>2, <3>1, CallSet
    <3> QED
      BY <1>1, <1>2, <1>16, <3>1, <3>2 DEF Renew, Working
  <2> QED
    BY <1>16, <2>1, <2>2 DEF Renew
<1> QED
  BY <1>6, <1>7, <1>8, <1>9, <1>10, <1>11, <1>13, <1>14, <1>15, <1>16 DEF Step

(***************************************************************************)
(* Types.                                                                  *)
(***************************************************************************)

LEMMA TypeInit == Init => TypeOK
<1> SUFFICES ASSUME Init PROVE TypeOK
  OBVIOUS
<1>1. mode \in Modes /\ pods \subseteq Workspaces
  BY CleanupConstants DEF Init, Standalone
<1>2. call \in [Calls -> Call] /\ \A c \in Calls : call[c].cur = None /\ call[c].pc = "new"
  BY FreshCall DEF Init
<1>3. kept \in [Calls -> SUBSET Workspaces]
  BY DEF Init
<1>4. stale \in BOOLEAN
  BY Zenon DEF Init
<1> QED
  BY <1>1, <1>2, <1>3, <1>4, CleanupConstants DEF Init, TypeOK, Standalone

LEMMA LocksOfCall ==
    ASSUME TypeOK, LockedByCur, NEW c \in Calls, Step(c) \/ Renew(c) \/ Crash(c)
    PROVE  busy' \in [Standalone -> Calls \union Others \union {None}] /\ LockedByCur'
<1>1. /\ busy \in [Standalone -> Calls \union Others \union {None}]
      /\ call[c].cur # None <=> call[c].pc \in {"revoke", "delete", "clear"}
      /\ None \notin Calls /\ \A w \in Standalone : w # None
  BY CleanupConstants DEF TypeOK, Standalone
<1>2. \A d \in Calls \ {c} : call'[d] = call[d]
  BY ProperStep DEF Proper
<1>3. CASE UNCHANGED busy /\ call[c].pc \notin {"revoke", "delete"}
  BY <1>1, <1>2, <1>3 DEF LockedByCur
<1>4. CASE NextPod(c)
  <2>1. PICK w \in call[c].todo :
          IF w \in Standalone /\ busy[w] # None
          THEN UNCHANGED busy
          ELSE /\ busy' = IF w \in Standalone THEN [busy EXCEPT ![w] = c] ELSE busy
               /\ Set(c, [call[c] EXCEPT !.pc = "revoke", !.cur = w, !.todo = @ \ {w}])
    BY <1>4 DEF NextPod
  <2>2. call[c].pc = "loop"
    BY <1>4 DEF NextPod
  <2>3. CASE UNCHANGED busy
    BY <1>3, <2>2, <2>3
  <2>4. CASE ~UNCHANGED busy
    <3>1. w \in Standalone /\ busy' = [busy EXCEPT ![w] = c]
      BY <2>1, <2>4
    <3>2. call'[c].cur = w /\ call'[c].pc = "revoke"
      <4>1. call[c] \in Call /\ call' = [call EXCEPT ![c] =
              [call[c] EXCEPT !.pc = "revoke", !.cur = w, !.todo = @ \ {w}]]
        BY <2>1, <2>4 DEF TypeOK, Set
      <4> QED
        BY <4>1 DEF TypeOK, Call
    <3> QED
      BY <1>1, <1>2, <2>2, <3>1, <3>2 DEF LockedByCur
  <2> QED
    BY <2>3, <2>4
<1>5. CASE RevokePAT(c)
  <2>1. call'[c].pc = "delete" /\ call'[c].cur = call[c].cur /\ UNCHANGED busy
    BY <1>5, CallGoes DEF RevokePAT, PC
  <2> QED
    BY <1>1, <1>2, <2>1 DEF LockedByCur
<1>6. CASE DeletePod(c)
  <2>1. busy' = IF call[c].cur \in Standalone THEN [busy EXCEPT ![call[c].cur] = None] ELSE busy
    BY <1>6 DEF DeletePod
  <2> QED
    BY <1>1, <1>2, <2>1 DEF LockedByCur
<1>7. CASE Crash(c)
  <2>1. busy' = [w \in Standalone |-> IF busy[w] = c THEN None ELSE busy[w]]
    BY <1>7 DEF Crash
  <2> QED
    BY <1>1, <1>2, <2>1 DEF LockedByCur
<1>8. CASE Renew(c)
  <2>1. call'[c].pc = call[c].pc /\ call'[c].cur = call[c].cur /\ UNCHANGED busy
    BY <1>8 DEF Renew, Set, TypeOK, Call
  <2> QED
    BY <1>1, <1>2, <2>1 DEF LockedByCur
<1> QED
  BY <1>3, <1>4, <1>5, <1>6, <1>7, <1>8
  DEF Step, TryAcquire, ListPods, ListReleases, ListInjected, Merge, ListFails, Abort,
      ClearThreat, LoopEnds, Release

LEMMA TypeOfCall ==
    ASSUME TypeOK, LockedByCur, NEW c \in Calls, Step(c) \/ Renew(c) \/ Crash(c)
    PROVE  TypeOK' /\ LockedByCur'
<1>1. /\ call' \in [Calls -> Call]
      /\ \A d \in Calls : call'[d].cur # None <=> call'[d].pc \in {"revoke", "delete", "clear"}
  BY ProperStep DEF Proper, TypeOK
<1>2. UNCHANGED <<mode, others>>
  BY DEF Step, TryAcquire, ListPods, ListReleases, ListInjected, Merge, ListFails, Abort,
         NextPod, RevokePAT, DeletePod, ClearThreat, LoopEnds, Release, Renew, Crash
<1>3. /\ release' \subseteq release /\ pods' \subseteq pods
      /\ pats' \subseteq pats /\ threats' \subseteq threats
  BY DEF Step, TryAcquire, ListPods, ListReleases, ListInjected, Merge, ListFails, Abort,
         NextPod, RevokePAT, DeletePod, ClearThreat, LoopEnds, Release, Renew, Crash, cluster
<1>4. holder' \in Calls \union {None} /\ stale' \in BOOLEAN
  <2>1. holder \in Calls \union {None} /\ stale \in BOOLEAN
    BY DEF TypeOK
  <2> QED
    BY <2>1
    DEF Step, TryAcquire, ListPods, ListReleases, ListInjected, Merge, ListFails, Abort,
        NextPod, RevokePAT, DeletePod, ClearThreat, LoopEnds, Release, Renew, Crash
<1>5. busy' \in [Standalone -> Calls \union Others \union {None}] /\ LockedByCur'
  BY LocksOfCall
<1>6. kept' \in [Calls -> SUBSET Workspaces]
  <2>1. kept \in [Calls -> SUBSET Workspaces] /\ Deployed \subseteq Workspaces
    BY DEF TypeOK, Deployed, Standalone
  <2> QED
    BY <2>1
    DEF Step, TryAcquire, ListPods, ListReleases, ListInjected, Merge, ListFails, Abort,
        NextPod, RevokePAT, DeletePod, ClearThreat, LoopEnds, Release, Renew, Crash, Keep, Forget
<1> QED
  BY <1>1, <1>2, <1>3, <1>4, <1>5, <1>6 DEF TypeOK, LockedByCur, Others

LEMMA TypeStep == TypeOK /\ LockedByCur /\ [Next]_vars => TypeOK' /\ LockedByCur'
<1> SUFFICES ASSUME TypeOK, LockedByCur, [Next]_vars PROVE TypeOK' /\ LockedByCur'
  OBVIOUS
<1>1. ASSUME NEW w \in Standalone, OtherBegins(w) \/ OtherEnds(w)
      PROVE  TypeOK' /\ LockedByCur'
  <2>1. Others \intersect Calls = {} /\ None \notin Calls
    BY CleanupConstants DEF TypeOK, Others
  <2>2. UNCHANGED <<mode, holder, stale, call>>
    BY <1>1 DEF OtherBegins, OtherEnds
  <2>6. kept' \in [Calls -> SUBSET Workspaces]
    BY <1>1 DEF OtherBegins, OtherEnds, Keep, TypeOK
  <2>3. busy' \in [Standalone -> Calls \union Others \union {None}] /\ LockedByCur'
    BY <1>1, <2>1, <2>2 DEF OtherBegins, OtherEnds, TypeOK, LockedByCur
  <2>4. /\ release' \subseteq Standalone /\ pods' \subseteq Workspaces
        /\ pats' \subseteq Workspaces /\ threats' \subseteq Workspaces
    BY <1>1 DEF OtherBegins, OtherEnds, TypeOK, Standalone, cluster
  <2>5. others' \in 0..MaxOthers
    BY <1>1, CleanupConstants DEF OtherBegins, OtherEnds, TypeOK
  <2> QED
    BY <2>2, <2>3, <2>4, <2>5, <2>6 DEF TypeOK, LockedByCur, Others
<1>4. ASSUME NEW w \in Injected, OtherInjects(w) PROVE TypeOK' /\ LockedByCur'
  BY <1>4, CleanupConstants DEF OtherInjects, TypeOK, LockedByCur, Others
<1>2. CASE LeaseRunsOut
  BY <1>2, CleanupConstants DEF LeaseRunsOut, TypeOK, LockedByCur, Others, cluster
<1>3. CASE UNCHANGED vars
  BY <1>3 DEF vars, cluster, TypeOK, LockedByCur, Others
<1> QED
  BY <1>1, <1>2, <1>3, <1>4, TypeOfCall DEF Next, Done

(***************************************************************************)
(* The listings.                                                           *)
(***************************************************************************)

\* Whatever happens, what was kept stays deployed, and it only becomes less
\* unless a call begins to list.
LEMMA KeptStep ==
    ASSUME TypeOK, ListInv, [Next]_vars, NEW d \in Calls
    PROVE  /\ kept'[d] \subseteq Deployed'
           /\ kept'[d] \subseteq kept[d] \/ TryAcquire(d)
<1>1. kept \in [Calls -> SUBSET Workspaces] /\ kept[d] \subseteq Deployed
  BY DEF TypeOK, ListInv, Listed
<1>2. CASE Keep
  BY <1>1, <1>2 DEF Keep
<1>3. CASE UNCHANGED kept /\ Deployed \subseteq Deployed'
  BY <1>1, <1>3
<1>4. ASSUME NEW c \in Calls, Forget(c), UNCHANGED cluster
      PROVE  kept'[d] \subseteq kept[d] /\ kept'[d] \subseteq Deployed'
  BY <1>1, <1>4 DEF Forget, Deployed, cluster
<1>5. ASSUME NEW c \in Calls, TryAcquire(c)
      PROVE  /\ kept'[d] \subseteq Deployed'
             /\ kept'[d] \subseteq kept[d] \/ TryAcquire(d)
  <2>1. Deployed' = Deployed
    BY <1>5 DEF TryAcquire, Deployed, cluster
  <2>2. CASE kept' = [kept EXCEPT ![c] = Deployed]
    BY <1>1, <1>5, <2>1, <2>2
  <2> QED
    BY <1>3, <1>5, <2>1, <2>2 DEF TryAcquire
<1>6. ASSUME NEW c \in Calls, Step(c) \/ Renew(c) \/ Crash(c), ~TryAcquire(c)
      PROVE  Keep \/ (Forget(c) /\ UNCHANGED cluster) \/ (UNCHANGED kept /\ Deployed = Deployed')
  BY <1>6 DEF Step, ListPods, ListReleases, ListInjected, Merge, ListFails, Abort,
         NextPod, RevokePAT, DeletePod, ClearThreat, LoopEnds, Release, Renew, Crash,
         Deployed, cluster
<1>7. CASE \E c \in Calls : Step(c) \/ Renew(c) \/ Crash(c)
  BY <1>2, <1>3, <1>4, <1>5, <1>6, <1>7
<1>8. ASSUME NEW w \in Standalone, OtherBegins(w) \/ OtherEnds(w)
      PROVE  Keep \/ (UNCHANGED kept /\ Deployed = Deployed')
  BY <1>8 DEF OtherBegins, OtherEnds, Deployed, cluster
<1>9. ASSUME NEW w \in Injected, OtherInjects(w)
      PROVE  UNCHANGED kept /\ Deployed \subseteq Deployed'
  BY <1>9 DEF OtherInjects, Deployed
<1>10. CASE LeaseRunsOut \/ UNCHANGED vars
  BY <1>3, <1>10 DEF LeaseRunsOut, vars, cluster, Deployed
<1> QED
  BY <1>2, <1>3, <1>7, <1>8, <1>9, <1>10 DEF Next, Done

LEMMA ListStep == Inv /\ [Next]_vars => ListInv'
<1> SUFFICES ASSUME TypeOK, ListInv, [Next]_vars, NEW d \in Calls
             PROVE  Listed(d)'
  BY DEF Inv, ListInv
<1>1. /\ kept'[d] \subseteq Deployed'
      /\ kept'[d] \subseteq kept[d] \/ TryAcquire(d)
      /\ kept[d] \subseteq Deployed
  BY KeptStep DEF ListInv, Listed
<1>2. CASE call'[d] = call[d]
  <2>1. ~TryAcquire(d)
    BY <1>2, CallGoes, CallEnds DEF TryAcquire, PC
  <2> QED
    BY <1>1, <1>2, <2>1 DEF ListInv, Listed
<1>3. ASSUME NEW c \in Calls, Step(c) \/ Renew(c) \/ Crash(c), call'[d] # call[d]
      PROVE  Listed(d)'
  <2>1. c = d /\ (call'[d].pc \in {"new", "list"} => Listing(d))
    BY <1>3, ProperStep DEF Proper
  <2>2. call \in [Calls -> Call] /\ call[d] \in Call /\ Listed(d)
    BY DEF TypeOK, ListInv
  <2>3. CASE TryAcquire(d)
    <3>1. Goto(d, "list") \/ End(d, "ended")
      BY <2>3 DEF TryAcquire
    <3>2. CASE Goto(d, "list")
      BY <1>1, <2>2, <2>3, <3>2 DEF TryAcquire, Goto, Set, Listed, Call
    <3>3. CASE End(d, "ended")
      BY <1>1, <3>3, CallEnds DEF Listed, PC
    <3> QED
      BY <3>1, <3>2, <3>3
  <2>4. CASE ListPods(d)
    BY <1>1, <2>2, <2>4 DEF ListPods, Set, Listed, Call, cluster
  <2>5. CASE ListReleases(d)
    BY <1>1, <2>2, <2>5 DEF ListReleases, Set, Listed, Call, cluster, Deployed
  <2>6. CASE ListInjected(d)
    <3>1. release \intersect Injected = {}
      BY DEF TypeOK, Standalone
    <3> QED
      BY <1>1, <2>2, <2>6, <3>1 DEF ListInjected, Set, Listed, Call, Lists, cluster, Deployed
  <2> QED
    BY <1>1, <2>1, <2>3, <2>4, <2>5, <2>6 DEF Listed, Listing
<1> QED
  BY <1>2, <1>3 DEF Next, Done, OtherBegins, OtherEnds, OtherInjects, LeaseRunsOut, vars

LEMMA InvInit == Init => Inv
<1> SUFFICES ASSUME Init PROVE Inv
  OBVIOUS
<1>1. \A c \in Calls : call[c].pc = "new" /\ call[c].asked = {} /\ kept[c] = {}
  BY DEF Init, Fresh
<1>2. \A w \in Standalone : busy[w] \notin Calls
  BY CleanupConstants DEF Init
<1> QED
  BY <1>1, <1>2, TypeInit
  DEF Inv, LockedByCur, ListInv, Listed

LEMMA InvAlways == Spec => []Inv
<1>1. Inv /\ [Next]_vars => Inv'
  BY TypeStep, ListStep DEF Inv
<1> QED
  BY <1>1, InvInit, PTL DEF Spec

\* Every reachable state of the cleanups is well typed, and a workspace's lock
\* is with the call that works on it.
THEOREM TypeCorrect == Spec => []TypeOK
<1>1. Inv => TypeOK
  BY DEF Inv
<1> QED
  BY <1>1, InvAlways, PTL

\* GetWorkspaces, which lists pods, releases and injected pods by separate
\* calls, misses no workspace that was deployed all that time, whatever
\* installs, starts, stops and deletes come in between.
THEOREM ListingsComplete == Spec => []NothingOverlooked
<1>1. Inv => NothingOverlooked
  BY DEF Inv, ListInv, Listed, NothingOverlooked, Lists
<1> QED
  BY <1>1, InvAlways, PTL
=============================================================================
