----------------------------- MODULE UserCleanup -----------------------------
(***************************************************************************)
(* DeleteUserWorkspaces: the removal of all workspaces of one user in the  *)
(* background, under a lock of its own that KeepAlive renews, while other  *)
(* requests work on the same workspaces.  GetWorkspaces, which finds them, *)
(* lists pods, releases and injected pods by separate calls.  The lease of *)
(* the lock may run out at any time (the listings are not covered by       *)
(* KeepAlive, and a renewal may be late), and then a second call begins    *)
(* beside the first.                                                       *)
(*                                                                         *)
(* A workspace is what is left of it: a standalone one has a release and   *)
(* perhaps a pod, an injected one just a pod; both may have a token and a  *)
(* threat detection entry.                                                 *)
(***************************************************************************)
EXTENDS Integers, FiniteSets

CONSTANTS
    Workspaces,   \* the user's workspaces
    Injected,     \* those that are injected into a workload
    NamedById,    \* those whose name is their canonical id
    Calls,        \* calls of DeleteUserWorkspaces, on any replicas
    None,
    Modes,        \* the circumstances a behaviour may have, see mode
    MaxOthers     \* bound on the other requests

ASSUME CleanupConstants ==
    /\ Injected \subseteq NamedById /\ NamedById \subseteq Workspaces
    /\ None \notin Calls \union Workspaces
    /\ Calls \intersect {"provision", "stop", "delete"} = {}
    /\ Modes \subseteq [faulty : BOOLEAN, others : SUBSET {"provision", "stop", "delete"}]
    /\ MaxOthers \in Nat

VARIABLES
    mode,     \* fixed at the start: whether listings, deletions and renewals
              \* fail and replicas die, and what else holds workspace locks
    release,  \* workspaces with a deployed release
    pods,     \* workspaces with a pod
    pats,     \* workspaces with a token at the identity service
    threats,  \* workspaces with a detection entry, which goes by their name
    busy,     \* workspace -> who holds its lock, or None
    holder,   \* holder of the user's lock, or None
    stale,    \* the lease of the user's lock has run out
    call,     \* the calls
    kept,     \* history: what was deployed ever since a call began to list
    others    \* other requests so far

cluster == <<release, pods, pats, threats>>
vars    == <<mode, cluster, busy, holder, stale, call, kept, others>>

Fresh == [pc |-> "new", live |-> {}, stopped |-> {}, injected |-> {}, asked |-> {},
          listed |-> {}, todo |-> {}, cur |-> None, lost |-> FALSE]
Lists == {"pods", "releases", "injected"}
Standalone == Workspaces \ Injected
Failures == mode.faulty
Others   == mode.others

PC == {"new", "list", "loop", "revoke", "delete", "clear", "release", "ended", "crashed"}

Call == [pc : PC, live : SUBSET Workspaces, stopped : SUBSET Workspaces,
         injected : SUBSET Workspaces, asked : SUBSET Lists, listed : SUBSET Workspaces,
         todo : SUBSET Workspaces, cur : Workspaces \union {None}, lost : BOOLEAN]

TypeOK ==
    /\ mode \in Modes
    /\ release \subseteq Standalone /\ pods \subseteq Workspaces
    /\ pats \subseteq Workspaces /\ threats \subseteq Workspaces
    /\ busy \in [Standalone -> Calls \union Others \union {None}]
    /\ holder \in Calls \union {None} /\ stale \in BOOLEAN
    /\ call \in [Calls -> Call]
    /\ \A c \in Calls : call[c].cur # None <=> call[c].pc \in {"revoke", "delete", "clear"}
    /\ \A w \in Standalone : busy[w] \in Calls => call[busy[w]].cur = w
    /\ kept \in [Calls -> SUBSET Workspaces]
    /\ others \in 0..MaxOthers

\* Any mix of running and stopped workspaces; a stop has revoked the token.
Init ==
    /\ mode \in Modes
    /\ release = Standalone
    /\ pods \in {Injected \union s : s \in SUBSET Standalone}
    /\ pats = pods /\ threats = Workspaces
    /\ busy = [w \in Standalone |-> None]
    /\ holder = None /\ stale = FALSE
    /\ call = [c \in Calls |-> Fresh]
    /\ kept = [c \in Calls |-> {}]
    /\ others = 0

Set(c, r)  == call' = [call EXCEPT ![c] = r]
Goto(c, l) == Set(c, [call[c] EXCEPT !.pc = l])
End(c, l)  == Set(c, [Fresh EXCEPT !.pc = l, !.listed = call[c].listed])

\* What a listing is to find: the releases and the injected pods.
Deployed == release \union (pods \intersect Injected)
Keep     == kept' = [c \in Calls |-> kept[c] \intersect Deployed']
Forget(c) == kept' = [kept EXCEPT ![c] = {}]

-----------------------------------------------------------------------------
(* Other requests on a workspace: a provision or start installs it if need *)
(* be and brings its pod up with a new token, a stop takes pod and token   *)
(* away, a delete everything.  They hold its lock; an injection has none.  *)

OtherBegins(w) ==
    /\ others < MaxOthers /\ busy[w] = None
    /\ \E k \in Others : /\ k # "provision" => w \in release
                         /\ busy' = [busy EXCEPT ![w] = k]
    /\ others' = others + 1
    /\ UNCHANGED <<mode, cluster, holder, stale, call, kept>>

OtherEnds(w) ==
    /\ busy[w] \in Others
    /\ LET with(set, kinds) == IF busy[w] \in kinds THEN set \ {w}
                               ELSE IF busy[w] = "provision" THEN set \union {w} ELSE set
       IN  /\ release' = with(release, {"delete"})
           /\ pods' = with(pods, {"stop", "delete"})
           /\ pats' = with(pats, {"stop", "delete"})
           /\ threats' = with(threats, {"delete"})
    /\ busy' = [busy EXCEPT ![w] = None]
    /\ Keep
    /\ UNCHANGED <<mode, holder, stale, call, others>>

OtherInjects(w) ==
    /\ others < MaxOthers /\ "provision" \in Others
    /\ pods' = pods \union {w} /\ pats' = pats \union {w} /\ threats' = threats \union {w}
    /\ others' = others + 1
    /\ UNCHANGED <<mode, release, busy, holder, stale, call, kept>>

-----------------------------------------------------------------------------
(* The call: TryAcquire, GetWorkspaces.                                    *)

Available == holder = None \/ stale

TryAcquire(c) ==
    /\ call[c].pc = "new"
    /\ IF Available
       THEN /\ holder' = c /\ stale' = FALSE /\ Goto(c, "list")
            /\ kept' = [kept EXCEPT ![c] = Deployed]
       ELSE End(c, "ended") /\ UNCHANGED <<holder, stale, kept>>
    /\ UNCHANGED <<mode, cluster, busy, others>>

\* liveStandaloneWorkspaces.
ListPods(c) ==
    /\ call[c].pc = "list" /\ "pods" \notin call[c].asked
    /\ Set(c, [call[c] EXCEPT !.asked = @ \union {"pods"}, !.live = pods \ Injected])
    /\ UNCHANGED <<mode, cluster, busy, holder, stale, kept, others>>

ListOnlyStopped(c) ==   \* mutant: leaves out the releases whose pod runs now
    /\ call[c].pc = "list" /\ "releases" \notin call[c].asked
    /\ Set(c, [call[c] EXCEPT !.asked = @ \union {"releases"}, !.stopped = release \ pods])
    /\ UNCHANGED <<mode, cluster, busy, holder, stale, kept, others>>

\* stoppedWorkspaces: all deployed releases, whether their pod runs or not.
ListReleases(c) ==
    /\ call[c].pc = "list" /\ "releases" \notin call[c].asked
    /\ Set(c, [call[c] EXCEPT !.asked = @ \union {"releases"}, !.stopped = release])
    /\ UNCHANGED <<mode, cluster, busy, holder, stale, kept, others>>

\* The injected pods, once the other two lists are there.
ListInjected(c) ==
    /\ call[c].pc = "list" /\ call[c].asked = {"pods", "releases"}
    /\ Set(c, [call[c] EXCEPT !.asked = Lists, !.injected = pods \intersect Injected])
    /\ UNCHANGED <<mode, cluster, busy, holder, stale, kept, others>>

\* The stopped ones are added unless their name is among the live ones.  The
\* answer lists them all and the rest happens in the background.
Merge(c) ==
    LET found == call[c].live \union (call[c].stopped \ call[c].live) \union call[c].injected IN
    /\ call[c].pc = "list" /\ call[c].asked = Lists
    /\ Set(c, [Fresh EXCEPT !.pc = IF found = {} THEN "release" ELSE "loop",
                            !.listed = found, !.todo = found])
    /\ Forget(c)
    /\ UNCHANGED <<mode, cluster, busy, holder, stale, others>>

ListFails(c) ==
    /\ Failures /\ call[c].pc = "list"
    /\ Goto(c, "release") /\ Forget(c)
    /\ UNCHANGED <<mode, cluster, busy, holder, stale, others>>

-----------------------------------------------------------------------------
(* deleteUserWorkspaces.                                                   *)

\* The renewal was seen to fail: the rest is given up.
Abort(c) ==
    /\ call[c].pc = "loop" /\ call[c].lost /\ call[c].todo # {}
    /\ Goto(c, "release")
    /\ UNCHANGED <<mode, cluster, busy, holder, stale, kept, others>>

StopAtBusy(c) ==   \* mutant: returns instead of going on with the next one
    /\ call[c].pc = "loop" /\ ~call[c].lost
    /\ \E w \in call[c].todo :
         IF w \in Standalone /\ busy[w] # None
         THEN Goto(c, "release") /\ UNCHANGED busy
         ELSE /\ busy' = IF w \in Standalone THEN [busy EXCEPT ![w] = c] ELSE busy
              /\ Set(c, [call[c] EXCEPT !.pc = "revoke", !.cur = w, !.todo = @ \ {w}])
    /\ UNCHANGED <<mode, cluster, holder, stale, kept, others>>

\* DeleteWorkspacePod: the lock of a standalone workspace, or on to the next
\* when it is taken; ejectWorkspacePod works without a lock.
NextPod(c) ==
    /\ call[c].pc = "loop" /\ ~call[c].lost
    /\ \E w \in call[c].todo :
         IF w \in Standalone /\ busy[w] # None
         THEN Set(c, [call[c] EXCEPT !.todo = @ \ {w}]) /\ UNCHANGED busy
         ELSE /\ busy' = IF w \in Standalone THEN [busy EXCEPT ![w] = c] ELSE busy
              /\ Set(c, [call[c] EXCEPT !.pc = "revoke", !.cur = w, !.todo = @ \ {w}])
    /\ UNCHANGED <<mode, cluster, holder, stale, kept, others>>

\* DeleteWorkspacePATFromLabels; a failure is logged.
RevokePAT(c) ==
    /\ call[c].pc = "revoke"
    /\ \/ pats' = pats \ {call[c].cur}
       \/ Failures /\ UNCHANGED pats
    /\ Goto(c, "delete")
    /\ UNCHANGED <<mode, release, pods, threats, busy, holder, stale, kept, others>>

\* Uninstall or Eject, then the lock of the workspace is released.  A failure
\* is logged and the loop goes on.
DeletePod(c) ==
    LET w == call[c].cur IN
    /\ call[c].pc = "delete"
    /\ \/ /\ release' = release \ {w} /\ pods' = pods \ {w}
          /\ Goto(c, "clear")
       \/ /\ Failures /\ UNCHANGED <<release, pods>>
          /\ Set(c, [call[c] EXCEPT !.pc = "loop", !.cur = None])
    /\ busy' = IF w \in Standalone THEN [busy EXCEPT ![w] = None] ELSE busy
    /\ Keep
    /\ UNCHANGED <<mode, pats, threats, holder, stale, others>>

\* clearThreatDetection, by the canonical id; a failure is logged.
ClearThreat(c) ==
    /\ call[c].pc = "clear"
    /\ \/ threats' = threats \ ({call[c].cur} \intersect NamedById)
       \/ Failures /\ UNCHANGED threats
    /\ Set(c, [call[c] EXCEPT !.pc = "loop", !.cur = None])
    /\ UNCHANGED <<mode, release, pods, pats, busy, holder, stale, kept, others>>

LoopEnds(c) ==
    /\ call[c].pc = "loop" /\ call[c].todo = {}
    /\ Goto(c, "release")
    /\ UNCHANGED <<mode, cluster, busy, holder, stale, kept, others>>

\* Release deletes the lease if it is still its own.  It reads first and then
\* deletes by name, so a takeover in between deletes that of the new holder.
Release(c) ==
    /\ call[c].pc = "release"
    /\ \/ (holder = c \/ ~call[c].lost) /\ holder' = None /\ stale' = FALSE
       \/ holder # c /\ UNCHANGED <<holder, stale>>
    /\ End(c, "ended")
    /\ UNCHANGED <<mode, cluster, busy, kept, others>>

Working(c) == call[c].pc \in {"loop", "revoke", "delete", "clear"}

\* KeepAlive stops at the first renewal that fails, or that finds another
\* holder.
Renew(c) ==
    /\ Working(c) /\ ~call[c].lost
    /\ \/ holder = c /\ stale /\ stale' = FALSE /\ UNCHANGED call
       \/ /\ Failures \/ holder # c
          /\ Set(c, [call[c] EXCEPT !.lost = TRUE])
          /\ UNCHANGED stale
    /\ UNCHANGED <<mode, cluster, busy, holder, kept, others>>

LeaseRunsOut ==
    /\ holder # None /\ ~stale /\ stale' = TRUE
    /\ UNCHANGED <<mode, cluster, busy, holder, call, kept, others>>

\* The replica dies; the lock of the workspace it was at runs out.
Crash(c) ==
    /\ Failures /\ (Working(c) \/ call[c].pc \in {"list", "release"})
    /\ End(c, "crashed")
    /\ busy' = [w \in Standalone |-> IF busy[w] = c THEN None ELSE busy[w]]
    /\ Forget(c)
    /\ UNCHANGED <<mode, cluster, holder, stale, others>>

Step(c) == \/ TryAcquire(c) \/ ListPods(c) \/ ListReleases(c) \/ ListInjected(c)
           \/ Merge(c) \/ ListFails(c) \/ Abort(c) \/ NextPod(c) \/ RevokePAT(c)
           \/ DeletePod(c) \/ ClearThreat(c) \/ LoopEnds(c) \/ Release(c)

Done == (\A c \in Calls : call[c].pc \in {"ended", "crashed"}) /\ UNCHANGED vars

Next == \/ \E c \in Calls : Step(c) \/ Renew(c) \/ Crash(c)
        \/ \E w \in Standalone : OtherBegins(w) \/ OtherEnds(w)
        \/ \E w \in Injected : OtherInjects(w)
        \/ LeaseRunsOut \/ Done

Spec     == Init /\ [][Next]_vars
\* The goroutines of a live replica run, and requests end.
FairSpec == /\ Spec
            /\ \A c \in Calls : WF_vars(Step(c))
            /\ \A w \in Standalone : WF_vars(OtherEnds(w))

-----------------------------------------------------------------------------
(* Properties.                                                             *)

\* Starts and stops between the listings hide no workspace: what was deployed
\* from the first of them to the last has been found, in one or the other.
NothingOverlooked ==
    \A c \in Calls : call[c].pc = "list" /\ call[c].asked = Lists =>
        kept[c] \subseteq call[c].live \union call[c].stopped \union call[c].injected

\* What a cleanup has found is gone in the end, with its tokens and, where the
\* name is the canonical id, the detection entries, while no call fails: in
\* spite of deletes that come in between, and of a second cleanup that takes
\* over a lease that ran out and makes the first one give up.
AllAreGone ==
    <>[](mode = [faulty |-> FALSE, others |-> {"delete"}] =>
           \A c \in Calls : call[c].listed \intersect
               (release \union pods \union pats \union (threats \intersect NamedById)) = {})
=============================================================================
