------------------------------ MODULE Discovery ------------------------------
(***************************************************************************)
(* GetWorkspaces and FindWorkspace (internal/workspace/workspace.go) over  *)
(* the listings of one replica: the API itself, the cache of listings with *)
(* its coalesced fetches (internal/helm/cache.go) and the informers        *)
(* (internal/helm/informer.go).                                            *)
(*                                                                         *)
(* The cluster is a log of versions, and a listing is the version it was   *)
(* read at: one answer may put versions of different ages together.  A     *)
(* request reads up to three listings by the same code.  The releases go   *)
(* through it step by step; for the others, which share nothing with them, *)
(* any version that code may return is taken when the answer is put        *)
(* together.  Time is in ticks, and only as the age of things: of a        *)
(* version since it was replaced, of a fetch since it began, of an entry   *)
(* since it was stored.                                                    *)
(***************************************************************************)
EXTENDS Integers, Sequences, FiniteSets, FiniteSetsExt

CONSTANTS
    Standalone, Injected,  \* workspaces with a release; those in a workload
    Place,                 \* injected workspace -> namespace of its pod
    Target, InjectNs,      \* the target namespace; InjectNamespaces
    Callers,               \* requests under way at the same time
    Requests,              \* what they ask for
    None,
    TTL,                   \* ticks an entry is served (listCacheTTL)
    FetchMax,              \* ticks a call of the API takes at most
    Changing,              \* the workspaces that change; pods of others stay
    MaxVersions            \* bound: versions of the cluster

Names == Standalone \union Injected

\* FindWorkspace and GetWorkspaces look everywhere, for a name or for all, and
\* with UseCache when they precede no change; a userstr names a standalone
\* workspace or a workload.
Everywhere == {"standalone", "injected"}
Request == [name : Names \union {None}, cached : BOOLEAN, scope : {Everywhere}]
             \union [name : Names, cached : {TRUE}, scope : {{"standalone"}}]
             \union [name : {None}, cached : {TRUE}, scope : {{"injected"}}]

ASSUME DiscoveryConstants ==
    /\ Standalone \intersect Injected = {}
    /\ Place \in [Injected -> InjectNs]
    /\ None \notin Names \union Callers
    /\ Requests \subseteq Request /\ Changing \subseteq Names
    /\ {TTL, FetchMax, MaxVersions} \subseteq Nat \ {0}
    /\ None \notin [ver : Nat, age : Nat]

VARIABLES
    log,      \* versions: deployed releases, pods, ticks since replaced
    entry,    \* the releases in the ttlCache: version and age, or None
    store,    \* the version the informer of releases holds; 0: not synced
    call,     \* the requests
    shown     \* the newest version the ttlCache has answered with

vars == <<log, entry, store, call, shown>>

\* What has not been true for longer than this is not served by the ttlCache.
Lag     == TTL - 1 + FetchMax
Now     == Len(log)
Version == [release : SUBSET Standalone, pods : SUBSET Names, past : 0..Lag + 1]

\* base, oldest and floor are what the properties compare with, where they
\* matter: the newest version when the request began, the oldest one true not
\* more than Lag before, and the newest one the ttlCache had shown to anybody.
Idle == [pc |-> "idle", req |-> None, ver |-> 0, from |-> "none", age |-> 0,
         leader |-> None, base |-> 0, oldest |-> 0, floor |-> 0]

PC     == {"idle", "look", "miss", "fetch", "store", "wait", "gather"}
Source == {"none", "api", "ttl", "informer"}
Call   == [pc : PC, req : Requests \union {None}, ver : Nat, from : Source, age : 0..FetchMax,
           leader : Callers \union {None}, base : Nat, oldest : Nat, floor : Nat]

TypeOK ==
    /\ log \in Seq(Version) /\ Len(log) \in 1..MaxVersions
    /\ entry \in [ver : 1..Now, age : 0..TTL] \union {None}
    /\ store \in 0..Now /\ shown \in 0..Now
    /\ call \in [Callers -> Call]
    /\ \A c \in Callers : {call[c].ver, call[c].base, call[c].oldest, call[c].floor} \subseteq 0..Now

Init ==
    /\ log = <<[release |-> {}, pods |-> Injected \ Changing, past |-> 0]>>
    /\ entry = None /\ store = 0 /\ shown = 0
    /\ call = [c \in Callers |-> Idle]

At(c, l)  == call[c].pc = l
Set(c, r) == call' = [call EXCEPT ![c] = r]
\* The releases are there.
Got(r, v, source) ==
    [r EXCEPT !.pc = "gather", !.ver = v, !.from = source, !.age = 0, !.leader = None]

-----------------------------------------------------------------------------
(* The cluster, the informer and time.                                     *)

\* Somebody installs, stops, starts, deletes, injects or ejects: a release
\* becomes deployed or ceases to be, or a pod comes or goes.
Change ==
    /\ Now < MaxVersions
    /\ LET v == log[Now] IN
         \/ \E w \in Changing : log' = Append(log, [v EXCEPT !.pods = SymDiff(@, {w})])
         \/ \E w \in Changing \intersect Standalone :
              log' = Append(log, [v EXCEPT !.release = SymDiff(@, {w})])
    /\ UNCHANGED <<entry, store, call, shown>>

\* The informer has listed, perhaps an old version, or its watch delivers.
Deliver ==
    /\ \E v \in (store + 1)..Now : store' = v
    /\ UNCHANGED <<log, entry, call, shown>>

Leads(c) == call[c].pc \in {"fetch", "store"}

\* Time passes, but no call of the API takes longer than FetchMax.
Tick ==
    /\ \A c \in Callers : Leads(c) => call[c].age < FetchMax
    /\ log' = [v \in 1..Now |-> IF v = Now THEN log[v]
                                ELSE [log[v] EXCEPT !.past = Min({@ + 1, Lag + 1})]]
    /\ entry' = IF entry = None THEN None ELSE [entry EXCEPT !.age = Min({@ + 1, TTL})]
    /\ call' = [c \in Callers |-> IF Leads(c) THEN [call[c] EXCEPT !.age = @ + 1] ELSE call[c]]
    /\ UNCHANGED <<store, shown>>

-----------------------------------------------------------------------------
(* A request, and its listing of the releases.                             *)

OldestServed == Min({v \in 1..Now : log[v].past <= Lag})

Begin(c) ==
    /\ At(c, "idle")
    /\ \E q \in Requests :
         Set(c, IF "standalone" \notin q.scope THEN [Idle EXCEPT !.pc = "gather", !.req = q]
                ELSE [Idle EXCEPT !.pc = "look", !.req = q,
                        !.base = IF q.cached /\ q.name = None THEN 0 ELSE Now,
                        !.floor = IF q.cached THEN shown ELSE 0,
                        !.oldest = IF q.cached THEN OldestServed ELSE 0])
    /\ UNCHANGED <<log, entry, store, shown>>

\* Without UseCache: ListReleasesBySelector.
ReadDirect(c) ==
    /\ At(c, "look") /\ ~call[c].req.cached
    /\ Set(c, Got(call[c], Now, "api"))
    /\ UNCHANGED <<log, entry, store, shown>>

\* listReleasePods, once the informer has synced.
ReadInformer(c) ==
    /\ At(c, "look") /\ call[c].req.cached /\ store > 0
    /\ Set(c, Got([call[c] EXCEPT !.oldest = 0, !.floor = 0], store, "informer"))
    /\ UNCHANGED <<log, entry, store, shown>>

LookKept(c) ==   \* mutant: an entry is served however old it is
    /\ At(c, "look") /\ call[c].req.cached /\ store = 0
    /\ IF entry # None
       THEN Set(c, Got(call[c], entry.ver, "ttl")) /\ shown' = Max({shown, entry.ver})
       ELSE Set(c, [call[c] EXCEPT !.pc = "miss"]) /\ UNCHANGED shown
    /\ UNCHANGED <<log, entry, store>>

\* getOrFetch reads the map under the read lock.
Look(c) ==
    /\ At(c, "look") /\ call[c].req.cached /\ store = 0
    /\ IF entry # None /\ (entry # None => entry.age < TTL)
       THEN Set(c, Got(call[c], entry.ver, "ttl")) /\ shown' = Max({shown, entry.ver})
       ELSE Set(c, [call[c] EXCEPT !.pc = "miss"]) /\ UNCHANGED shown
    /\ UNCHANGED <<log, entry, store>>

JoinNobody(c) ==   \* mutant: every request that misses fetches for itself
    /\ At(c, "miss")
    /\ Set(c, [call[c] EXCEPT !.pc = "fetch"])
    /\ UNCHANGED <<log, entry, store, shown>>

\* group.Do: the first to come fetches, the others wait for it.
Join(c) ==
    /\ At(c, "miss")
    /\ IF \E d \in Callers : Leads(d)
       THEN \E d \in Callers : Leads(d) /\ Set(c, [call[c] EXCEPT !.pc = "wait", !.leader = d])
       ELSE Set(c, [call[c] EXCEPT !.pc = "fetch"])
    /\ UNCHANGED <<log, entry, store, shown>>

\* The API answers the fetch.
Fetch(c) ==
    /\ At(c, "fetch")
    /\ Set(c, [call[c] EXCEPT !.pc = "store", !.ver = Now])
    /\ UNCHANGED <<log, entry, store, shown>>

\* Those who get what the fetch of c ends with.
Sharers(c) == {c} \union {d \in Callers : At(d, "wait") /\ call[d].leader = c}

\* The result is stored with the time of now, and shared.
Store(c) ==
    LET v == call[c].ver IN
    /\ At(c, "store")
    /\ entry' = [ver |-> v, age |-> 0]
    /\ shown' = Max({shown, v})
    /\ call' = [d \in Callers |-> IF d \in Sharers(c) THEN Got(call[d], v, "ttl") ELSE call[d]]
    /\ UNCHANGED <<log, store>>

\* The fetch fails, or the request it runs for is cancelled.  Nothing is
\* stored; every request that shares it fails.
FetchFails(c) ==
    /\ At(c, "fetch")
    /\ call' = [d \in Callers |-> IF d \in Sharers(c) THEN Idle ELSE call[d]]
    /\ UNCHANGED <<log, entry, store, shown>>

\* A listing that is read directly fails, or one of the other listings.
Fails(c) ==
    /\ At(c, "gather") \/ (At(c, "look") /\ ~call[c].req.cached)
    /\ Set(c, Idle)
    /\ UNCHANGED <<log, entry, store, shown>>

-----------------------------------------------------------------------------
(* The answer.                                                             *)

Wanted(c) == IF call[c].req.name = None THEN Names ELSE {call[c].req.name}

PodsOfCache(c) ==   \* mutant: the pod of one workspace comes from the cache too
    {v \in 1..Now : ~call[c].req.cached => v >= call[c].base}
\* The versions the other listings may have been read at: a pod is looked up
\* by name straight from the API, and an informer may be behind by any time.
PodVersions(c) ==
    {v \in 1..Now : ~call[c].req.cached \/ call[c].req.name # None => v >= call[c].base}
InjectedVersions(c) == {v \in 1..Now : ~call[c].req.cached => v >= call[c].base}

PodsIn(v, ns) == {w \in log[v].pods : ns = IF w \in Injected THEN Place[w] ELSE Target}

\* liveStandaloneWorkspaces: the pods of the target namespace at version v.
Live(c, v) == PodsIn(v, Target) \intersect Wanted(c)
\* stoppedWorkspaces: the releases whose name is not among those.
Stopped(c, v) == (log[call[c].ver].release \intersect Wanted(c)) \ Live(c, v)
\* The injected pods of InjectNamespaces.
InjectedAt(c, v) == {w \in Injected \intersect Wanted(c) : \E ns \in InjectNs : w \in PodsIn(v, ns)}

\* The listings are put together and sent.  FindWorkspace answers not found
\* when its name is not among them, and fails when it is there twice.
Answer(c) ==
    /\ At(c, "gather")
    /\ Set(c, Idle)
    /\ UNCHANGED <<log, entry, store, shown>>

Step(c) == \/ Begin(c) \/ ReadDirect(c) \/ ReadInformer(c) \/ Look(c) \/ Join(c) \/ Fetch(c)
           \/ Store(c) \/ FetchFails(c) \/ Fails(c) \/ Answer(c)

Next == Change \/ Deliver \/ Tick \/ \E c \in Callers : Step(c)

Spec == Init /\ [][Next]_vars

-----------------------------------------------------------------------------
(* Properties.                                                             *)

\* A request that must see what was just completed (UseCache not set) is shown
\* nothing older than itself; one that may use the ttlCache nothing that ceased
\* to be true more than an entry's lifetime and one fetch before it began,
\* also when it shares the fetch of another.
AnswerIsRecent ==
    \A c \in Callers : At(c, "gather") =>
        /\ call[c].from = "api" => call[c].ver >= call[c].base
        /\ call[c].from = "ttl" => call[c].ver >= call[c].oldest

\* Of two requests that the ttlCache serves one after the other, the second is
\* not shown an older state of the cluster than the first, however fetches,
\* failures and expiry fall.
NeverBackwards ==
    \A c \in Callers :
        At(c, "gather") /\ call[c].from = "ttl" => call[c].ver >= call[c].floor

\* What of workspace w may be in the listings of the answer to c has not
\* changed, up to now: since c began, and for the ttlCache since its oldest.
Unchanged(c, w) ==
    \A u \in 1..Now : u >= call[c].base \/ (call[c].from = "ttl" /\ u >= call[c].oldest) =>
        /\ w \in log[u].release <=> w \in log[Now].release
        /\ w \in log[u].pods <=> w \in log[Now].pods

\* The answer to c lists releases, and not from the informer.
OfReleases(c) == "standalone" \in call[c].req.scope /\ call[c].from \in {"api", "ttl"}

\* The listings of one answer are read at different times and from different
\* places, and merged by name.  Still, a request for one workspace, or one that
\* precedes a change (UseCache not set), shows a workspace that nobody is
\* changing as it is: live if and only if its pod is there, and stopped if and
\* only if its release is deployed without a pod.  An informer may be behind by
\* any time, so nothing is said of what it answers.
ShownAsItIs ==
    \A c \in Callers :
        At(c, "gather") /\ (call[c].req.cached => call[c].req.name # None) =>
          \A w \in Wanted(c) : Unchanged(c, w) =>
            /\ w \in Standalone /\ OfReleases(c) =>
                 \A v \in PodVersions(c) :
                   /\ w \in Live(c, v) <=> w \in log[Now].pods
                   /\ w \in Stopped(c, v) <=> w \in log[Now].release \ log[Now].pods
            /\ w \in Injected /\ ~call[c].req.cached =>
                 \A v \in InjectedVersions(c) :
                   w \in InjectedAt(c, v) <=> w \in log[Now].pods
=============================================================================
