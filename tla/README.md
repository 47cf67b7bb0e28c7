# TLA+ models of the k8shell provisioner

The provisioner (`src/`) is a gRPC service that creates, starts, stops, updates
and deletes developer workspaces on Kubernetes. A standalone workspace is a
Helm release with one pod; an injected workspace is a set of containers added
to an existing workload. Several replicas may run at the same time. They share
no memory: what they know of a workspace is in the Kubernetes API, in Helm's
release Secrets, in the identity service (tokens), in NATS (job and detection
records) and in a database (blueprints of organizations).

That is what makes this code hard to test. Almost every operation is a chain of
API calls, any of which can fail, be applied without an answer, or be overtaken
by another replica. The models take **one API call, one channel operation or
one critical section as one step** and let everything else happen in between.

## 1. Inventory

| Component | State it keeps | Operations | What makes it correct |
|---|---|---|---|
| Workspace lock (`workspace/lock.go`) | one Lease per workspace or user; clocks of the replicas | Acquire, TryAcquire, Renew, KeepAlive, Release | mutual exclusion; take-over only of what has run out; within its lease a Release deletes its own; Acquire returns |
| Workspace lifecycle (`workspace/provision.go`, `workspace.go`, `pat.go`; `server/lifecycle.go`, `threat.go`) | release, pod, PAT Secret, token at identity, detection entry, lock | provision, start, stop, delete, stuck delete | the running pod has the valid token; no pod without release; a deployed release can be started; a delete meets nothing newer |
| Provision stream and job (`server/provision.go`) | message channel, result channel, job record, stream | the event loop, the goroutine, client leaves | progress grows and ends at 100; messages are forwarded; job and goroutine end |
| Pod state and watch (`workspace/podstate.go`) | pod versions, events, two watch streams | AnalyzePod, Watch, watchLoop | no change is missed; ready and failed pods are seen |
| Web-proxy aliases (`workspace/alias.go`, parts of `provision.go`, `update.go`) | claim ConfigMaps with versions and age, alias of release and pod | claim, take-over, release, reconcile, install, start, update, uninstall | an alias finds the pod that carries it; claims neither leak nor are stolen |
| Resource and network updates (`workspace/update.go`, `server/update.go`) | policies, Cilium policy, labels, annotations and limits of the pod | update, install, stop, start, uninstall | success means applied; the label names the policies in force |
| Injection (`workspace/inject.go`, `helm/inject.go`, `server/watcher.go`) | workload, its resources, token, history seen by the watchers | inject, eject, watcher clean-up, other writers | an injection is not replaced; it stays intact; leftovers go |
| User clean-up (`server/lifecycle.go`, `workspace/delete.go`) | all workspaces of a user, the user's lock | DeleteUserWorkspaces, background sweep, KeepAlive | nothing overlooked; everything gone |
| Discovery and caches (`workspace/workspace.go`, `helm/informer.go`, `helm/cache.go`) | listings of pods, releases, injected pods; TTL cache; informers | GetWorkspaces, FindWorkspace, cached lists | lists read at different times show what nobody changes as it is; staleness is bounded; the cache never goes back in time |
| Queries (`workspace/query.go`, `blueprint/query.go`) | none of their own; obligations, users with a role, pages | QueryWorkspaces, QueryBlueprints | pushdown changes nothing; obligations are kept; pages cover |
| Blueprint store (`blueprint/blueprint.go`, `orgstore.go`, `resolve.go`, `revision.go`, `server/org_blueprint.go`) | map of blueprints, files, rows, revisions | load, reload, create, update, delete, resolve, provision's lookups | failed loads leave no trace; no lost update; the revision on a workspace tells whether it is current |
| Blueprint file watcher (`blueprint/watch.go`) | watches, debounce timer, rebuild goroutine | events, timer, rebuild, Close | what is on disk in the end is loaded; Close is final |
| Blueprint resolution and composition (`blueprint/resolve.go`, `compose.go`) | none | merge of a document with its template chain and repository file | precedence, no cycles, fetching and storing a document again changes nothing |
| Blueprint validation (`blueprint/validate_raw.go`, `blueprint.go`) | none | the checks of a submitted document, the checks of a loaded one | what is accepted can be loaded |
| Diffs, chart values, node pools, podman profiles, start-up | none | conversion of data | not modelled, see section 8 |

How the parts meet: the gRPC handlers in `internal/server` call
`internal/workspace`; every mutating call takes the Lease lock of the
workspace, except provision's gate, the detection entry and the whole of
injection; `runWorkspaceStream` runs an operation in a goroutine that reports
through a channel; PodWatcher feeds that channel; the InjectionWatcher and the
blueprint watcher are background goroutines that call the same functions as
the handlers; blueprints are read by provision twice (content and revision).

Hard behaviours: locks held across sleeps and watches that are longer than the
lease; gates evaluated outside the lock; writes whose answer is lost; watch
streams that are not opened again; a reload that empties a map other requests
read; timers that fire while they are stopped; and paging over a listing that
changes. `PROJECT.json` lists them line by line under `hazards`.

## 2. Modules

| Module | Models | Checked by |
|---|---|---|
| `WorkspaceMutex` | what a lock promises: enter when free, exit | as PROPERTY of `WorkspaceLock` |
| `WorkspaceLock` | the Lease protocol, implements `WorkspaceMutex` | `MCWorkspaceLock` |
| `WorkspaceLifecycle` | all requests on one standalone workspace, over the abstract lock | `MCWorkspaceLifecycle` |
| `ProvisionStream` | one stream: handler, goroutine, channels, job | `MCProvisionStream` |
| `PodState` | AnalyzePod and classifyEvent as functions | through `PodWatch` |
| `PodWatch` | Watch beside a changing pod, extends `PodState` | `MCPodWatch` |
| `AliasClaims` | alias claims of one organization | `MCAliasClaims` |
| `NetworkUpdate` | updates of one workspace's limits and policies | `MCNetworkUpdate` |
| `Injection` | requests and watchers on one workload | `MCInjection` |
| `UserCleanup` | removal of all workspaces of a user with their tokens and detection entries, and the three concurrent lists of GetWorkspaces | `MCUserCleanup` |
| `Discovery` | GetWorkspaces and FindWorkspace over the API, the listing cache and the informers | `MCDiscovery` |
| `Blueprint` | documents: merge, revision content, CEL expressions, every check | through `BlueprintStore` |
| `BlueprintStore` | the BlueprintManager of one replica, the requests on it, and the blueprint part of a provision; extends `Blueprint` | `MCBlueprintStore` |
| `BlueprintWatch` | the fsnotify watcher | `MCBlueprintWatch` |
| `WorkspaceQuery` | QueryWorkspaces and a client that pages | `MCWorkspaceQuery` |
| `WorkspaceLockProofs`, `WorkspaceLifecycleProofs`, `AliasClaimsProofs`, `NetworkUpdateProofs`, `InjectionProofs`, `UserCleanupProofs`, `DiscoveryProofs`, `BlueprintStoreProofs` | theorems about the module each is named after, which it extends; `InjectionProofs` also has those about `ProvisionStream` and `PodWatch`, `DiscoveryProofs` those about `WorkspaceQuery`, `BlueprintStoreProofs` those about `BlueprintWatch` | tlapm |

A component whose theorems stand beside another's has its own names for what
every module defines (`StreamSpec`, `PodWatchInit`, `WatchNext`, `QueryTypeOK`),
so that one module can extend both.

Composition. `WorkspaceLock` is shown to implement `WorkspaceMutex`;
`WorkspaceLifecycle` uses the lock at that level of abstraction (taking it is
one step) and adds with `Expire` what the abstraction leaves out: a lease runs
out under its holder at any time, and `overran` remembers that it did under a
live one. `UserCleanup` has the same of the user's lock (`LeaseRunsOut`). `AliasClaims`
and `NetworkUpdate` assume the same lock (the operations of one workspace run
one at a time). `PodWatch` gives what `ProvisionStream` calls "a message".
`BlueprintWatch` decides when a reload runs, `BlueprintStore` what it does, with
the documents of `Blueprint`. `BlueprintStore` also has the part of a provision
that comes before `WorkspaceLifecycle`: which blueprint is taken, and which
revision the workspace is stamped with. `Discovery` is where the listings come
from that `UserCleanup` reads without the cache and `WorkspaceQuery` with it.

### How state and actions correspond to the code

`map` in `PROJECT.json` names the source lines of every definition. The ideas:

* **WorkspaceLock.** `lease` is the Lease object with holder, renewTime and
  resourceVersion; `seen`/`kseen` are what Acquire and Renew have read and may
  be stale. `Get`, `Decide`, `Create`, `Update`, `Backoff` are the loop of
  AcquireWithOptions, `RenewGet`/`RenewStamp`/`RenewPut` is Renew inside
  KeepAlive, `ReleaseGet`/`ReleaseDelete` is Release. An Update with an old
  version is a conflict; a Delete has no precondition, as in the code. A hold
  lasts as long as it likes; `InTime` says that the lease an instance stamped
  last has not run out on any clock, and `stray` that a late Release has deleted
  the lease of another instance.
* **WorkspaceLifecycle.** A request is a program counter. Upward requests
  (provision, start) go through gate, pre-check, lock, recheck, mint, install
  or pod creation, watch, unlock; downward ones (stop, delete) through lookup,
  lock, delay, revoke, stop or uninstall, unlock. Tokens are numbers. What the code reads by two calls is read in two
  steps (release and pod in a provision's gate, and again in its pre-check), and an
  uninstall is three steps (status, pod, Secret), between any two of which it
  may stop.
* **ProvisionStream.** The `messages` channel has capacity `Cap`; the handler's
  select takes any ready case; the goroutine blocks on a full channel.
* **PodState/PodWatch.** A pod is its phase, the states of two containers, a
  restart count and a deletion mark; an event has reason, container and second.
* **AliasClaims.** A claim is a holder, a version and the time it was taken;
  `seen`, `keep`, `prev` are the local variables of claim and reconcile.
* **NetworkUpdate.** `ask` is the request, `render` what the policies are
  rendered with; each delete, create and patch is a step. `crd` says
  whether the cluster has CiliumNetworkPolicies.
* **Injection.** `workload.rv` orders writes; `res` holds the token each
  resource was written with; `history` is what the informers deliver.
* **UserCleanup.** `call[c]` is one call with the lists it has got so far; for
  each workspace it revokes the token, deletes or ejects, and clears the entry.
  `NamedById` are the workspaces whose name is the canonical id. `stale` says
  that the user's lease has run out, so that another call may begin beside the
  first, and `kept[c]` what has been deployed ever since c began to list; other
  requests provision, inject, stop and delete in between.
* **Discovery.** `log` is the history of the cluster, and a listing is the
  version it was read at. `entry` is the ttlCache's entry for the releases,
  `store` the informer's version. `Look`, `Join`, `Fetch`, `Store` and
  `FetchFails` are getOrFetch with its singleflight group. The pods and the
  injected pods go through the same code; `PodVersions` and `InjectedVersions`
  are all versions it may return, and the properties quantify over them.
* **Blueprint.** A document is a function from paths to leaves; the items of a
  list are leaves too. `Merge` is mergeYAMLNodes, `Decoded` what a list becomes
  when mergeSequenceNodes decodes and encodes it again (its tags are lost), `Show` and `Restore` are the two ways of a CEL expression to
  an editor and back, each validator is an operator of the validator's name.
* **BlueprintStore.** `cache` is `bm.rawBlueprints`; a reload swaps it for an
  empty map and fills it file by file, row by row, then resolves and validates.
  `Read`, `Stamp` and `Compose` are what a provision does; `Outdated` is
  MarkBlueprintOutdated when the workspace is listed later.
* **BlueprintWatch.** `armed`, `fired`, `flying` are the three lives of a
  reload: timer, timer function, callback. `open` says whether there is an
  fsnotify watcher, `adding` that an event loop is about to add a directory to
  it, and `unheard` that the last change is one no watch reports.
* **WorkspaceQuery.** Strings are byte sequences, so that case and wildcards
  are real; `scope` is obligationScope, `usersSeen` the pages read from
  identity; a listing arrives in any order, since it is read from a map.

## 3. Runs that pass

| Run | Instance | Shows |
|---|---|---|
| `lock` | a waiting Acquire and a TryAcquire with KeepAlive, clocks one tick apart, crashes, lost answers | holds are as long as they like: of the callers within their lease at most one holds the lock, and they implement `WorkspaceMutex`, until a late Release has deleted the lease of another; only a caller that outlasted its lease does that; take-over only of a lease that has run out; every Acquire returns |
| `lifecycle` | one provision, start, delayed stop and delete; crashes; failing reads; services away; uninstalls that stop half way | up to the first lease that runs out under a live holder: the pod's token is the valid one; no orphan pod; a deployed release can be started; from removing the release to its end a delete meets no newer release, live pod or token |
| `stream` | up to 5 messages over a channel of 2, a client that may leave | progress grows and a success ends at 100; the stream ends |
| `podwatch` | a pod with an init container, deleted and created again, pulls that fail, streams that close | a watcher that has caught up does not wait beside a pod that is up or has failed |
| `alias` | two workspaces, two aliases, two operations each, stale claims | without failures every alias on a pod finds that pod and no claim is left behind; with failures, lost answers and dead replicas a claim is deleted by its holder only |
| `network` | three updates of any kind, stops and starts, with and without Cilium | with Cilium, and without failures and stops, the label names the policies in force; in any case an update that reports success is applied |
| `injection` | two requests of two workspaces, two removals, other writers, restarts of the watcher | an injection is never replaced, and removed only by its own ejection or a user; without failures what a lost injection leaves behind goes |
| `store` | two requests of any kind, or a request and an edit, a restart; reloads may overlap; four documents to submit and 25 to compare | until two reloads have overlapped the map is valid after any failed load and holds every confirmed change; an update with an expected revision never loses another; what a create or update accepts also loads, and what loads is accepted but for fractions; a blueprint that is shown and stored again keeps its meaning, unless it inherits expressions in a list with a strategy; a workspace that is not marked outdated has what a provision would give it now |
| `watch` | six changes: files written, directories moved in, the root directory going and coming back sooner or later than the watches are rebuilt; Close at any moment | what is there in the end is loaded, unless the last change is one no watch reports; no reload runs after Close has returned |
| `cleanup` | two clean-ups of a standalone and an injected workspace, at once when a renewal is late; one other request, which may install or inject; failures, crashes | the listings miss nothing that is deployed from the first to the last of them; without failures, and among deletes only, everything listed is gone, with its token and, where the name is the id, its detection entry |
| `query` | 133 filters, with AND and with OR, under five kinds of obligation, pages of one or two, a role granted and withdrawn | nothing beyond the obligations; pushdown and paging of roles withhold nothing; patterns mean what they should; pages cover everything once, in order |
| `discovery` | two requests at a time with and without the cache, three versions of the cluster, an informer that syncs at any time, fetches that fail or are cancelled | an answer is not older than its source allows; the cache never goes back; what nobody changes meanwhile is shown as it is, running, stopped or gone |

Every property of these runs has a mutant: a changed definition, such as a dropped version check or a retry without a deadline, under which TLC finds the property
violated in the same instance.

**Calm and faulty behaviours in one run.** Some properties hold only while no
call fails, and the others must hold in spite of failures. `AliasClaims`
(`faults`), `NetworkUpdate` (`calm`, `crd`), `Injection` (`calm`) and
`UserCleanup` (`mode`) therefore choose at Init what a behaviour may meet
and keep that choice; a property of the calm behaviours names it in its
premise, the others do not. Elsewhere the
bad case is not chosen but remembered when it happens, by a history variable
the property names: `stray` in `WorkspaceLock`, `overran` in
`WorkspaceLifecycle`, `clash` in `BlueprintStore` (two reloads have overlapped
since the replica started) and `unheard` in `BlueprintWatch`.

**Why the bounds are enough.** Each bound is chosen so that the case a property
is about happens. Two lock instances suffice for any conflict over one Lease,
and the clock (`MaxTime` 4 against a lease of 2) lets a lease run out
under a live holder whose Release comes late. One request of each kind covers every pair of handlers, and `UntilOverrun` cuts the behaviours
where an overrun makes all four properties true (2.3 million states are left); a channel of two with five
messages is full and empty again; seven pod versions and four events cover
pull, failed pull, start, restart and recreation; two aliases are what a move
needs, and `MaxTime` 2 equals `Grace`, so a claim of an install that died is
taken over; three updates show the sequence class, egress, class. Two names
(template and child) and two requests give every lost-update pattern; the
submitted documents are a valid one, the stored child as an editor shows it with
its scripts in another order (so that two rows have one revision), one that is
refused and one that makes the chain circular, and `Probes` has a document for
every check. In `Discovery` an entry lives two ticks and a fetch takes up to
one, so entries expire during a fetch, and three versions are what it takes for
an answer to be newer than one request and older than another; both workspaces
change, so each is also the one nobody changes. What
is proved (section 5) holds for any number of instances, requests, workspaces
and documents.
`SYMMETRY` is used only over interchangeable values and only in runs without
liveness properties.

`CHECK_DEADLOCK FALSE` stands in configurations in which all requests are
bounded and simply end.

## 4. Fairness

Fairness is stated per process and only weakly (`WF`), for what the Go runtime
or Kubernetes guarantees: a live goroutine runs, timers fire, informers
deliver, time passes. No fairness is assumed for clients, failures, crashes,
restarts, changes of files, or a failing call to succeed. `WorkspaceLifecycle`
states no fairness and no liveness: whether a request ends depends on Watch,
which may block for ever on a full channel (section 6). In `BlueprintWatch`
the event loop, timers and callbacks are fair and the directory is not. In
`UserCleanup` the calls are fair and other requests that hold a workspace's
lock end, as each has a timeout; renewals are not fair, so a lease may have run
out at any time. `LeftoversGo` is about behaviours
without failures and restarts, because the code keeps no record of removals it
has not seen.

## 5. Theorems

Checked by tlapm for every value of the constants that meets the named
assumptions of the modules.

`WorkspaceLockProofs` (assumption `LockConstants`; any set of instances,
arbitrary clock offsets and durations):

* `TypeCorrect`: `Spec => []TypeOK`.
* `TakeoverSafe`: a lease changes hands only when it has run out on the clock
  of the instance that takes it. It needs `VersionInv` (a version names one
  value of the Lease, so a write that is not a conflict replaces exactly what
  was read) and `ClaimInv` (whoever is about to update saw an expired lease).
* `MutexHolds`, `ReleaseSafe`, `RefinesMutex`: mutual exclusion, who deletes
  whose lease, and refinement of `WorkspaceMutex`, all about the instances that
  are `InTime` and until a stray delete. No duration is assumed: a holder that
  outlasts its lease simply is no owner any more. It may still read the lease
  as its own, lose it, and then delete that of its successor; `ReleaseSafe` says
  that the first such delete comes from an instance that has outlasted its
  lease. The inductive invariant is `HeldInv`: as long as there was no stray
  delete, a holder that is in time is the one the Lease names, with the time it
  stamped last. Mutual exclusion alone is not inductive, as it does not mention
  the Lease; `HolderNotExpired` shows that nobody sees such a lease expired.

`WorkspaceLifecycleProofs` (assumption `LifecycleConstants`; any numbers of
requests). All but the first are about states before a lease ran out under a
live request (`~overran`, in the properties themselves), the case in which
`MutexHolds` says that the lock excludes.

* `LifecycleTypes`: in particular every token in the Secret, in the pod or in a
  request has been minted before.
* `PodsAreOwned`, `TokensAgree`, `DeployedStarts`, `DeletesAlone`: a live pod has
  a release, and the valid token or a revoked one; a deployed release has its
  Secret; a delete meets nothing newer. None is inductive, and none can be
  shown without the others: that a stop leaves no pod needs to know what it has
  seen, that a start mints no second token needs `NoOrphanPod`. `WorkspaceInv`
  says for every step of a request inside the lock what release, pod, Secret
  and token look like at that step, also half way through an uninstall, and
  `GuardedHolds` (whoever is inside holds a lock that is not stale) is why the
  steps of others cannot change that.


`AliasClaimsProofs` (`AliasConstants`; any workspaces, aliases, operations):

* `TypeCorrect`, and `HolderDeletes`: with any failures, lost answers and dead
  replicas a claim is deleted by its holder. `VersionInv` says that a version is
  handed out once, so the precondition of the delete meets the claim that was
  read or none.
* `AliasesFind`, `ClaimsReturned`: without failures, with `InstallMax < Grace`.
  The code's grace period (`staleAliasClaimGrace`, 5 minutes) is there for
  installs; an install that took longer would lose its claim, and TLC finds that
  when `InstallMax` is `Grace`. `CalmInv` states step by step which claims an
  operation holds, and that a claim about to be taken over belongs to a
  workspace that is sweeping it away itself: the claim is read, judged and
  replaced by three calls, and between them its owner may finish.

`NetworkUpdateProofs` (`NetworkConstants`, `NoneIsNoObject`):

* `UpdatesTakeEffect`: success means in force, whichever calls fail.
* `LabelNamesPolicy`: with Cilium, and without failures and stops, the label is
  right after any sequence of updates. `UpdateInv` and
  `CalmInv` say what has been rendered, deleted and created so far at each step
  of an update.

`InjectionProofs` (`InjectionConstants`, `StreamConstants`, `PodWatchConstants`):

* `TypeCorrect`, and `InjectionsExclude`, an action property: while the version a
  request has read is still the workload's, what it read of the annotation is
  still true (`Versions`), so an update that is no conflict replaces nothing.
* `StreamTypes`, `StreamProgresses`: for any capacity of the channel and any
  number of messages the percentages a stream has sent grow, and a success ends
  at 100. `StreamInv` says that `progressPct` has been sent and that nothing
  larger has.
* `PodWatchTypes`, `WatchMissesNothing`, `WatchSeesReady`: for any number of
  versions and events, and streams that close at any moment. `PodLog` and
  `EventLog` say what a cluster can have recorded, `Reading` where the two
  streams are. The core is `Derived`: the stage is what AnalyzePod computes from
  exactly `currentPod` and the events delivered so far, in the order some
  iteration of a map gives them. A loop that has read everything has therefore
  judged the pod as it is, and without ties the order does not matter.

`UserCleanupProofs` (`CleanupConstants`): `TypeCorrect`; and
`ListingsComplete`, for any number of calls at once: what is deployed from the
first list to the last is in the merge. It follows from `ListInv`: the
list of releases has every standalone workspace that stayed, whether its pod
ran or not at that moment, and the list of injected pods every injected one. A
workspace that is installed after the list of releases may be in none, and is
not in `kept`.

`DiscoveryProofs` (`DiscoveryConstants`; any durations, any history):

* `AnswersRecent`, `NeverShownOlder`: `EntryInv` bounds the age of what the entry
  holds by the entry's age and one fetch, and makes it the newest version ever
  shown; `OneLeader` is the promise of singleflight, without which a slow fetch
  could store an older version over a newer one; `CallInv` carries both over the
  steps of a request.
* `ShownTruly`: a request that reads the API, or asks for one workspace, shows a
  workspace that nobody changes meanwhile as running exactly if it is, and as
  stopped exactly if it is, although releases, pods and injected pods are of
  different versions: each was read after the request began (`AnswersRecent`'s
  invariant), and all versions since then agree about that workspace.

and about `WorkspaceQuery` (`QueryConstants`, `PageSizeAssumption`; any workspaces,
payloads, texts and page sizes):

* `QueryTypes`, `NeverLeaks`: nothing outside the obligations is answered.
  `LeakInv` says that the users read for a role have had it since the call began,
  and that the scope built from them allows no more than the obligations
  (`Scoped`).
* `NeverWithholds`: with `LowerCase` and while no role is withdrawn, everything
  allowed that the filters match is in an answer without pages, so neither the
  selectors pushed down nor the reading of users page by page lose anything.
  `Complete`: the users read so far include all who had the role from the
  beginning and are listed before the offset; a grant in between only moves
  others behind it.
* `GlobsCut`: the matcher's table agrees with the meaning of a pattern (the text
  can be cut into pieces, one per symbol of the pattern), for every
  pattern and text. The recursive functions are shown to exist and the
  agreement by least counterexample (`LeastNumber`), as no induction rule can be
  instantiated.
* `PagesComplete`: with `LowerCase` and `Ordered` (quantities parse, an amount
  has one spelling, and two workspaces of a cluster differ in a field of the
  sort; TLC evaluates it on the instance). `Less` is a strict total order
  (`LessOrders`, from `TextOrder` and `TextChain` for names, `QuantityOrder` for
  amounts and `AheadOrder` for one field), the insertion sort yields a list in
  that order (`SortInOrder`), and there is only one such list (`OneOrder`). The
  invariant `Paged` says that while the role stays with its holders every call
  resolves the same scope (`FullScope`) and what the client has read begins that
  list (`Walk`), whatever order the listing arrives in. `NotBefore` connects
  `Less` with the order by values that the property speaks of.

`BlueprintStoreProofs` (`StoreConstants`: finitely many names, what is submitted,
stored or read is a document, and the template it names is a name; and, in each
theorem, `NoneIsNoEntry`: None is neither an entry of the map nor the content of
a document, which cannot be evaluated, as it is about all documents; any
documents, files, rows, expressions, requests and watchers):

* `MapIsValid`, `AnswersAreCached`: until two reloads have overlapped. `MapInv`
  says that a reload has saved a map that is valid and holds every confirmed
  row (so that undoing it is harmless), that the rows it has listed include
  those of confirmed requests and its own, and what it has filled in so far.
* `StampsAreTrue`: through overlapping reloads, failed loads and restarts.
  `RevisionInv` says that a revision belongs to the merged document next to it,
  and a stamp to what was evaluated; the lemma `ContentOfEval` (evaluating
  expressions and leaving out what no revision covers commute) connects the
  revision, taken before evaluation, with the workspace, made after it.
* `UpdatesLoseNothing`: the template, the fields and the scripts of the row an
  update replaces are those its client read, in what both rows set and up
  to the tags of list items, for any changes of rows and templates in between. A revision `Covers` the row it was
  computed from, whatever template that was merged with, and two rows covered
  by one revision agree (`CoversBoth`). For scripts `DocInv` adds that every row,
  file and entry is a document and that a revision carries the named scripts of
  its row (`ScriptsIn`), and `ScriptsAgree` that two rows carried by one revision
  have the same script under a name.
* `AcceptedIsLoadable` (with `NoneIsNoDocument`): what a create or update accepts
  also loads, and what loads without a fractional number (`Whole`) is accepted,
  unless the document makes the chain circular. The two sides compute
  differently: a request merges the submitted document with the template's
  stored, already resolved entry, a load walks the chain from its end.
  `MergedChild` shows that for a child whose chain is not circular they yield
  one document, and `ChecksAgree` that the check a request has and a load has
  not, that of the owner ids, refuses nothing but fractions a load would take.
* `ViewsRoundTrip` (with `Tidy`): showing a blueprint and storing what
  was shown changes neither the merged document nor its revision, unless it
  inherits expressions in a list with a strategy (`InheritsExpressions`). `MergeAgain`: a merged
  document merged with the same template again is itself; `RestoreShown`:
  restoring what is shown undoes showing. `Tidy` says that scripts have distinct
  names and that no string of a file looks like a shown expression. Both are
  needed: of two scripts with one name the later takes the place of the first
  at the second merge, and such a string comes back as an expression. TLC
  evaluates `Tidy` on the instance.

and about `BlueprintWatch` (`WatchConstants`): `WatchTypes`, and `NoReloadAfterClose`,
which adds the action property it follows from: once Close has begun no reload
starts, so those it waits for are the last.

Left to TLC: every PROPERTY that says "eventually". The prover decides neither
fairness nor the ENABLED it is defined by.

The type invariants of the other modules are checked while the models are
changed; adding `INVARIANT TypeOK` to any configuration does so.

## 6. Where the code and its documents differ

The most important one is a constant, because the whole design rests on it: the
30-second lease is not renewed across delays of up to 60 seconds
(`server/lifecycle.go:145`), WaitForPodGone and Watch, while `src/README.md:64`
says that concurrent operations on one workspace "are prevented". They are not:
in `WorkspaceLifecycle` `Expire` ends the lease of a live holder, a second
request enters beside it, and an invariant "at most one request is inside" is
violated after a handful of steps. No property claims it. Those of run
`lifecycle` speak of the states before (`~overran`), and the properties of
`WorkspaceLock` of the callers that are within their lease.

The others were met while the models were written. Each is a behaviour of the
module named, and it is why a property carries the premise given here.

| Module | What the code does | Premise |
|---|---|---|
| `WorkspaceLock` | Release deletes by name without precondition (`lock.go:248`): a holder that overran between the get and the delete removes its successor's lease, where `lock.go:232` says that Release is a no-op when another instance holds it | `InTime`, `~stray` |
| `WorkspaceLifecycle` | Watch sends messages without looking at its context (`podstate.go:1057`, `:1071`, `:1085`): behind a full channel nobody reads it blocks for ever, with the lock held | no liveness property |
| `WorkspaceLifecycle` | an uninstall that stops half way leaves a release in status uninstalling, perhaps without its Secret (`workspace.go:1239`) | `DeployedIsStartable` is about deployed releases |
| `WorkspaceLifecycle` | deleting a stuck release leaves the token valid (`server/lifecycle.go:106`) | `DeleteIsAlone`: `user[d]` |
| `WorkspaceLifecycle` | the detection entry is stored before the lock is taken (`server/provision.go:213`) and may be cleared by a delete that ends later (`server/lifecycle.go:175`) | `DeleteIsAlone` is about release, pod and token |
| `WorkspaceLifecycle` | provision of a pod with a critical error returns an error where its comment says the pod is recycled (`workspace/provision.go:116`, `:157`) | no property |
| `ProvisionStream` | buffered messages are dropped when the result is ready (`server/provision.go:353`); an abandoned stream leaves its job running and its goroutine blocked on a full channel (`podstate.go:1057`); injection without NATS reads `job.ID` of a nil job (`server/provision.go:247`) | `StreamReturns` is about the handler |
| `PodWatch` | pull events of the same second are not ordered (`podstate.go:179`), so a ready pod may stay in stage Pulling | `ReadyIsSeen`: `NoTies` |
| `PodState` | a failed pull has no Pulled event, so the pod stays in stage Pulling until the timeout (`podstate.go:252`) | `NothingMissed` uses Stage as the code computes it |
| `AliasClaims` | a claim that is taken again keeps its old age (`alias.go:147`); a patch applied without an answer leaves an alias without claim (`update.go:307`) | `faults = {}` |
| `NetworkUpdate` | errors of Cilium calls count as "no CRD" (`update.go:589`); a start restores the pod and its label but not the policies (`provision.go:391`) | `LabelIsTrue`: `calm`, which has no stops |
| `NetworkUpdate` | without the CRD the creation of the Cilium policy is skipped for a NoMatch error only (`update.go:611`-`627`); the dynamic client answers NotFound, so the update fails after the policies were replaced | `LabelIsTrue`: `crd` |
| `NetworkUpdate` | a class-only update restores the egress of the blueprint but not its annotation (`update.go:515`) | `LabelIsTrue` is about the class |
| `Injection` | two injections of one workspace mint two tokens (`server/provision.go:169`); a late clean-up deletes the resources of a new injection (`watcher.go:150`) | `LeftoversGo` ends with a new injection |
| `Injection` | removals nobody watched are not cleaned up (`watcher.go:87`) | `LeftoversGo`: `calm` |
| `BlueprintStore` | overlapping reloads restore stale or half-filled maps (`blueprint.go:200`) | `~clash` |
| `BlueprintStore` | requests read a half-loaded map, and a create may shadow a global blueprint (`blueprint.go:201`) | `AtRest` |
| `BlueprintStore` | content and revision of a provision come from two lookups with the policy in between (`server/provision.go:590`), so a workspace may carry the revision of a blueprint it was not made from | `UnmarkedIsCurrent`: `~torn` |
| `BlueprintStore` | while a reload runs, GetBlueprint serves entries that are neither merged, nor checked, nor have a revision (`blueprint.go:201`), where the comment at `blueprint.go:197` says "atomically" | `UnmarkedIsCurrent`: the workspace has a revision |
| `BlueprintStore` | an update may make the chain of templates circular: the submitted document is merged with the stored, already merged template. It is stored, and from then on every reload and restart fails, where `validate_raw.go:444` expects the database to hold only what can be loaded | `AcceptedLoads`: `~Circular` |
| `BlueprintStore` | expected_revision covers neither description nor isTemplate, so a concurrent change of these is overwritten (`revision.go`) | `NoLostUpdate`: `SameBut` |
| `BlueprintStore` | rows whose initScripts differ may merge to one list, for instance in another order, and then have one revision (`resolve.go`): an update may replace either | `NoLostUpdate`: `SameLeaf`, `SameScripts` |
| `BlueprintStore` | ComposeWithScope checks the struct tags only, not what validateAllBlueprints checks (`compose.go`); the default for repositories may be a template | `AtRestValid` is about the map |
| `Blueprint` | entries of initScripts without a name are dropped when the template has a list, and duplicate names do not survive the merge (`resolve.go`) | the theorem on `RoundTrip`: `Tidy`; `NoLostUpdate`: `SameScripts` is about named scripts |
| `BlueprintStore` | a deleted template that is inherited from stays in the map and keeps a restarted replica from coming up (`org_blueprint.go:179`, `blueprint.go:181`) | `AnsweredIsCached` is about requests answered with success |
| `Blueprint` | the merge of a list with a strategy decodes its items and encodes them again (`resolve.go:252`-`269`), so `!cel` tags of items are lost and expressions become text; a shown view that inherits such a list comes back with another content and revision | `RoundTrip`: `~InheritsExpressions`; `NoLostUpdate` compares items without tags |
| `Blueprint` | a fractional `fsOwnerUid` is refused at submission (`blueprint.go:559`), while a load truncates and accepts it | `AcceptedLoads`: `Whole` |
| `BlueprintWatch` | files of a directory that is moved in are not loaded (`watch.go:174`), nor those of a root directory that comes back after the watches have been rebuilt, which happens two seconds after its removal whatever is there (`watch.go:234`) | `ChangesLoaded`: `~unheard` |
| `BlueprintWatch` | an event loop that adds a directory while the watches are rebuilt or closed uses a watcher that is nil and panics (`watch.go:92`, `:225`, `:282`) | both properties are about a process that lives |
| `BlueprintWatch` | Close during a rebuild leaves a loop running (`watch.go:230`) | `ClosedIsQuiet` is about reloads |
| `UserCleanup` | a workspace locked by a stop survives the clean-up (`server/lifecycle.go:285`) | `AllAreGone`: only deletes |
| `UserCleanup` | a clean-up clears the detection entry under the canonical id (`server/lifecycle.go:293`), standalone workspaces have theirs under their name (`server/threat.go:128`) | `AllAreGone`: `NamedById` |
| `UserCleanup` | a late or failed renewal lets a second clean-up start beside the first (`lock.go:221`), where `server/lifecycle.go:186` says that only one replica at a time does | no property; the others hold for clean-ups that overlap |
| `UserCleanup` | a workspace whose install is done after the list of releases may be in none of the lists (`workspace.go:246`) | `NothingOverlooked`: `kept` |
| `Discovery` | the age of an entry starts when the fetch has ended (`helm/cache.go`), so an answer lags by listCacheTTL and the duration of a fetch, where `helm/client.go:526` and `:556` say "up to listCacheTTL" | `AnswerIsRecent`: `Lag` |
| `Discovery` | a fetch runs with the context of the first caller: when that one is cancelled all who wait for it fail (`helm/cache.go:52`) | no property; `FetchFails` has it |
| `Discovery` | once an informer has synced it answers instead of the cache, and it may be behind what the cache has shown | `NeverBackwards` is about the cache |
| `Discovery` | an injected pod in the target namespace is listed twice, and FindWorkspace then fails | `ShownAsItIs` is about which workspaces are shown, not how often |
| `Discovery` | a workspace installed between the list of pods and that of releases is shown as stopped while it runs | `ShownAsItIs`: `Unchanged` |
| `Discovery` | the informers may be behind by any time, and a cached list by its lag | `ShownAsItIs`: not from an informer, and without the cache or about one workspace |
| `WorkspaceQuery` | values are pushed down case-sensitively but matched case-insensitively (`query.go:410`) | `NothingWithheld`: `LowerCase` |
| `WorkspaceQuery` | offset paging skips a user when another loses the role (`query.go:284`) | `NothingWithheld`: `revokes = 0` |
| `WorkspaceQuery` | equal quantities in two spellings are not equal to the sort (`query.go:666`) | `PagesComplete` has `Ordered`: one spelling per amount |

## 7. State of the plan

The plan went from the lock with its abstract specification over the lifecycle,
the stream, the watch, aliases, updates, injection, clean-up, blueprint store and
watcher to queries, discovery with the listing cache, and blueprint documents
with the requests of a provision on them; then to theorems, safety first. All
of it is done. Every safety
property a run checks is also a theorem; liveness stays with TLC.

## 8. Not modelled

* Rendering of chart values, manifests, diffs, environment variables, node
  pools: conversion of data without state or concurrency, of which diffs are
  text for display.
* Of validation: lines, columns and wording of the issues, and the tables of
  podman profiles. A document has at most the faults a check tells apart.
* Of documents: `!include`, labels of the
  inheritance chain, collisions of the 12 hex digits of a revision, which is
  taken to be its content; policy patches of obligations; the order in which
  GetDefaultUserBlueprint prefers names, where any choice is allowed.
* Start-up wiring, configuration, the database pool and migrations.
* Contents of messages, logs and status texts.
* Shared storages and the headless service of a workspace: created
  idempotently, and read by nothing else in this code.
* `blueprint_outdated` and the other fields of a query that are compared like
  one that is modelled; QueryBlueprints, whose filters, sort and pages are the
  same code over another listing; GetBlueprintsSummary, which counts.
* Pages of a listing sorted by a field that is not unique: the order of equal
  entries is that of a map and may differ between two calls, so `PagesCover`
  is checked, and proved under `Ordered`, for sorts that tell the workspaces of
  a cluster apart (such as those that end with the name).
* The runtime's fatal error for concurrent map access, beyond the restart in
  `BlueprintStore`.
* Lists of more than 20 workspaces, where `sort.SliceStable` merges blocks; for
  a consistent order the result is the same.

## 9. Running

    tlc -config WorkspaceLock.cfg MCWorkspaceLock
    tlapm WorkspaceLockProofs.tla

A configuration is named after the module whose MC module it belongs to;
`PROJECT.json` lists them.
