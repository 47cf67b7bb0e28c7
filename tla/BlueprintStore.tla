---------------------------- MODULE BlueprintStore ----------------------------
(***************************************************************************)
(* The BlueprintManager of one replica (internal/blueprint): the map of    *)
(* global blueprints from files and of blueprints of organizations from    *)
(* the database, its reloads, and the requests that read and change it.    *)
(*                                                                         *)
(* Documents, their inheritance and their checks are those of Blueprint.   *)
(* The model has one organization, so a key is a name and whether it is    *)
(* the organization's.  loadAndValidateBlueprints holds bm.mu only to swap *)
(* the map: each file, each row, the resolution and the validation are     *)
(* steps of their own, on whatever map is current at that step.            *)
(***************************************************************************)
EXTENDS Blueprint, FiniteSets

CONSTANTS
    Names,            \* blueprint names
    Docs,             \* what clients submit
    Probes,           \* further documents whose acceptance is compared
    Repos,            \* k8shell files of repositories
    FileDocs,         \* what a file may be changed to; None: it is removed
    Files0, Rows0,    \* files and rows when the replica starts
    Handlers,         \* requests under way at the same time
    Watchers,         \* reloads of the file watcher under way at the same time
    Operations,       \* operations clients ask for
    MaxChanges,       \* bound: requests and edits of files together
    MaxRestarts       \* bound: restarts of the replica

Provisions == {"explicit", "implicit", "default", "custom"}

\* Names has every name that a document gives its template.
TemplateIn(d) == Template(d) \in Names \union {None}

ASSUME StoreConstants ==
    /\ IsFiniteSet(Names)
    /\ \A d \in Docs \union Probes : IsDoc(d) /\ TemplateIn(Restore(d))
    /\ \A d \in Repos : IsDoc(d)
    /\ \A d \in FileDocs : d = None \/ (IsDoc(d) /\ TemplateIn(d))
    /\ \A n \in Names : /\ Files0[n] = None \/ (IsDoc(Files0[n]) /\ TemplateIn(Files0[n]))
                        /\ Rows0[n] = None \/ (IsDoc(Rows0[n]) /\ TemplateIn(Restore(Rows0[n])))
    /\ DOMAIN Files0 = Names /\ DOMAIN Rows0 = Names
    /\ Handlers \intersect Watchers = {}
    /\ Operations \subseteq {"create", "update", "replace", "delete"} \union Provisions
    /\ {MaxChanges, MaxRestarts} \subseteq Nat
    /\ None \notin BOOLEAN

VARIABLES
    files,    \* name -> document of the global blueprint, or None
    rows,     \* name -> yaml of the organization's row, or None
    cache,    \* bm.rawBlueprints
    proc,     \* requests and watcher reloads
    author,   \* name -> the request that wrote the row last, or None
    pending,  \* is the debounce timer of the file watcher armed?
    up,       \* has the manager started?
    clash,    \* has a reload begun while another one ran, since the last start?
    changes,  \* requests and edits so far
    restarts  \* restarts so far

store   == <<files, rows>>
history == <<clash, changes, restarts>>
vars    == <<store, cache, proc, author, pending, up, history>>

Procs == Handlers \union Watchers
Key   == [org : BOOLEAN, name : Names]
Glob(n)  == [org |-> FALSE, name |-> n]
OrgKey(n) == [org |-> TRUE, name |-> n]

NoMap  == [k \in Key |-> None]
NoRows == [n \in Names |-> None]

\* Nobody: a process that serves no request.
Free == [pc |-> "idle", op |-> "none", name |-> None, doc |-> None,
         base |-> None, want |-> None, seen |-> None,
         saved |-> NoMap, list |-> NoRows, todo |-> {},
         got |-> None, stamp |-> None, torn |-> FALSE, result |-> "none"]

-----------------------------------------------------------------------------
(* RawBlueprint: the template's name, the document as written and as       *)
(* merged, and the revision, which an entry has once it is resolved.       *)

Raw(d) == [tmpl |-> Template(d), own |-> None, node |-> d, rev |-> None]

ResolutionOwn(tmpl, own, node) ==   \* mutant: the revision covers the document as written
    [tmpl |-> tmpl, own |-> own, node |-> node, rev |-> Content(own)]

Resolution(tmpl, own, node) ==
    [tmpl |-> tmpl, own |-> own, node |-> node, rev |-> Content(node)]

\* A template of the organization shadows the global one of the same name.
ResolveTemplateParent(m, t) == IF m[OrgKey(t)] # None THEN OrgKey(t) ELSE Glob(t)
ParentOf(m, k) == IF k.org THEN ResolveTemplateParent(m, m[k].tmpl) ELSE Glob(m[k].tmpl)

\* resolveRawTemplate: is the chain of templates circular (longer than there
\* are keys), and the merged document, or None when a template is missing or
\* the chain is circular.
Circular(m, k) ==
    LET longer[d \in 0..Cardinality(Key)] ==
          {q \in Key : d = 0 \/ (m[q] # None /\ m[q].tmpl # None /\ ParentOf(m, q) \in longer[d - 1])}
    IN k \in longer[Cardinality(Key)]
Merged(m, k) ==
    LET f[d \in 0..Cardinality(Key)] == [q \in Key |->
          IF d = 0 \/ m[q] = None THEN None
          ELSE IF m[q].tmpl = None THEN m[q].node
          ELSE LET parent == f[d - 1][ParentOf(m, q)]
               IN IF parent = None THEN None ELSE Merge(parent, m[q].node)]
    IN f[Cardinality(Key)][k]

Resolvable(m) == \A k \in Key : m[k] # None => Merged(m, k) # None

Resolved(m) ==
    [k \in Key |-> IF m[k] = None THEN None
                   ELSE Resolution(m[k].tmpl, m[k].node, Merged(m, k))]

Valid(node) == Evaluates(node) /\ LoadChecks(Eval(node))
AllValid(m) == \A k \in Key : m[k] # None => Valid(m[k].node)

\* buildOrgRawBlueprint: a row merged with its template in the current map;
\* None when the template is not there.
Build(row) ==
    LET d      == Restore(row)
        parent == cache[ResolveTemplateParent(cache, Template(d))]
    IN IF Template(d) = None THEN Resolution(None, d, d)
       ELSE IF parent = None THEN None
       ELSE Resolution(Template(d), d, Merge(parent.node, d))

\* validateOrgBlueprintYaml: merged with its template, the document passes.
Accepts(d) ==
    LET b == Build(d)
    IN b # None /\ Evaluates(b.node) /\ SubmitChecks(Eval(b.node))

\* lookupOrgFromStore, and the map when there is no row: what GetBlueprint
\* finds, and what GetBlueprintRevision finds, for which a row that does not
\* resolve counts as missing.
Lookup(n) == IF rows[n] # None THEN Build(rows[n]) ELSE cache[Glob(n)]
Current(n) ==
    LET org == IF rows[n] # None THEN Build(rows[n]) ELSE None
    IN IF org # None THEN org ELSE cache[Glob(n)]

CurrentRevision(n) == IF Current(n) = None THEN None ELSE Current(n).rev

\* Everything files and rows hold, as a load that nothing disturbs sees it.
AllRaw == [k \in Key |-> IF k.org
    THEN IF rows[k.name] = None THEN None ELSE Raw(Restore(rows[k.name]))
    ELSE IF files[k.name] = None THEN None ELSE Raw(files[k.name])]
Loads  == Resolvable(AllRaw) /\ AllValid(Resolved(AllRaw))

-----------------------------------------------------------------------------
\* An entry has a revision exactly when it has been resolved, and it is the
\* revision of its merged document.
IsEntry(e) == e = None \/ (IsDoc(e.node) /\ (IF e.own = None THEN e.rev = None ELSE e.rev = Content(e.node)))

TypeOK ==
    /\ \A n \in Names : (files[n] = None \/ IsDoc(files[n])) /\ (rows[n] = None \/ IsDoc(rows[n]))
    /\ \A k \in Key : IsEntry(cache[k])
    /\ author \in [Names -> Procs \union {None}]
    /\ {pending, up, clash} \subseteq BOOLEAN
    /\ changes \in 0..MaxChanges /\ restarts \in 0..MaxRestarts
    /\ DOMAIN proc = Procs
    /\ \A p \in Procs :
         /\ proc[p].pc \in {"idle", "validate", "global", "check", "write", "pick", "read", "stamp",
                            "begin", "files", "list", "rows", "resolve", "verify", "undo"}
         /\ \A k \in Key : IsEntry(proc[p].saved[k])
         /\ proc[p].todo \subseteq Names
         /\ proc[p].result \in {"none", "ok", "refused", "stale"}

\* NewBlueprintManager: the replica starts with a map that loads.
Init ==
    /\ files = Files0 /\ rows = Rows0
    /\ Loads /\ cache = Resolved(AllRaw)
    /\ proc = [p \in Procs |-> Free]
    /\ author = NoRows
    /\ pending = FALSE /\ up = TRUE
    /\ clash = FALSE /\ changes = 0 /\ restarts = 0

Set(p, r)     == proc' = [proc EXCEPT ![p] = r]
Goto(p, l)    == Set(p, [proc[p] EXCEPT !.pc = l])
\* The request is answered; its variables are gone.
End(p, res)   == Set(p, [Free EXCEPT !.op = proc[p].op, !.name = proc[p].name,
                            !.doc = proc[p].doc, !.got = proc[p].got,
                            !.stamp = proc[p].stamp, !.torn = proc[p].torn, !.result = res])
Reloading(p)  == proc[p].pc \in {"files", "list", "rows", "resolve", "verify", "undo"}

-----------------------------------------------------------------------------
(* loadAndValidateBlueprints.                                              *)

\* The current map becomes the one to go back to; an empty one takes its place.
Begin(p) ==
    /\ proc[p].pc = "begin"
    /\ Set(p, [proc[p] EXCEPT !.pc = "files", !.saved = cache, !.todo = Names])
    /\ cache' = NoMap
    /\ clash' = (clash \/ \E q \in Procs : Reloading(q))
    /\ UNCHANGED <<store, author, pending, up, changes, restarts>>

\* loadRawBlueprints: one file.  A name that is there already is an error.
LoadFile(p) ==
    /\ proc[p].pc = "files"
    /\ \E n \in proc[p].todo :
         IF files[n] # None /\ cache[Glob(n)] # None
         THEN Goto(p, "undo") /\ UNCHANGED cache
         ELSE /\ cache' = IF files[n] = None THEN cache
                          ELSE [cache EXCEPT ![Glob(n)] = Raw(files[n])]
              /\ Set(p, [proc[p] EXCEPT !.todo = @ \ {n},
                                        !.pc = IF proc[p].todo = {n} THEN "list" ELSE "files"])
    /\ UNCHANGED <<store, author, pending, up, history>>

\* loadOrgBlueprints: the rows as one query returns them...
ListRows(p) ==
    /\ proc[p].pc = "list"
    /\ LET there == {n \in Names : rows[n] # None}
       IN Set(p, [proc[p] EXCEPT !.list = rows, !.todo = there,
                                 !.pc = IF there = {} THEN "resolve" ELSE "rows"])
    /\ UNCHANGED <<store, cache, author, pending, up, history>>

\* ... and one of them put into the map, without the lock.
LoadRow(p) ==
    /\ proc[p].pc = "rows"
    /\ \E n \in proc[p].todo :
         IF cache[OrgKey(n)] # None
         THEN Goto(p, "undo") /\ UNCHANGED cache
         ELSE /\ cache' = [cache EXCEPT ![OrgKey(n)] = Raw(Restore(proc[p].list[n]))]
              /\ Set(p, [proc[p] EXCEPT !.todo = @ \ {n},
                              !.pc = IF proc[p].todo = {n} THEN "resolve" ELSE "rows"])
    /\ UNCHANGED <<store, author, pending, up, history>>

\* resolveInheritance replaces the map by the resolved one.
Resolve(p) ==
    /\ proc[p].pc = "resolve"
    /\ IF Resolvable(cache)
       THEN cache' = Resolved(cache) /\ Goto(p, "verify")
       ELSE Goto(p, "undo") /\ UNCHANGED cache
    /\ UNCHANGED <<store, author, pending, up, history>>

\* validateAllBlueprints, on the map of this moment; the handler answers.
Verify(p) ==
    /\ proc[p].pc = "verify"
    /\ IF AllValid(cache) THEN End(p, "ok") ELSE Goto(p, "undo")
    /\ UNCHANGED <<store, cache, author, pending, up, history>>

KeepPartial(p) ==   \* mutant: an error leaves the map as it is
    /\ proc[p].pc = "undo"
    /\ End(p, "stale")
    /\ UNCHANGED <<store, cache, author, pending, up, history>>

\* The deferred function of a failed load restores the map it found; the
\* handler answers that the change is stored and the reload failed.
Undo(p) ==
    /\ proc[p].pc = "undo"
    /\ cache' = proc[p].saved
    /\ End(p, "stale")
    /\ UNCHANGED <<store, author, pending, up, history>>

-----------------------------------------------------------------------------
(* CreateBlueprint, UpdateBlueprint ("update" with an expected revision,   *)
(* "replace" without) and DeleteBlueprint.                                 *)

\* A request arrives.  The client of an update has read the blueprint and
\* its revision before (GetRawBlueprintScoped).
Ask(h) ==
    /\ up /\ proc[h].pc = "idle" /\ changes < MaxChanges
    /\ \E op \in Operations, n \in Names :
         \/ /\ op \in {"delete", "explicit", "default"}
            /\ Set(h, [Free EXCEPT !.pc = IF op = "delete" THEN "write" ELSE "read",
                                   !.op = op, !.name = n])
         \/ /\ op \in {"create", "replace"}
            /\ \E d \in Docs : Set(h, [Free EXCEPT !.pc = "validate", !.op = op, !.name = n, !.doc = d])
         \/ /\ op = "update" /\ rows[n] # None /\ Build(rows[n]) # None
            /\ \E d \in Docs :
                 Set(h, [Free EXCEPT !.pc = "validate", !.op = op, !.name = n, !.doc = d,
                                     !.base = rows[n], !.want = Build(rows[n]).rev])
         \/ op = "implicit" /\ Set(h, [Free EXCEPT !.pc = "pick", !.op = op])
         \/ /\ op = "custom"
            /\ \E d \in Repos : Set(h, [Free EXCEPT !.pc = "read", !.op = op, !.doc = d,
                                                    !.name = Template(d)])
    /\ changes' = changes + 1
    /\ UNCHANGED <<store, cache, author, pending, up, clash, restarts>>

\* validateOrgBlueprintYaml; what goes on is the canonical document.
Validate(h) ==
    /\ proc[h].pc = "validate"
    /\ IF ~Accepts(proc[h].doc) THEN End(h, "refused")
       ELSE Set(h, [proc[h] EXCEPT !.doc = Restore(@),
                      !.pc = CASE proc[h].op = "create" -> "global"
                               [] proc[h].op = "update" -> "check"
                               [] OTHER                 -> "write"])
    /\ UNCHANGED <<store, cache, author, pending, up, history>>

\* HasGlobalBlueprint.
CheckGlobal(h) ==
    /\ proc[h].pc = "global"
    /\ IF cache[Glob(proc[h].name)] # None THEN End(h, "refused") ELSE Goto(h, "write")
    /\ UNCHANGED <<store, cache, author, pending, up, history>>

\* The stored row must have the revision the client expects.
CheckRevision(h) ==
    /\ proc[h].pc = "check"
    /\ LET d == rows[proc[h].name]
       IN IF d # None /\ Build(d) # None /\ Build(d).rev = proc[h].want
          THEN Set(h, [proc[h] EXCEPT !.seen = d, !.pc = "write"])
          ELSE End(h, "refused")
    /\ UNCHANGED <<store, cache, author, pending, up, history>>

WriteUnchecked(h) ==   \* mutant: the update does not compare the yaml
    LET n == proc[h].name IN
    /\ proc[h].pc = "write"
    /\ IF proc[h].op = "create" <=> rows[n] # None
       THEN End(h, "refused") /\ UNCHANGED <<rows, author>>
       ELSE /\ rows' = [rows EXCEPT ![n] = proc[h].doc]
            /\ author' = [author EXCEPT ![n] = h]
            /\ Goto(h, "begin")
    /\ UNCHANGED <<files, cache, pending, up, history>>

WriteLate(h) ==   \* mutant: the reload is left to the file watcher
    LET n == proc[h].name IN
    /\ proc[h].pc = "write"
    /\ IF \/ proc[h].op = "create" <=> rows[n] # None
          \/ proc[h].seen # None /\ rows[n] # proc[h].seen
       THEN End(h, "refused") /\ UNCHANGED <<rows, author>>
       ELSE /\ rows' = [rows EXCEPT ![n] = proc[h].doc]
            /\ author' = [author EXCEPT ![n] = h]
            /\ End(h, "ok")
    /\ UNCHANGED <<files, cache, pending, up, history>>

\* INSERT, UPDATE ... WHERE yaml = the yaml seen, or DELETE.
Write(h) ==
    LET n == proc[h].name IN
    /\ proc[h].pc = "write"
    /\ IF \/ proc[h].op = "create" <=> rows[n] # None
          \/ proc[h].seen # None /\ rows[n] # proc[h].seen
       THEN End(h, "refused") /\ UNCHANGED <<rows, author>>
       ELSE /\ rows' = [rows EXCEPT ![n] = proc[h].doc]
            /\ author' = [author EXCEPT ![n] = h]
            /\ Goto(h, "begin")
    /\ UNCHANGED <<files, cache, pending, up, history>>

-----------------------------------------------------------------------------
(* The blueprint of a provision (prepareWorkspaceWithUserStr): named by    *)
(* the user ("explicit"), picked for the user ("implicit"), of a           *)
(* repository ("custom"), or of one without a k8shell file ("default").    *)

\* GetDefaultUserBlueprint: some global blueprint that is no template.  Names
\* have no order here, and the user may use every global one.
Pick(h) ==
    /\ proc[h].pc = "pick"
    /\ LET choices == {n \in Names : cache[Glob(n)] # None /\ ~IsTemplate(cache[Glob(n)].node)}
       IN IF choices = {} THEN End(h, "refused")
          ELSE \E n \in choices : Set(h, [proc[h] EXCEPT !.name = n, !.pc = "read"])
    /\ UNCHANGED <<store, cache, author, pending, up, history>>

\* GetBlueprint evaluates the blueprint of that name; a template is for the
\* default of repositories only.
Read(h) ==
    LET found == Lookup(proc[h].name) IN
    /\ proc[h].pc = "read" /\ proc[h].op # "custom"
    /\ IF \/ found = None
          \/ ~Evaluates(found.node) \/ ~Decodes(Eval(found.node))
          \/ IsTemplate(found.node) /\ proc[h].op # "default"
       THEN End(h, "refused")
       ELSE Set(h, [proc[h] EXCEPT !.pc = "stamp", !.seen = found, !.got = Eval(found.node)])
    /\ UNCHANGED <<store, cache, author, pending, up, history>>

\* ComposeWithScope merges the file of the repository with its template and
\* checks the tags; the revision is the composed document's.  An empty map
\* composes nothing.
Compose(h) ==
    LET found == Lookup(proc[h].name)
        node  == Merge(found.node, proc[h].doc) IN
    /\ proc[h].pc = "read" /\ proc[h].op = "custom"
    /\ IF \/ cache = NoMap \/ found = None
          \/ ~Evaluates(node) \/ ~Decodes(Eval(node)) \/ ~StructTags(Eval(node))
       THEN End(h, "refused")
       ELSE Set(h, [Free EXCEPT !.op = "custom", !.name = proc[h].name, !.doc = proc[h].doc,
                                !.got = Eval(node), !.stamp = Content(node), !.result = "ok"])
    /\ UNCHANGED <<store, cache, author, pending, up, history>>

\* GetBlueprintRevision looks the blueprint up again, after the policy has
\* been asked.  torn records whether GetBlueprint would find another one now.
Stamp(h) ==
    LET n == proc[h].name IN
    /\ proc[h].pc = "stamp"
    /\ Set(h, [Free EXCEPT !.op = proc[h].op, !.name = n, !.got = proc[h].got,
                           !.torn = (Lookup(n) # proc[h].seen),
                           !.stamp = CurrentRevision(n), !.result = "ok"])
    /\ UNCHANGED <<store, cache, author, pending, up, history>>

\* A service fails, the user may not use the blueprint, the policy denies it,
\* or the organization has no nodes: the provision ends without a workspace.
Deny(h) ==
    /\ proc[h].pc \in {"pick", "read", "stamp"}
    /\ Set(h, [Free EXCEPT !.op = proc[h].op, !.name = proc[h].name, !.result = "refused"])
    /\ UNCHANGED <<store, cache, author, pending, up, history>>

\* MarkBlueprintOutdated, when the workspace of h is listed; None when that
\* cannot be told: no revision, no blueprint, or a repository's workspace.
Outdated(h) ==
    LET rev == CurrentRevision(proc[h].name) IN
    IF proc[h].op \in {"explicit", "implicit"} /\ proc[h].stamp # None /\ rev # None
    THEN rev # proc[h].stamp ELSE None

-----------------------------------------------------------------------------
(* Files, the timer of the watcher, and restarts.                          *)

EditFile ==
    /\ changes < MaxChanges
    /\ \E n \in Names, d \in FileDocs :
         files[n] # d /\ files' = [files EXCEPT ![n] = d]
    /\ changes' = changes + 1 /\ pending' = TRUE
    /\ UNCHANGED <<rows, cache, proc, author, up, clash, restarts>>

WatchReload(w) ==
    /\ up /\ pending /\ proc[w].pc = "idle"
    /\ pending' = FALSE
    /\ Set(w, [Free EXCEPT !.pc = "begin", !.op = "watch"])
    /\ UNCHANGED <<store, cache, author, up, history>>

\* The replica dies; its successor starts if everything loads.
Restart ==
    /\ restarts < MaxRestarts
    /\ restarts' = restarts + 1
    /\ proc' = [p \in Procs |-> Free]
    /\ cache' = IF Loads THEN Resolved(AllRaw) ELSE NoMap
    /\ up' = Loads
    /\ pending' = FALSE /\ clash' = FALSE
    /\ UNCHANGED <<store, author, changes>>

Quiet == (\A p \in Procs : proc[p].pc = "idle") /\ UNCHANGED vars

Reload(p)  == \/ Begin(p) \/ LoadFile(p) \/ ListRows(p) \/ LoadRow(p)
              \/ Resolve(p) \/ Verify(p) \/ Undo(p)
Request(h) == \/ Ask(h) \/ Validate(h) \/ CheckGlobal(h) \/ CheckRevision(h)
              \/ Write(h) \/ Pick(h) \/ Read(h) \/ Compose(h) \/ Stamp(h) \/ Deny(h)

Next == \/ \E p \in Procs : Reload(p)
        \/ \E h \in Handlers : Request(h)
        \/ \E w \in Watchers : WatchReload(w)
        \/ EditFile \/ Restart \/ Quiet

Spec == Init /\ [][Next]_vars

-----------------------------------------------------------------------------
(* Properties.                                                             *)

AtRest  == up /\ ~\E p \in Procs : Reloading(p)
Ended(h, res) == proc[h].pc = "idle" /\ proc[h].result = res

\* As long as no two reloads have overlapped: whenever none runs, the map
\* holds only blueprints that were merged with their templates and whose
\* merged document passes every check of validateAllBlueprints, so a load that
\* fails half way leaves no trace in it.
AtRestValid ==
    ~clash /\ AtRest =>
        \A k \in Key : cache[k] # None => cache[k].rev # None /\ Valid(cache[k].node)

\* As long as no two reloads have overlapped: once a create, update or delete
\* has been answered with success and its row has not been written since, the
\* map holds exactly that row as a template.
AnsweredIsCached ==
    ~clash /\ AtRest => \A h \in Handlers, n \in Names :
        author[n] = h /\ Ended(h, "ok") /\ proc[h].op \notin Provisions /\ proc[h].name = n =>
            IF rows[n] = None THEN cache[OrgKey(n)] = None
            ELSE cache[OrgKey(n)] # None /\ cache[OrgKey(n)].own = Restore(rows[n])

\* An update with an expected revision replaces the document its client read,
\* or one that differs only in what it leaves to the template, in scripts that
\* merge to the same list, in tags of list items that merging drops, and in
\* what no revision covers: whatever was written in between is never lost.
IsScripts(q, leaf) == Last(q) = "initScripts" /\ leaf.kind = "seq"
Untagged(leaf) == IF leaf.kind = "seq" THEN List(Decoded(leaf.items)) ELSE leaf
SameLeaf(q, a, b) ==
    \/ a = b
    \/ Strategic(q) /\ Untagged(a) = Untagged(b)
    \/ IsScripts(q, a) /\ IsScripts(q, b)
SameFields(d, e) ==
    /\ Template(d) = Template(e)
    /\ \A q \in DOMAIN Content(d) \intersect DOMAIN Content(e) : SameLeaf(q, d[q], e[q])
Distinct(s) == \A i, j \in DOMAIN s : s[i].name = s[j].name => i = j
SameScripts(s, t) ==
    Distinct(s) /\ Distinct(t) =>
        \A i \in DOMAIN s, j \in DOMAIN t : s[i].name = t[j].name /\ s[i].name # Unnamed => s[i] = t[j]
SameBut(d, e) ==
    /\ SameFields(d, e)
    /\ \A q \in DOMAIN Content(d) \intersect DOMAIN Content(e) :
         IsScripts(q, d[q]) /\ IsScripts(q, e[q]) =>
             SameScripts(Decoded(d[q].items), Decoded(e[q].items))
NoLostUpdate ==
    [][\A h \in Handlers :
         proc[h].op = "update" /\ proc[h].pc = "write" /\ proc'[h].pc = "begin" =>
             /\ rows[proc[h].name] # None
             /\ SameBut(Restore(rows[proc[h].name]), Restore(proc[h].base))]_vars

\* validateRawBlueprint judges a document with its template's resolved
\* definition "exactly as it would be for a blueprint loaded from disk": while
\* the map is what files and rows say, what it accepts under a name resolves
\* and validates in a load with that row, and what resolves and validates it
\* accepts, but for numbers that are no integers; unless the document's
\* templates lead back to itself, which it does not notice.
InSync == AtRest /\ Resolvable(AllRaw) /\ cache = Resolved(AllRaw)
Whole(b) == \A q \in DOMAIN b : Text(b, q) # Fraction
AcceptedLoads ==
    InSync => \A n \in Names, d \in Docs \union Probes :
        LET m == [AllRaw EXCEPT ![OrgKey(n)] = Raw(Restore(d))]
            b == Merged(m, OrgKey(n)) IN
        ~Circular(m, OrgKey(n)) =>
            /\ Accepts(d) => b # None /\ Valid(b)
            /\ b # None /\ Valid(b) /\ Whole(Eval(b)) => Accepts(d)

\* Documents of which a merged view can be sent back: in a list of scripts
\* every name is given once, or the last of them would take the place of the
\* first, and no file has a string that looks like a shown expression.
NamesOnce(s) == \A i, j \in DOMAIN s : s[i].name = s[j].name /\ s[i].name # Unnamed => i = j
OnceNamed(d) == \A q \in DOMAIN d : IsScripts(q, d[q]) => NamesOnce(d[q].items)
Tagged(d) == \A q \in DOMAIN d :
    d[q].kind # "shown" /\ (d[q].kind = "seq" => \A i \in DOMAIN d[q].items : d[q].items[i].kind # "shown")
Tidy ==
    /\ \A d \in Docs : OnceNamed(d)
    /\ \A d \in FileDocs : d = None \/ (OnceNamed(d) /\ Tagged(d))
    /\ \A n \in Names : /\ Files0[n] = None \/ (OnceNamed(Files0[n]) /\ Tagged(Files0[n]))
                        /\ Rows0[n] = None \/ OnceNamed(Rows0[n])

\* A list with a strategy that a row has from its template alone, and in it an
\* expression: the row that is sent back sets the list as well, and merging the
\* two drops the tag.
InheritsExpressions(row) ==
    \E q \in DOMAIN Build(row).node \ DOMAIN row :
        /\ Strategic(q) /\ Build(row).node[q].kind = "seq"
        /\ Expressions(Build(row).node[q]) # {}

\* mergeSequenceNodes: a merged view is safe "to feed back in as a new own
\* submission while template: is still set".  A client that submits the merged
\* view it was shown, expressions as it was shown them, changes neither the
\* merged document nor its revision, unless it inherits a list with a strategy
\* that has expressions.
RoundTrip ==
    \A n \in Names :
        rows[n] # None /\ Build(rows[n]) # None /\ ~InheritsExpressions(rows[n]) =>
            Build(Show(Build(rows[n]).node)).node = Build(rows[n]).node

\* MarkBlueprintOutdated: a workspace that is shown as up to date with its
\* blueprint was provisioned from what the blueprint says now, templates
\* included, unless the blueprint changed between the two lookups of its
\* provision.
UnmarkedIsCurrent ==
    \A h \in Handlers :
        LET n == proc[h].name IN
        Ended(h, "ok") /\ Outdated(h) = FALSE /\ ~proc[h].torn /\ Lookup(n) # None
        => Content(Eval(Lookup(n).node)) = Content(proc[h].got)
=============================================================================
