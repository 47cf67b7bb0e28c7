----------------------------- MODULE AliasClaims -----------------------------
(***************************************************************************)
(* The web-proxy aliases of one organization: the ConfigMap claims of      *)
(* internal/workspace/alias.go and the operations that take, move and give *)
(* them back, in internal/workspace/provision.go and update.go.  Several   *)
(* workspaces compete for the aliases; the operations of one workspace run *)
(* one at a time, under its workspace lock.  Every API call is a step.     *)
(* An alias that is no DNS label is treated like none at all, so only      *)
(* valid ones are modelled.                                                *)
(***************************************************************************)
EXTENDS Integers, FiniteSets

CONSTANTS
    Workspaces,
    Aliases,
    NoAlias,      \* a pod, a release or a request without an alias
    Absent,       \* no pod, no release, no holder
    Grace,        \* staleAliasClaimGrace (5 minutes in the code)
    Attempts,     \* aliasClaimAttempts (3 in the code)
    FaultModes,   \* the kinds of faults a behaviour may meet, see faults
    InstallMax,   \* longest time from claiming an alias to the release
    MaxTime,      \* bound: the clock stops here
    MaxOps        \* bound: operations of one workspace

ASSUME AliasConstants ==
    /\ NoAlias \notin Aliases /\ Absent \notin Aliases \union Workspaces \union {NoAlias}
    /\ FaultModes \subseteq SUBSET {"fail", "lost"}
    /\ {Grace, InstallMax, MaxTime, MaxOps} \subseteq Nat
    /\ Attempts \in Nat \ {0}

VARIABLES
    faults,   \* what may go wrong, fixed at the start: calls that "fail" and
              \* replicas that die, writes whose answer is "lost"
    now,      \* the clock claimedAt is taken from
    claims,   \* the claim ConfigMap of each alias
    rvs,      \* the last resource version handed out
    release,  \* alias in each workspace's release manifest
    pod,      \* alias label of each workspace's pod
    ops,      \* operations begun by each workspace
    kind,     \* the operation each workspace is in
    pc,       \* where that operation is
    want,     \* the alias it asks for
    keep,     \* the claim it keeps
    prev,     \* the claim an update found on the pod
    seen,     \* the claim it read
    tries,    \* attempts of claim that are left
    since,    \* when it began to hold its claim
    todo      \* claims it is about to delete, as they were listed

world == <<claims, rvs, release, pod>>
local == <<ops, kind, want, keep, prev, seen, tries, since, todo>>
vars  == <<faults, now, world, pc, local>>

Alias   == Aliases \union {NoAlias}
Claim   == [holder : Workspaces \union {Absent}, at : Nat, rv : Nat]
NoClaim == [holder |-> Absent, at |-> 0, rv |-> 0]
PC      == {"idle", "create", "get", "check", "take", "steps", "patch",
            "list", "drop", "apply", "uninstall", "sweep"}

TypeOK ==
    /\ faults \in FaultModes
    /\ now \in Nat /\ rvs \in Nat
    /\ claims \in [Aliases -> Claim]
    /\ release \in [Workspaces -> Alias \union {Absent}]
    /\ pod \in [Workspaces -> Alias \union {Absent}]
    /\ ops \in [Workspaces -> Nat]
    /\ kind \in [Workspaces -> {"none", "install", "start", "update", "delete"}]
    /\ pc \in [Workspaces -> PC]
    /\ want \in [Workspaces -> Alias]
    /\ keep \in [Workspaces -> Alias] /\ prev \in [Workspaces -> Alias]
    /\ seen \in [Workspaces -> Claim]
    /\ tries \in [Workspaces -> 0..Attempts]
    /\ since \in [Workspaces -> Nat]
    /\ todo \in [Workspaces -> SUBSET [alias : Aliases, rv : Nat]]

Init ==
    /\ faults \in FaultModes
    /\ now = 0 /\ rvs = 0
    /\ claims = [a \in Aliases |-> NoClaim]
    /\ release = [w \in Workspaces |-> Absent]
    /\ pod = [w \in Workspaces |-> Absent]
    /\ ops = [w \in Workspaces |-> 0]
    /\ kind = [w \in Workspaces |-> "none"]
    /\ pc = [w \in Workspaces |-> "idle"]
    /\ want = [w \in Workspaces |-> NoAlias]
    /\ keep = [w \in Workspaces |-> NoAlias]
    /\ prev = [w \in Workspaces |-> NoAlias]
    /\ seen = [w \in Workspaces |-> NoClaim]
    /\ tries = [w \in Workspaces |-> 0]
    /\ since = [w \in Workspaces |-> 0]
    /\ todo = [w \in Workspaces |-> {}]

-----------------------------------------------------------------------------
(* Helpers.                                                                *)

Failures    == "fail" \in faults   \* a call may fail and a replica may die
LostAnswers == "lost" \in faults   \* a write may be applied although its call fails

Goto(w, p) == pc' = [pc EXCEPT ![w] = p]
Held(w)    == {a \in Aliases : claims[a].holder = w}

\* The operation returns; its leftovers do not matter any more.
Return(w) ==
    /\ Goto(w, "idle")
    /\ kind' = [kind EXCEPT ![w] = "none"]

WriteClaim(w, a) ==
    /\ claims' = [claims EXCEPT ![a] = [holder |-> w, at |-> now, rv |-> rvs + 1]]
    /\ rvs' = rvs + 1

\* An operation begins: claim the alias it wants, if any.
Begin(w, k, a) ==
    /\ pc[w] = "idle" /\ ops[w] < MaxOps
    /\ ops' = [ops EXCEPT ![w] = @ + 1]
    /\ kind' = [kind EXCEPT ![w] = k]
    /\ want' = [want EXCEPT ![w] = a]
    /\ tries' = [tries EXCEPT ![w] = Attempts]
    /\ prev' = [prev EXCEPT ![w] = IF k = "update" THEN pod[w] ELSE NoAlias]
    /\ keep' = [keep EXCEPT ![w] = NoAlias]
    /\ Goto(w, IF a # NoAlias THEN "create" ELSE IF k = "update" THEN "steps" ELSE "list")
    /\ UNCHANGED <<faults, now, world, seen, since, todo>>

\* claim returned: an update goes on to its other steps, a reconcile to
\* releasing the other claims.
Claimed(w) ==
    /\ keep' = [keep EXCEPT ![w] = want[w]]
    /\ since' = [since EXCEPT ![w] = now]
    /\ Goto(w, IF kind[w] = "update" THEN "steps" ELSE "list")
    /\ UNCHANGED <<kind, tries>>

\* Another workspace holds the alias: an update fails, a reconcile goes on
\* without an alias.
HeldByOther(w) ==
    /\ IF kind[w] = "update" THEN Return(w) ELSE Goto(w, "list") /\ UNCHANGED kind
    /\ UNCHANGED <<keep, since, tries>>

\* The next attempt, or "too many concurrent claimers".
Again(w) ==
    /\ tries' = [tries EXCEPT ![w] = @ - 1]
    /\ IF tries[w] > 1 THEN Goto(w, "create") /\ UNCHANGED kind ELSE Return(w)
    /\ UNCHANGED <<keep, since>>

Fail(w) == Return(w) /\ UNCHANGED <<keep, since, tries>>

-----------------------------------------------------------------------------
(* The operations: install, start, update; stop and delete.                *)

\* doInstallation, with the blueprint's alias; there is no release.
Install(w) ==
    /\ release[w] = Absent
    /\ \E a \in Alias : Begin(w, "install", a)

\* doStart, with the alias of the release manifest; there is no pod.
Start(w) ==
    /\ release[w] # Absent /\ pod[w] = Absent
    /\ Begin(w, "start", release[w])

\* prepareWebProxyUpdate: the update sets an alias, or clears it alone or
\* together with the route.
UpdateAlias(w) ==
    /\ release[w] # Absent /\ pod[w] # Absent
    /\ \E a \in Alias : Begin(w, "update", a)

\* StopPod: the release, and with it the claim, stays.
Stop(w) ==
    /\ pc[w] = "idle" /\ pod[w] # Absent
    /\ pod' = [pod EXCEPT ![w] = Absent]
    /\ UNCHANGED <<faults, now, claims, rvs, release, pc, local>>

Delete(w) ==
    /\ pc[w] = "idle" /\ release[w] # Absent
    /\ kind' = [kind EXCEPT ![w] = "delete"]
    /\ Goto(w, "uninstall")
    /\ UNCHANGED <<faults, now, world, ops, want, keep, prev, seen, tries, since, todo>>

-----------------------------------------------------------------------------
(* claim and isStale.                                                      *)

CreateClaim(w) ==
    /\ pc[w] = "create"
    /\ \/ /\ claims[want[w]] = NoClaim
          /\ WriteClaim(w, want[w])
          /\ Claimed(w) \/ (LostAnswers /\ Fail(w))
       \/ /\ claims[want[w]] # NoClaim
          /\ Goto(w, "get")
          /\ UNCHANGED <<claims, rvs, kind, keep, since, tries>>
       \/ Failures /\ Fail(w) /\ UNCHANGED <<claims, rvs>>
    /\ UNCHANGED <<faults, now, release, pod, ops, want, prev, seen, todo>>

\* A claim of its own is left as it is, claimedAt included.
GetClaim(w) ==
    /\ pc[w] = "get"
    /\ LET c == claims[want[w]] IN
         /\ seen' = [seen EXCEPT ![w] = c]
         /\ \/ c = NoClaim /\ Again(w)
            \/ c.holder = w /\ Claimed(w)
            \/ c.holder \notin {w, Absent} /\ now - c.at < Grace /\ HeldByOther(w)
            \/ /\ c.holder \notin {w, Absent} /\ now - c.at >= Grace
               /\ Goto(w, "check")
               /\ UNCHANGED <<kind, keep, since, tries>>
            \/ Failures /\ Fail(w)
    /\ UNCHANGED <<faults, now, world, ops, want, prev, todo>>

CheckAlwaysStale(w) ==   \* mutant: the holder's release is not looked up
    /\ pc[w] = "check"
    /\ Goto(w, "take") /\ UNCHANGED <<kind, keep, since, tries>>
    /\ UNCHANGED <<faults, now, world, ops, want, prev, seen, todo>>

\* releaseExists of the holder.
CheckHolder(w) ==
    /\ pc[w] = "check"
    /\ \/ release[seen[w].holder] # Absent /\ HeldByOther(w)
       \/ /\ release[seen[w].holder] = Absent
          /\ Goto(w, "take")
          /\ UNCHANGED <<kind, keep, since, tries>>
       \/ Failures /\ Fail(w)
    /\ UNCHANGED <<faults, now, world, ops, want, prev, seen, todo>>

\* The take-over of a stale claim, unless somebody touched it since.
TakeClaim(w) ==
    /\ pc[w] = "take"
    /\ \/ /\ claims[want[w]].rv = seen[w].rv
          /\ WriteClaim(w, want[w])
          /\ Claimed(w) \/ (LostAnswers /\ Fail(w))
       \/ /\ claims[want[w]].rv # seen[w].rv
          /\ Again(w)
          /\ UNCHANGED <<claims, rvs>>
       \/ Failures /\ Fail(w) /\ UNCHANGED <<claims, rvs>>
    /\ UNCHANGED <<faults, now, release, pod, ops, want, prev, seen, todo>>

-----------------------------------------------------------------------------
(* The update's other steps, commit and abort.                             *)

\* Abort gives the new claim back and keeps the pod's.
Abort(w) ==
    IF keep[w] # prev[w]
    THEN /\ keep' = [keep EXCEPT ![w] = prev[w]]
         /\ Goto(w, "list")
         /\ UNCHANGED kind
    ELSE Return(w) /\ UNCHANGED keep

\* resizeMainContainer and reapplyNetworkPolicies, which may fail.
OtherSteps(w) ==
    /\ pc[w] = "steps"
    /\ \/ Goto(w, "patch") /\ UNCHANGED <<kind, keep>>
       \/ Abort(w)
    /\ UNCHANGED <<faults, now, world, ops, want, prev, seen, tries, since, todo>>

\* commit: one patch of the pod, then the other claims are released.
CommitPatch(w) ==
    /\ pc[w] = "patch"
    /\ \/ /\ pod[w] # Absent
          /\ pod' = [pod EXCEPT ![w] = want[w]]
          /\ \/ /\ IF keep[w] # prev[w] THEN Goto(w, "list") /\ UNCHANGED kind ELSE Return(w)
                /\ UNCHANGED keep
             \/ LostAnswers /\ Abort(w)
       \/ Failures /\ Abort(w) /\ UNCHANGED pod
    /\ UNCHANGED <<faults, now, claims, rvs, release, ops, want, prev, seen, tries, since, todo>>

-----------------------------------------------------------------------------
(* release, and what follows it.                                           *)

\* List the workspace's claims.  A list that fails is logged.
ListClaims(w) ==
    /\ pc[w] = "list"
    /\ \/ todo' = [todo EXCEPT ![w] = {[alias |-> a, rv |-> claims[a].rv] : a \in Held(w) \ {keep[w]}}]
       \/ Failures /\ todo' = [todo EXCEPT ![w] = {}]
    /\ Goto(w, "drop")
    /\ UNCHANGED <<faults, now, world, ops, kind, want, keep, prev, seen, tries, since>>

DropAnyVersion(w) ==   \* mutant: a delete without a precondition
    /\ pc[w] = "drop"
    /\ \E c \in todo[w] :
         /\ claims' = [claims EXCEPT ![c.alias] = NoClaim]
         /\ todo' = [todo EXCEPT ![w] = @ \ {c}]
    /\ UNCHANGED <<faults, now, rvs, release, pod, pc, ops, kind, want, keep, prev, seen, tries, since>>

\* Delete them one by one, each only if it is the version that was listed.
DropClaim(w) ==
    /\ pc[w] = "drop"
    /\ \E c \in todo[w] :
         /\ \/ claims[c.alias].rv = c.rv /\ claims' = [claims EXCEPT ![c.alias] = NoClaim]
            \/ (claims[c.alias].rv # c.rv \/ Failures) /\ UNCHANGED claims
         /\ todo' = [todo EXCEPT ![w] = @ \ {c}]
    /\ UNCHANGED <<faults, now, rvs, release, pod, pc, ops, kind, want, keep, prev, seen, tries, since>>

\* An update is over; an install or a start goes on to the pod.
Dropped(w) ==
    /\ pc[w] = "drop" /\ todo[w] = {}
    /\ IF kind[w] = "update" THEN Return(w) ELSE Goto(w, "apply") /\ UNCHANGED kind
    /\ UNCHANGED <<faults, now, world, ops, want, keep, prev, seen, tries, since, todo>>

\* The release is installed with the alias, or the pod is created with it.
\* An install may fail before or after its release exists.
Apply(w) ==
    /\ pc[w] = "apply"
    /\ \/ /\ release' = IF kind[w] = "install" THEN [release EXCEPT ![w] = keep[w]] ELSE release
          /\ pod' = [pod EXCEPT ![w] = keep[w]]
       \/ /\ Failures /\ kind[w] = "install"
          /\ release' = [release EXCEPT ![w] = keep[w]]
          /\ UNCHANGED pod
       \/ Failures /\ UNCHANGED <<release, pod>>
    /\ Return(w)
    /\ UNCHANGED <<faults, now, claims, rvs, ops, want, keep, prev, seen, tries, since, todo>>

\* helm uninstall takes the release and the pod away.
Uninstall(w) ==
    /\ pc[w] = "uninstall"
    /\ \/ /\ release' = [release EXCEPT ![w] = Absent]
          /\ pod' = [pod EXCEPT ![w] = Absent]
          /\ Goto(w, "sweep")
          /\ UNCHANGED kind
       \/ Failures /\ Return(w) /\ UNCHANGED <<release, pod>>
    /\ UNCHANGED <<faults, now, claims, rvs, ops, want, keep, prev, seen, tries, since, todo>>

SweepNothing(w) ==   \* mutant: the claims are not swept
    /\ pc[w] = "sweep" /\ Return(w)
    /\ UNCHANGED <<faults, now, world, ops, want, keep, prev, seen, tries, since, todo>>

\* The sweep by canonical id deletes its claims; a failure is logged.
Sweep(w) ==
    /\ pc[w] = "sweep"
    /\ \/ claims' = [a \in Aliases |-> IF a \in Held(w) THEN NoClaim ELSE claims[a]]
       \/ Failures /\ UNCHANGED claims
    /\ Return(w)
    /\ UNCHANGED <<faults, now, rvs, release, pod, ops, want, keep, prev, seen, tries, since, todo>>

\* The replica of an operation dies; its lock runs out.
Crash(w) ==
    /\ Failures /\ pc[w] # "idle"
    /\ Return(w)
    /\ UNCHANGED <<faults, now, world, ops, want, keep, prev, seen, tries, since, todo>>

\* Time passes.  InstallMax bounds the time from a claim to its release.
Tick ==
    /\ now < MaxTime
    /\ \A w \in Workspaces :
           kind[w] = "install" /\ keep[w] # NoAlias => now < since[w] + InstallMax
    /\ now' = now + 1
    /\ UNCHANGED <<faults, world, pc, local>>

Operation(w) ==
    \/ Install(w) \/ Start(w) \/ UpdateAlias(w) \/ Stop(w) \/ Delete(w)

Step(w) ==
    \/ CreateClaim(w) \/ GetClaim(w) \/ CheckHolder(w) \/ TakeClaim(w)
    \/ OtherSteps(w) \/ CommitPatch(w) \/ ListClaims(w) \/ DropClaim(w)
    \/ Dropped(w) \/ Apply(w) \/ Uninstall(w) \/ Sweep(w)

Next ==
    \/ \E w \in Workspaces : Operation(w) \/ Step(w) \/ Crash(w)
    \/ Tick

Spec == Init /\ [][Next]_vars

-----------------------------------------------------------------------------
(* Properties.                                                             *)

\* FindWorkspaceByAlias: the holder of the claim, if its pod agrees.
FindWorkspaceByAlias(a) ==
    LET h == claims[a].holder
    IN  IF h # Absent /\ pod[h] = a THEN h ELSE Absent

\* While no call fails, every workspace that carries an alias is found by it,
\* so no two carry the same one: through installs, restarts, updates that
\* move, clear or abort, deletes and take-overs of stale claims.
AliasFindsWorkspace ==
    faults = {} =>
        \A w \in Workspaces : pod[w] \in Aliases => FindWorkspaceByAlias(pod[w]) = w

\* While no call fails, no claims are left behind: between operations a
\* workspace without release holds none, and one with a pod holds at most the
\* one its pod carries.
NoClaimLeak ==
    faults = {} =>
        \A w \in Workspaces : pc[w] = "idle" =>
            /\ release[w] = Absent => Held(w) = {}
            /\ pod[w] # Absent => Held(w) \subseteq {pod[w]}
            /\ Cardinality(Held(w)) <= 1

\* "The precondition keeps us from deleting a claim a concurrent take-over
\* has just handed to another workspace" (alias.go): whatever fails, a claim
\* is deleted only by an operation of its holder.
DeletedByHolder ==
    [][\A a \in Aliases : claims[a] # NoClaim /\ claims'[a] = NoClaim =>
         LET h == claims[a].holder
         IN  pc[h] \in {"drop", "sweep"} /\ (pc'[h] # pc[h] \/ todo'[h] # todo[h])]_vars
=============================================================================
