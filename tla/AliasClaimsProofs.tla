-------------------------- MODULE AliasClaimsProofs --------------------------
(***************************************************************************)
(* Proofs about AliasClaims for any workspaces, aliases, durations and     *)
(* numbers of operations: whatever fails, only its holder deletes a claim; *)
(* and while nothing fails, workspaces are found by their alias and leave  *)
(* no claims behind, provided that an install takes less than the grace    *)
(* period of a claim.                                                      *)
(***************************************************************************)
EXTENDS AliasClaims, FiniteSetTheorems, TLAPS

Claiming == {"create", "get", "check", "take"}

(***************************************************************************)
(* Whatever fails: versions are handed out once, so what was read of a     *)
(* claim is true for as long as the claim has the version that was read.   *)
(***************************************************************************)
ClaimOK(a) ==
    IF claims[a].holder = Absent THEN claims[a] = NoClaim ELSE claims[a].rv \in 1..rvs

TodoOK(w) ==
    \A c \in todo[w] :
        c.rv \in 1..rvs /\ (claims[c.alias].rv = c.rv => claims[c.alias].holder = w)

SeenOK(w) ==
    pc[w] \in {"check", "take"} =>
        /\ seen[w].rv \in 1..rvs /\ seen[w].holder \notin {w, Absent}
        /\ now - seen[w].at >= Grace
        /\ claims[want[w]].rv = seen[w].rv => claims[want[w]] = seen[w]

WantOK(w) == pc[w] \in Claiming => want[w] \in Aliases /\ tries[w] > 0

VersionInv ==
    /\ \A a \in Aliases : ClaimOK(a)
    /\ \A w \in Workspaces : TodoOK(w) /\ SeenOK(w) /\ WantOK(w)

(***************************************************************************)
(* While nothing fails: the claims a workspace holds at each step of each  *)
(* of its operations.                                                      *)
(***************************************************************************)

\* The operation fits the state of the workspace.
KindOK(w) ==
    /\ release[w] = Absent => pod[w] = Absent
    /\ kind[w] = "none" <=> pc[w] = "idle"
    /\ kind[w] = "delete" <=> pc[w] \in {"uninstall", "sweep"}
    /\ pc[w] = "uninstall" => release[w] # Absent
    /\ pc[w] = "sweep" => release[w] = Absent
    /\ kind[w] = "install" => release[w] = Absent
    /\ kind[w] = "start" => release[w] # Absent /\ pod[w] = Absent
    /\ kind[w] = "update" => release[w] # Absent /\ pod[w] # Absent
    /\ pc[w] \in {"steps", "patch"} => kind[w] = "update"
    /\ pc[w] = "apply" => kind[w] # "update"

\* The claim to keep is held; that of an install is younger than its grace.
KeepOK(w) ==
    /\ pc[w] \in Claiming => keep[w] = NoAlias
    /\ pc[w] \in {"steps", "patch"} => prev[w] = pod[w] /\ keep[w] = want[w]
    /\ kind[w] = "update" /\ pc[w] \in Claiming => prev[w] = pod[w]
    /\ kind[w] = "update" /\ pc[w] \in {"list", "drop"} => keep[w] = pod[w]
    /\ pc[w] \in {"steps", "patch", "list", "drop", "apply"} /\ keep[w] # NoAlias =>
         /\ claims[keep[w]].holder = w
         /\ kind[w] = "install" =>
              claims[keep[w]].at = since[w] /\ now <= since[w] + InstallMax

\* The claims it holds besides.
HeldOK(w) ==
    /\ pc[w] = "idle" \/ (kind[w] = "start" /\ pc[w] \in Claiming) =>
         /\ release[w] = Absent => Held(w) = {}
         /\ pod[w] # Absent => Held(w) \subseteq {pod[w]}
         /\ \A a, b \in Held(w) : a = b
    /\ kind[w] = "install" /\ pc[w] \in Claiming => Held(w) = {}
    /\ kind[w] = "install" /\ pc[w] \in {"list", "drop", "apply"} => Held(w) \subseteq {keep[w]}
    /\ kind[w] = "update" /\ pc[w] \in Claiming => Held(w) \subseteq {pod[w]}
    /\ pc[w] \in {"steps", "patch"} => Held(w) \subseteq {prev[w], keep[w]}
    /\ pc[w] = "drop" =>
         /\ \A c \in todo[w] : c.alias # keep[w]
         /\ \A a \in Held(w) : a = keep[w] \/ [alias |-> a, rv |-> claims[a].rv] \in todo[w]
    /\ pc[w] = "apply" => Held(w) \subseteq {keep[w]}

PodOK(w) == pod[w] \in Aliases => claims[pod[w]].holder = w

\* A claim that is about to be taken over is that of a deleted workspace.
TakeOK(w) ==
    pc[w] = "take" /\ claims[want[w]].rv = seen[w].rv => pc[seen[w].holder] = "sweep"

CalmOf(w) == KindOK(w) /\ KeepOK(w) /\ HeldOK(w) /\ PodOK(w) /\ TakeOK(w)

CalmInv == faults = {} => \A w \in Workspaces : CalmOf(w)

(***************************************************************************)
(* Types.  That attempts are left is not a matter of types alone, so the   *)
(* steps take WantOK as well.                                              *)
(***************************************************************************)

LEMMA Constants ==
    /\ NoAlias \notin Aliases /\ Absent \notin Aliases /\ Absent \notin Workspaces
    /\ Absent # NoAlias /\ Grace \in Nat /\ InstallMax \in Nat
    /\ Attempts \in Nat /\ Attempts > 0
  BY AliasConstants

LEMMA NoClaimType == NoClaim \in Claim /\ NoClaim.holder = Absent /\ NoClaim.rv = 0
  BY DEF NoClaim, Claim

LEMMA TypeInit == Init => TypeOK
  BY Constants, NoClaimType DEF Init, TypeOK, Alias, PC

LEMMA ClaimWritten ==
    ASSUME TypeOK, NEW w \in Workspaces, NEW a \in Aliases, WriteClaim(w, a)
    PROVE  /\ claims' \in [Aliases -> Claim] /\ rvs' = rvs + 1 /\ rvs' \in Nat
           /\ claims'[a].holder = w /\ claims'[a].rv = rvs + 1 /\ claims'[a].at = now
           /\ \A b \in Aliases \ {a} : claims'[b] = claims[b]
  BY DEF TypeOK, WriteClaim, Claim

LEMMA TypeBegin ==
    ASSUME TypeOK, NEW w \in Workspaces, NEW k \in {"install", "start", "update"},
           NEW a \in Alias, k = "update" => pod[w] # Absent, Begin(w, k, a)
    PROVE  TypeOK'
<1> USE Constants DEF TypeOK, Begin, Goto, Alias, PC, world
<1>1. pc' \in [Workspaces -> PC]
  OBVIOUS
<1>2. prev' \in [Workspaces -> Alias]
  OBVIOUS
<1>3. tries' \in [Workspaces -> 0..Attempts] /\ ops' \in [Workspaces -> Nat]
  OBVIOUS
<1> QED
  BY <1>1, <1>2, <1>3

LEMMA TypeClaim ==
    ASSUME TypeOK, NEW w \in Workspaces, WantOK(w),
           CreateClaim(w) \/ GetClaim(w) \/ CheckHolder(w) \/ TakeClaim(w)
    PROVE  TypeOK'
<1> USE Constants DEF TypeOK
<1>1. ASSUME pc[w] \in Claiming, Claimed(w) \/ HeldByOther(w) \/ Again(w) \/ Fail(w)
      PROVE  /\ pc' \in [Workspaces -> PC] /\ keep' \in [Workspaces -> Alias]
             /\ since' \in [Workspaces -> Nat] /\ tries' \in [Workspaces -> 0..Attempts]
             /\ kind' \in [Workspaces -> {"none", "install", "start", "update", "delete"}]
  BY <1>1 DEF Claimed, HeldByOther, Again, Fail, Return, Goto, WantOK, PC
<1>2. want[w] \in Aliases /\ pc[w] \in Claiming
  BY DEF WantOK, Claiming, CreateClaim, GetClaim, CheckHolder, TakeClaim
<1>3. CASE CreateClaim(w)
  BY <1>1, <1>2, <1>3, ClaimWritten DEF CreateClaim, Goto, PC
<1>4. CASE GetClaim(w)
  BY <1>1, <1>2, <1>4 DEF GetClaim, Goto, PC, world
<1>5. CASE CheckHolder(w)
  BY <1>1, <1>2, <1>5 DEF CheckHolder, Goto, PC, world
<1>6. CASE TakeClaim(w)
  BY <1>1, <1>2, <1>6, ClaimWritten DEF TakeClaim, Goto, PC
<1> QED
  BY <1>3, <1>4, <1>5, <1>6

LEMMA TypeRest ==
    ASSUME TypeOK, NEW w \in Workspaces,
           \/ Stop(w) \/ Delete(w) \/ Crash(w) \/ OtherSteps(w) \/ CommitPatch(w)
           \/ ListClaims(w) \/ DropClaim(w) \/ Dropped(w) \/ Apply(w) \/ Uninstall(w) \/ Sweep(w)
           \/ Tick \/ UNCHANGED vars
    PROVE  TypeOK'
<1> USE Constants DEF TypeOK, Goto, Return, PC, world, local
<1>1. CASE Stop(w) \/ Delete(w) \/ Crash(w)
  BY <1>1 DEF Stop, Delete, Crash, Alias
<1>2. CASE OtherSteps(w)
  BY <1>2 DEF OtherSteps, Abort
<1>3. CASE CommitPatch(w)
  BY <1>3 DEF CommitPatch, Abort
<1>4. CASE ListClaims(w)
  <2>1. todo' \in [Workspaces -> SUBSET [alias : Aliases, rv : Nat]]
    BY <1>4 DEF ListClaims, Held, Claim
  <2> QED
    BY <1>4, <2>1 DEF ListClaims
<1>5. CASE DropClaim(w)
  BY <1>5, NoClaimType DEF DropClaim
<1>6. CASE Dropped(w)
  BY <1>6 DEF Dropped
<1>7. CASE Apply(w)
  BY <1>7 DEF Apply, Alias
<1>8. CASE Uninstall(w)
  BY <1>8 DEF Uninstall
<1>9. CASE Sweep(w)
  BY <1>9, NoClaimType DEF Sweep
<1>10. CASE Tick
  BY <1>10 DEF Tick
<1>11. CASE UNCHANGED vars
  BY <1>11 DEF vars
<1> QED
  BY <1>1, <1>2, <1>3, <1>4, <1>5, <1>6, <1>7, <1>8, <1>9, <1>10, <1>11

LEMMA TypeStep ==
    ASSUME TypeOK, \A w \in Workspaces : WantOK(w), [Next]_vars
    PROVE  TypeOK'
<1>1. ASSUME NEW w \in Workspaces, Install(w) \/ Start(w) \/ UpdateAlias(w)
      PROVE  TypeOK'
  <2>1. release[w] \in Alias \union {Absent}
    BY DEF TypeOK
  <2> QED
    BY <1>1, <2>1, TypeBegin DEF Install, Start, UpdateAlias
<1>2. CASE Tick \/ UNCHANGED vars
  BY <1>2 DEF Tick, vars, TypeOK, world, local
<1> QED
  BY <1>1, <1>2, TypeClaim, TypeRest DEF Next, Operation, Step

(***************************************************************************)
(* What a step of one workspace leaves alone.                              *)
(***************************************************************************)

Same(u) ==
    /\ release'[u] = release[u] /\ pod'[u] = pod[u]
    /\ kind'[u] = kind[u] /\ pc'[u] = pc[u] /\ want'[u] = want[u] /\ keep'[u] = keep[u]
    /\ prev'[u] = prev[u] /\ seen'[u] = seen[u] /\ tries'[u] = tries[u]
    /\ since'[u] = since[u] /\ todo'[u] = todo[u]

LEMMA Frame ==
    ASSUME TypeOK, NEW w \in Workspaces, NEW u \in Workspaces \ {w},
           Operation(w) \/ Step(w) \/ Crash(w)
    PROVE  Same(u) /\ UNCHANGED <<faults, now>>
<1> USE DEF TypeOK, Same, Goto, Return, world, local
<1>1. CASE Install(w) \/ Start(w) \/ UpdateAlias(w)
  BY <1>1 DEF Install, Start, UpdateAlias, Begin
<1>2. CASE Stop(w) \/ Delete(w) \/ Crash(w)
  BY <1>2 DEF Stop, Delete, Crash
<1>3. CASE CreateClaim(w) \/ TakeClaim(w)
  BY <1>3 DEF CreateClaim, TakeClaim, Claimed, Again, Fail
<1>4. CASE GetClaim(w) \/ CheckHolder(w)
  BY <1>4 DEF GetClaim, CheckHolder, Claimed, Again, HeldByOther, Fail
<1>5. CASE OtherSteps(w) \/ CommitPatch(w)
  BY <1>5 DEF OtherSteps, CommitPatch, Abort
<1>6. CASE ListClaims(w) \/ DropClaim(w) \/ Dropped(w)
  BY <1>6 DEF ListClaims, DropClaim, Dropped
<1>7. CASE Apply(w) \/ Uninstall(w) \/ Sweep(w)
  BY <1>7 DEF Apply, Uninstall, Sweep
<1> QED
  BY <1>1, <1>2, <1>3, <1>4, <1>5, <1>6, <1>7 DEF Operation, Step

(***************************************************************************)
(* Versions.                                                               *)
(***************************************************************************)

\* A claim stays, is deleted, or is written with a version of its own.
Changed(a) ==
    \/ claims'[a] = claims[a]
    \/ claims'[a] = NoClaim
    \/ rvs' = rvs + 1 /\ claims'[a].rv = rvs' /\ claims'[a].holder # Absent

LEMMA ClaimsChange ==
    ASSUME TypeOK, \A w \in Workspaces : WantOK(w), [Next]_vars
    PROVE  rvs' \in {rvs, rvs + 1} /\ \A a \in Aliases : Changed(a)
<1>1. ASSUME NEW w \in Workspaces, CreateClaim(w) \/ TakeClaim(w)
      PROVE  rvs' \in {rvs, rvs + 1} /\ \A a \in Aliases : Changed(a)
  <2>1. want[w] \in Aliases
    BY <1>1 DEF WantOK, Claiming, CreateClaim, TakeClaim
  <2> QED
    BY <1>1, <2>1, ClaimWritten, Constants DEF CreateClaim, TakeClaim, Changed
<1>2. ASSUME NEW w \in Workspaces, DropClaim(w) \/ Sweep(w)
      PROVE  rvs' \in {rvs, rvs + 1} /\ \A a \in Aliases : Changed(a)
  BY <1>2 DEF DropClaim, Sweep, Changed, TypeOK
<1>3. CASE UNCHANGED <<claims, rvs>>
  BY <1>3 DEF Changed
<1> QED
  BY <1>1, <1>2, <1>3
  DEF Next, Operation, Step, Install, Start, UpdateAlias, Begin, Stop, Delete, Crash, GetClaim,
      CheckHolder, OtherSteps, CommitPatch, ListClaims, Dropped, Apply, Uninstall, Tick,
      vars, world

LEMMA TodoKept ==
    ASSUME TypeOK, NEW u \in Workspaces, TodoOK(u), todo'[u] \subseteq todo[u],
           rvs' \in {rvs, rvs + 1}, \A a \in Aliases : Changed(a)
    PROVE  TodoOK(u)'
<1>1. rvs \in Nat /\ \A a \in Aliases : claims[a].rv \in Nat
  BY DEF TypeOK, Claim
<1>2. \A c \in todo[u] : c.alias \in Aliases /\ c.rv \in Nat
  BY DEF TypeOK
<1> QED
  BY <1>1, <1>2, NoClaimType DEF TodoOK, Changed

LEMMA VersionsOfOther ==
    ASSUME TypeOK, TypeOK', NEW u \in Workspaces, TodoOK(u), SeenOK(u), WantOK(u), Same(u),
           now <= now', rvs' \in {rvs, rvs + 1}, \A a \in Aliases : Changed(a)
    PROVE  TodoOK(u)' /\ SeenOK(u)' /\ WantOK(u)'
<1>1. rvs \in Nat /\ now \in Nat /\ now' \in Nat /\ \A a \in Aliases : claims[a].rv \in Nat
  BY DEF TypeOK, Claim
<1>2. TodoOK(u)' /\ WantOK(u)'
  BY TodoKept DEF WantOK, Same
<1>3. CASE pc[u] \in {"check", "take"}
  <2>1. want[u] \in Aliases /\ seen[u].at \in Nat /\ Grace \in Nat
    BY <1>3, Constants DEF WantOK, Claiming, TypeOK, Claim
  <2>2. SeenOK(u)'
    BY <1>1, <1>3, <2>1, NoClaimType DEF SeenOK, Same, Changed
  <2> QED
    BY <1>2, <2>2
<1>4. CASE pc[u] \notin {"check", "take"}
  BY <1>2, <1>4 DEF SeenOK, Same
<1> QED
  BY <1>3, <1>4

LEMMA VersionsOfOwn ==
    ASSUME TypeOK, VersionInv, NEW w \in Workspaces, Operation(w) \/ Step(w) \/ Crash(w),
           rvs' \in {rvs, rvs + 1}, \A a \in Aliases : Changed(a)
    PROVE  TodoOK(w)' /\ SeenOK(w)' /\ WantOK(w)'
<1> USE Constants DEF Goto, Return, world, local
<1>1. TodoOK(w) /\ SeenOK(w) /\ WantOK(w)
  BY DEF VersionInv
<1>2. CASE Install(w) \/ Start(w) \/ UpdateAlias(w)
  <2>1. /\ todo'[w] = todo[w] /\ pc'[w] \in {"create", "steps", "list"}
        /\ pc'[w] = "create" => want'[w] \in Aliases /\ tries'[w] > 0
    BY <1>2 DEF Install, Start, UpdateAlias, Begin, Alias, TypeOK
  <2> QED
    BY <1>1, <2>1, TodoKept DEF SeenOK, WantOK, Claiming
<1>3. CASE CreateClaim(w)
  <2>1. /\ todo'[w] = todo[w] /\ want'[w] = want[w] /\ tries'[w] = tries[w]
        /\ pc'[w] \in {"get", "steps", "list", "idle"}
    BY <1>3 DEF CreateClaim, Claimed, Fail, TypeOK
  <2> QED
    BY <1>1, <1>3, <2>1, TodoKept DEF CreateClaim, SeenOK, WantOK, Claiming
<1>4. CASE GetClaim(w)
  <2>1. /\ todo'[w] = todo[w] /\ want'[w] = want[w] /\ UNCHANGED <<claims, now, rvs>>
        /\ seen'[w] = claims[want[w]] /\ want[w] \in Aliases /\ ClaimOK(want[w])
    BY <1>1, <1>4 DEF GetClaim, TypeOK, WantOK, Claiming, VersionInv
  <2>2. /\ pc'[w] \in {"create", "check", "steps", "list", "idle"}
        /\ pc'[w] \in {"create", "check"} => tries'[w] > 0
        /\ pc'[w] = "check" =>
             claims[want[w]].holder \notin {w, Absent} /\ now - claims[want[w]].at >= Grace
    BY <1>1, <1>4
    DEF GetClaim, TypeOK, Again, Claimed, HeldByOther, Fail, WantOK, Claiming
  <2> QED
    BY <1>1, <2>1, <2>2, TodoKept DEF SeenOK, WantOK, Claiming, ClaimOK
<1>5. CASE CheckHolder(w)
  <2>1. /\ todo'[w] = todo[w] /\ want'[w] = want[w] /\ tries'[w] = tries[w]
        /\ UNCHANGED <<claims, now, rvs, seen>>
        /\ pc'[w] \in {"take", "list", "idle"} /\ pc[w] = "check"
    BY <1>5 DEF CheckHolder, HeldByOther, Fail, TypeOK
  <2> QED
    BY <1>1, <2>1, TodoKept DEF SeenOK, WantOK, Claiming
<1>6. CASE TakeClaim(w)
  <2>1. /\ todo'[w] = todo[w] /\ want'[w] = want[w] /\ pc[w] = "take"
        /\ pc'[w] \in {"create", "steps", "list", "idle"}
        /\ pc'[w] = "create" => tries'[w] > 0
    BY <1>6 DEF TakeClaim, Claimed, Again, Fail, TypeOK
  <2> QED
    BY <1>1, <2>1, TodoKept DEF SeenOK, WantOK, Claiming
<1>7. CASE ListClaims(w)
  <2>1. pc'[w] = "drop" /\ UNCHANGED <<claims, rvs>>
    BY <1>7 DEF ListClaims, TypeOK
  <2>2. \A c \in todo'[w] : \E a \in Held(w) : c = [alias |-> a, rv |-> claims[a].rv]
    BY <1>7 DEF ListClaims, TypeOK
  <2>3. \A a \in Held(w) : claims[a].rv \in 1..rvs /\ claims[a].holder = w
    BY DEF Held, VersionInv, ClaimOK
  <2> QED
    BY <2>1, <2>2, <2>3 DEF TodoOK, SeenOK, WantOK, Claiming
<1>8. CASE \/ Stop(w) \/ Delete(w) \/ Crash(w) \/ OtherSteps(w) \/ CommitPatch(w)
           \/ DropClaim(w) \/ Dropped(w) \/ Apply(w) \/ Uninstall(w) \/ Sweep(w)
  <2>1. todo'[w] \subseteq todo[w] /\ pc'[w] \notin Claiming
    BY <1>8
    DEF Stop, Delete, Crash, OtherSteps, CommitPatch, Abort, DropClaim, Dropped, Apply,
        Uninstall, Sweep, Claiming, TypeOK
  <2> QED
    BY <1>1, <2>1, TodoKept DEF SeenOK, WantOK, Claiming
<1> QED
  BY <1>2, <1>3, <1>4, <1>5, <1>6, <1>7, <1>8 DEF Operation, Step

LEMMA VersionStep == TypeOK /\ VersionInv /\ [Next]_vars => VersionInv'
<1> SUFFICES ASSUME TypeOK, VersionInv, [Next]_vars PROVE VersionInv'
  OBVIOUS
<1>1. /\ TypeOK' /\ rvs' \in {rvs, rvs + 1} /\ \A a \in Aliases : Changed(a)
      /\ rvs \in Nat
  BY TypeStep, ClaimsChange DEF VersionInv, TypeOK
<1>2. ASSUME NEW a \in Aliases PROVE ClaimOK(a)'
  <2>1. ClaimOK(a) /\ Changed(a) /\ claims[a].rv \in Nat
    BY <1>1 DEF VersionInv, TypeOK, Claim
  <2> QED
    BY <1>1, <2>1, NoClaimType DEF ClaimOK, Changed
<1>3. ASSUME NEW w \in Workspaces, Operation(w) \/ Step(w) \/ Crash(w)
      PROVE  TodoOK(w)' /\ SeenOK(w)' /\ WantOK(w)'
  BY <1>1, <1>3, VersionsOfOwn
<1>4. ASSUME NEW w \in Workspaces, Operation(w) \/ Step(w) \/ Crash(w), NEW u \in Workspaces \ {w}
      PROVE  TodoOK(u)' /\ SeenOK(u)' /\ WantOK(u)'
  <2>1. Same(u) /\ now' = now /\ now \in Nat
    BY <1>4, Frame DEF TypeOK
  <2> QED
    BY <1>1, <2>1, VersionsOfOther DEF VersionInv
<1>5. ASSUME NEW u \in Workspaces, Tick \/ UNCHANGED vars
      PROVE  TodoOK(u)' /\ SeenOK(u)' /\ WantOK(u)'
  <2>1. Same(u) /\ now <= now'
    BY <1>5 DEF Tick, vars, world, local, Same, TypeOK
  <2> QED
    BY <1>1, <2>1, VersionsOfOther DEF VersionInv
<1> QED
  BY <1>2, <1>3, <1>4, <1>5 DEF VersionInv, Next

LEMMA VersionAlways == Spec => [](TypeOK /\ VersionInv)
<1>1. Init => VersionInv
  BY NoClaimType
  DEF Init, VersionInv, ClaimOK, TodoOK, SeenOK, WantOK, Claiming
<1>2. TypeOK /\ VersionInv /\ [Next]_vars => TypeOK'
  BY TypeStep DEF VersionInv
<1> QED
  BY <1>1, <1>2, TypeInit, VersionStep, PTL DEF Spec

\* Every reachable state of the claims is well typed.
THEOREM TypeCorrect == Spec => []TypeOK
  BY VersionAlways, PTL

\* A claim is deleted only by an operation of the workspace that holds it,
\* whichever calls fail, whichever answers are lost and whoever takes the
\* claim over meanwhile: the resource version in the delete's precondition is
\* enough.
THEOREM HolderDeletes == Spec => DeletedByHolder
<1>1. ASSUME TypeOK, VersionInv, [Next]_vars,
             NEW a \in Aliases, claims[a] # NoClaim, claims'[a] = NoClaim
      PROVE  LET h == claims[a].holder
             IN  pc[h] \in {"drop", "sweep"} /\ (pc'[h] # pc[h] \/ todo'[h] # todo[h])
  <2>1. claims[a].holder # Absent
    BY <1>1 DEF VersionInv, ClaimOK
  <2>2. ASSUME NEW w \in Workspaces, CreateClaim(w) \/ TakeClaim(w) PROVE FALSE
    <3>1. want[w] \in Aliases
      BY <1>1, <2>2 DEF VersionInv, WantOK, Claiming, CreateClaim, TakeClaim
    <3> QED
      BY <1>1, <2>2, <3>1, ClaimWritten, Constants, NoClaimType DEF CreateClaim, TakeClaim
  <2>3. ASSUME NEW w \in Workspaces, DropClaim(w)
        PROVE  claims[a].holder = w /\ pc[w] = "drop" /\ todo'[w] # todo[w]
    <3>1. PICK c \in todo[w] :
            /\ \/ claims[c.alias].rv = c.rv /\ claims' = [claims EXCEPT ![c.alias] = NoClaim]
               \/ UNCHANGED claims
            /\ todo' = [todo EXCEPT ![w] = @ \ {c}]
      BY <2>3 DEF DropClaim
    <3>2. a = c.alias /\ claims[c.alias].rv = c.rv
      BY <1>1, <3>1 DEF TypeOK
    <3>3. claims[a].holder = w
      BY <1>1, <3>2 DEF VersionInv, TodoOK
    <3>4. todo'[w] = todo[w] \ {c}
      BY <1>1, <3>1 DEF TypeOK
    <3> QED
      BY <2>3, <3>3, <3>4 DEF DropClaim
  <2>4. ASSUME NEW w \in Workspaces, Sweep(w)
        PROVE  claims[a].holder = w /\ pc[w] = "sweep" /\ pc'[w] # pc[w]
    BY <1>1, <2>4 DEF Sweep, Held, Return, Goto, TypeOK
  <2>5. CASE UNCHANGED claims
    BY <1>1, <2>5
  <2> QED
    BY <1>1, <2>2, <2>3, <2>4, <2>5
    DEF Next, Operation, Step, Install, Start, UpdateAlias, Begin, Stop, Delete, Crash, GetClaim,
        CheckHolder, OtherSteps, CommitPatch, ListClaims, Dropped, Apply, Uninstall, Tick,
        vars, world
<1>2. TypeOK /\ VersionInv /\ [Next]_vars =>
        [\A a \in Aliases : claims[a] # NoClaim /\ claims'[a] = NoClaim =>
           LET h == claims[a].holder
           IN  pc[h] \in {"drop", "sweep"} /\ (pc'[h] # pc[h] \/ todo'[h] # todo[h])]_vars
  BY <1>1
<1> QED
  BY <1>2, VersionAlways, PTL DEF Spec, DeletedByHolder

(***************************************************************************)
(* While nothing fails: what a step means to the other workspaces.         *)
(***************************************************************************)

Calm == faults = {} /\ \A w \in Workspaces : CalmOf(w)

Act(w) == Operation(w) \/ Step(w) \/ Crash(w)

\* No claim comes to u, leaves it or is renewed.
Untouched(u) ==
    \A a \in Aliases :
        claims'[a] = claims[a] \/ (claims[a].holder # u /\ claims'[a].holder # u)

LEMMA NoFaults == faults = {} => ~Failures /\ ~LostAnswers
  BY DEF Failures, LostAnswers

LEMMA ClaimsOfOther ==
    ASSUME TypeOK, VersionInv, Calm, NEW w \in Workspaces, NEW u \in Workspaces \ {w}, Act(w)
    PROVE  pc[u] = "sweep" \/ Untouched(u)
<1> USE NoFaults DEF Calm
<1>1. CASE CreateClaim(w)
  <2>1. want[w] \in Aliases
    BY <1>1 DEF VersionInv, WantOK, Claiming, CreateClaim
  <2> QED
    BY <1>1, <2>1, ClaimWritten, NoClaimType, Constants DEF CreateClaim, Untouched
<1>2. CASE TakeClaim(w)
  <2>1. want[w] \in Aliases /\ SeenOK(w) /\ TakeOK(w) /\ pc[w] = "take"
    BY <1>2 DEF VersionInv, WantOK, Claiming, TakeClaim, CalmOf
  <2>2. CASE claims[want[w]].rv = seen[w].rv /\ WriteClaim(w, want[w])
    <3>1. claims[want[w]] = seen[w] /\ pc[seen[w].holder] = "sweep"
      BY <2>1, <2>2 DEF SeenOK, TakeOK
    <3> QED
      BY <2>1, <2>2, <3>1, ClaimWritten DEF Untouched
  <2> QED
    BY <1>2, <2>2 DEF TakeClaim, Untouched
<1>3. CASE DropClaim(w)
  <2>1. \A c \in todo[w] : c.alias \in Aliases
    BY DEF TypeOK
  <2>2. TodoOK(w)
    BY DEF VersionInv
  <2> QED
    BY <1>3, <2>1, <2>2, NoClaimType, Constants DEF DropClaim, TodoOK, Untouched, TypeOK
<1>4. CASE Sweep(w)
  BY <1>4, NoClaimType, Constants DEF Sweep, Held, Untouched, TypeOK
<1>5. CASE UNCHANGED claims
  BY <1>5 DEF Untouched
<1> QED
  BY <1>1, <1>2, <1>3, <1>4, <1>5
  DEF Act, Operation, Step, Install, Start, UpdateAlias, Begin, Stop, Delete, Crash, GetClaim,
      CheckHolder, OtherSteps, CommitPatch, ListClaims, Dropped, Apply, Uninstall, world

LEMMA CalmKept ==
    ASSUME TypeOK, NEW u \in Workspaces, CalmOf(u), Same(u), now' = now,
           pc[u] = "sweep" \/ Untouched(u)
    PROVE  KindOK(u)' /\ KeepOK(u)' /\ HeldOK(u)' /\ PodOK(u)'
<1>1. KindOK(u)'
  BY DEF CalmOf, KindOK, Same
<1>2. CASE pc[u] = "sweep"
  <2>1. kind[u] = "delete" /\ release[u] = Absent /\ pod[u] = Absent
    BY <1>2 DEF CalmOf, KindOK
  <2> QED
    BY <1>1, <1>2, <2>1, Constants DEF Same, KeepOK, HeldOK, PodOK, Claiming
<1>3. CASE Untouched(u)
  <2>1. Held(u)' = Held(u) /\ \A a \in Held(u) : claims'[a] = claims[a]
    BY <1>3 DEF Held, Untouched
  <2>2. keep[u] # NoAlias => keep[u] \in Aliases
    BY DEF TypeOK, Alias
  <2>3. KeepOK(u)'
    BY <2>1, <2>2 DEF CalmOf, KeepOK, Same, Held
  <2>4. HeldOK(u)'
    BY <2>1 DEF CalmOf, HeldOK, Same
  <2>5. PodOK(u)'
    BY <2>1 DEF CalmOf, PodOK, Same, Held
  <2> QED
    BY <1>1, <2>3, <2>4, <2>5
<1> QED
  BY <1>2, <1>3

LEMMA TakeKept ==
    ASSUME TypeOK, VersionInv, Calm, NEW w \in Workspaces, NEW u \in Workspaces \ {w}, Act(w),
           Same(u), rvs' \in {rvs, rvs + 1}, \A a \in Aliases : Changed(a)
    PROVE  TakeOK(u)'
<1> SUFFICES ASSUME pc[u] = "take", claims'[want[u]].rv = seen[u].rv
             PROVE  pc'[seen[u].holder] = "sweep"
  BY DEF TakeOK, Same
<1>1. /\ want[u] \in Aliases /\ SeenOK(u) /\ TakeOK(u) /\ rvs \in Nat
      /\ seen[u].holder \in Workspaces /\ seen[u].rv \in 1..rvs
  <2>1. seen[u] \in Claim /\ SeenOK(u) /\ WantOK(u) /\ TakeOK(u) /\ rvs \in Nat
    BY DEF TypeOK, VersionInv, Calm, CalmOf
  <2> QED
    BY <2>1 DEF SeenOK, WantOK, Claiming, Claim
<1>2. claims'[want[u]] = claims[want[u]]
  BY <1>1, NoClaimType DEF Changed
<1>3. claims[want[u]] = seen[u] /\ pc[seen[u].holder] = "sweep"
  BY <1>1, <1>2 DEF SeenOK, TakeOK
<1>4. CASE seen[u].holder = w
  <2>1. Sweep(w)
    BY <1>3, <1>4, NoFaults
    DEF Calm, Act, Operation, Step, Install, Start, UpdateAlias, Begin, Stop, Delete, Crash,
        CreateClaim, GetClaim, CheckHolder, TakeClaim, OtherSteps, CommitPatch, ListClaims,
        DropClaim, Dropped, Apply, Uninstall
  <2>2. claims'[want[u]] = NoClaim
    BY <1>1, <1>3, <1>4, <2>1, NoFaults DEF Sweep, Held, Calm
  <2> QED
    BY <1>1, <2>2, NoClaimType
<1>5. CASE seen[u].holder # w
  BY <1>1, <1>3, <1>5, Frame DEF Same, Act
<1> QED
  BY <1>4, <1>5

(***************************************************************************)
(* While nothing fails: what a step means to the workspace that takes it.  *)
(***************************************************************************)

LEMMA HeldSame ==
    ASSUME NEW w \in Workspaces, UNCHANGED claims
    PROVE  Held(w)' = Held(w)
  BY DEF Held

LEMMA OwnBegin ==
    ASSUME TypeOK, NEW w \in Workspaces, CalmOf(w), Install(w) \/ Start(w) \/ UpdateAlias(w)
    PROVE  CalmOf(w)'
<1> USE Constants DEF Claiming
<1>1. PICK k \in {"install", "start", "update"}, a \in Alias :
        /\ Begin(w, k, a)
        /\ k = "install" => release[w] = Absent
        /\ k = "start" => release[w] # Absent /\ pod[w] = Absent
        /\ k = "update" => release[w] # Absent /\ pod[w] # Absent
  <2>1. release[w] \in Alias \union {Absent}
    BY DEF TypeOK
  <2> QED
    BY <2>1 DEF Install, Start, UpdateAlias
<1>2. /\ pc[w] = "idle" /\ UNCHANGED <<now, claims, release, pod>>
      /\ kind'[w] = k /\ want'[w] = a /\ keep'[w] = NoAlias
      /\ prev'[w] = IF k = "update" THEN pod[w] ELSE NoAlias
      /\ pc'[w] = IF a # NoAlias THEN "create" ELSE IF k = "update" THEN "steps" ELSE "list"
  BY <1>1 DEF Begin, Goto, world, TypeOK
<1>3. KindOK(w) /\ HeldOK(w) /\ PodOK(w)
  BY DEF CalmOf
<1>4. KindOK(w)'
  BY <1>1, <1>2, <1>3 DEF KindOK
<1>5. KeepOK(w)'
  BY <1>1, <1>2 DEF KeepOK
<1>6. HeldOK(w)'
  BY <1>1, <1>2, <1>3, HeldSame DEF HeldOK, KindOK
<1>7. PodOK(w)' /\ TakeOK(w)'
  BY <1>2, <1>3 DEF PodOK, TakeOK
<1> QED
  BY <1>4, <1>5, <1>6, <1>7 DEF CalmOf

LEMMA OwnStop ==
    ASSUME TypeOK, NEW w \in Workspaces, CalmOf(w), Stop(w) \/ Delete(w)
    PROVE  CalmOf(w)'
<1>1. /\ pc[w] = "idle" /\ UNCHANGED <<now, claims, release>> /\ KindOK(w) /\ HeldOK(w) /\ PodOK(w)
      /\ \/ /\ pod'[w] = Absent /\ pod[w] # Absent /\ UNCHANGED <<pc, kind, keep, want, seen>>
         \/ /\ UNCHANGED pod /\ pc'[w] = "uninstall" /\ kind'[w] = "delete" /\ release[w] # Absent
  BY DEF CalmOf, Stop, Delete, Goto, world, local, TypeOK
<1> QED
  BY <1>1, HeldSame, Constants DEF CalmOf, KindOK, KeepOK, HeldOK, PodOK, TakeOK, Claiming

\* Claimed: the alias is held; it is the only new claim of the workspace.
LEMMA OwnClaimed ==
    ASSUME TypeOK, NEW w \in Workspaces, CalmOf(w), pc[w] \in Claiming, Claimed(w),
           want[w] \in Aliases,
           UNCHANGED <<now, release, pod, want, prev>>,
           claims'[want[w]].holder = w,
           kind[w] = "install" => claims'[want[w]].at = now,
           \A a \in Aliases \ {want[w]} : claims'[a] = claims[a],
           claims[want[w]].holder = w => claims' = claims
    PROVE  CalmOf(w)'
<1> USE Constants DEF Claiming
<1>1. /\ kind'[w] = kind[w] /\ keep'[w] = want[w] /\ since'[w] = now /\ now \in Nat
      /\ pc'[w] = IF kind[w] = "update" THEN "steps" ELSE "list"
      /\ KindOK(w) /\ KeepOK(w) /\ HeldOK(w) /\ PodOK(w)
  BY DEF Claimed, Goto, TypeOK, CalmOf
<1>2. Held(w)' = Held(w) \union {want[w]}
  BY DEF Held
<1>3. KindOK(w)'
  BY <1>1 DEF KindOK
<1>4. KeepOK(w)'
  BY <1>1 DEF KeepOK
<1>5. HeldOK(w)'
  BY <1>1, <1>2 DEF HeldOK, KeepOK, KindOK
<1>6. PodOK(w)' /\ TakeOK(w)'
  BY <1>1 DEF PodOK, TakeOK
<1> QED
  BY <1>3, <1>4, <1>5, <1>6 DEF CalmOf

\* HeldByOther, Again: the workspace goes on without a new claim.
LEMMA OwnRefused ==
    ASSUME TypeOK, NEW w \in Workspaces, CalmOf(w), pc[w] \in Claiming,
           HeldByOther(w) \/ Again(w), want[w] \in Aliases, tries[w] > 0,
           UNCHANGED <<now, claims, release, pod, want, prev>>
    PROVE  CalmOf(w)'
<1> USE Constants DEF Claiming
<1>1. /\ UNCHANGED keep /\ KindOK(w) /\ KeepOK(w) /\ HeldOK(w) /\ PodOK(w)
      /\ \/ kind[w] = "update" /\ pc'[w] = "idle" /\ kind'[w] = "none"
         \/ kind[w] # "update" /\ pc'[w] = "list" /\ kind'[w] = kind[w]
         \/ pc'[w] = "create" /\ kind'[w] = kind[w]
         \/ pc'[w] = "idle" /\ kind'[w] = "none"
  BY DEF HeldByOther, Again, Return, Goto, TypeOK, CalmOf
<1>2. KindOK(w)'
  BY <1>1 DEF KindOK
<1>3. KeepOK(w)'
  BY <1>1 DEF KeepOK
<1>4. HeldOK(w)'
  <2>1. Held(w)' = Held(w)
    BY HeldSame
  <2>2. kind[w] \in {"install", "start", "update"}
    BY <1>1 DEF KindOK, TypeOK
  <2>3. CASE kind[w] = "install"
    BY <1>1, <2>1, <2>3 DEF HeldOK, KindOK
  <2>4. CASE kind[w] = "start"
    BY <1>1, <2>1, <2>4 DEF HeldOK, KindOK
  <2>5. CASE kind[w] = "update"
    BY <1>1, <2>1, <2>5 DEF HeldOK, KindOK
  <2> QED
    BY <2>2, <2>3, <2>4, <2>5
<1>5. PodOK(w)' /\ TakeOK(w)'
  BY <1>1 DEF PodOK, TakeOK
<1> QED
  BY <1>2, <1>3, <1>4, <1>5 DEF CalmOf

LEMMA OwnClaim ==
    ASSUME TypeOK, VersionInv, Calm, InstallMax < Grace, NEW w \in Workspaces,
           CreateClaim(w) \/ GetClaim(w) \/ CheckHolder(w) \/ TakeClaim(w)
    PROVE  CalmOf(w)'
<1> USE Constants, NoFaults DEF Calm
<1>1. /\ want[w] \in Aliases /\ tries[w] > 0 /\ pc[w] \in Claiming /\ CalmOf(w)
      /\ ClaimOK(want[w]) /\ SeenOK(w)
  BY DEF WantOK, Claiming, CreateClaim, GetClaim, CheckHolder, TakeClaim, VersionInv
<1>2. CASE CreateClaim(w)
  <2>1. CASE WriteClaim(w, want[w]) /\ Claimed(w) /\ claims[want[w]] = NoClaim
    BY <1>1, <1>2, <2>1, ClaimWritten, OwnClaimed, NoClaimType DEF CreateClaim
  <2>2. CASE Goto(w, "get") /\ UNCHANGED <<claims, kind, keep, since>>
    <3>1. /\ UNCHANGED <<now, release, pod, want, prev, kind, keep, since, claims>>
          /\ pc[w] = "create" /\ pc'[w] = "get" /\ Held(w)' = Held(w)
      BY <1>2, <2>2, HeldSame DEF CreateClaim, Goto, TypeOK
    <3> QED
      BY <1>1, <3>1 DEF CalmOf, KindOK, KeepOK, HeldOK, PodOK, TakeOK, Claiming
  <2> QED
    BY <1>2, <2>1, <2>2 DEF CreateClaim
<1>3. CASE GetClaim(w)
  <2>1. UNCHANGED <<now, claims, release, pod, want, prev>> /\ pc[w] = "get"
    BY <1>3 DEF GetClaim, world
  <2>2. CASE claims[want[w]].holder = w /\ Claimed(w)
    <3>1. kind[w] # "install"
      BY <1>1, <2>2 DEF CalmOf, HeldOK, Held
    <3> QED
      BY <1>1, <2>1, <2>2, <3>1, OwnClaimed
  <2>3. CASE HeldByOther(w) \/ Again(w)
    BY <1>1, <2>1, <2>3, OwnRefused
  <2>4. CASE Goto(w, "check") /\ UNCHANGED <<kind, keep, since>>
    <3>1. pc'[w] = "check" /\ Held(w)' = Held(w)
      BY <2>1, <2>4, HeldSame DEF Goto, TypeOK
    <3> QED
      BY <1>1, <2>1, <2>4, <3>1 DEF CalmOf, KindOK, KeepOK, HeldOK, PodOK, TakeOK, Claiming
  <2> QED
    BY <1>3, <2>2, <2>3, <2>4 DEF GetClaim
<1>4. CASE CheckHolder(w)
  <2>1. UNCHANGED <<now, claims, release, pod, want, prev, seen>> /\ pc[w] = "check"
    BY <1>4 DEF CheckHolder, world
  <2>2. CASE HeldByOther(w)
    BY <1>1, <2>1, <2>2, OwnRefused
  <2>3. CASE release[seen[w].holder] = Absent /\ Goto(w, "take") /\ UNCHANGED <<kind, keep, since>>
    <3>1. pc'[w] = "take" /\ Held(w)' = Held(w)
      BY <2>1, <2>3, HeldSame DEF Goto, TypeOK
    <3>2. KindOK(w)' /\ KeepOK(w)' /\ HeldOK(w)' /\ PodOK(w)'
      BY <1>1, <2>1, <2>3, <3>1 DEF CalmOf, KindOK, KeepOK, HeldOK, PodOK, Claiming
    <3>3. ASSUME claims[want[w]].rv = seen[w].rv
          PROVE  pc'[seen[w].holder] = "sweep"
      <4> DEFINE h == seen[w].holder
      <4>1. /\ claims[want[w]] = seen[w] /\ h \in Workspaces \ {w} /\ now - seen[w].at >= Grace
        <5>1. seen[w] \in Claim
          BY DEF TypeOK
        <5> QED
          BY <1>1, <2>1, <3>3, <5>1 DEF SeenOK, Claim
      <4>2. want[w] \in Held(h)
        BY <1>1, <4>1 DEF Held
      <4>3. KindOK(h) /\ KeepOK(h) /\ HeldOK(h) /\ release[h] = Absent
        BY <2>3, <4>1 DEF CalmOf
      <4>4. pc[h] # "idle"
        BY <4>2, <4>3 DEF HeldOK
      <4>5. kind[h] # "install"
        <5> SUFFICES ASSUME kind[h] = "install" PROVE FALSE
          OBVIOUS
        <5>1. pc[h] \in {"list", "drop", "apply"}
          <6>1. pc[h] \in PC
            BY <4>1 DEF TypeOK
          <6> QED
            BY <4>2, <4>3, <6>1 DEF PC, KindOK, HeldOK, Claiming
        <5>2. keep[h] = want[w]
          BY <4>2, <4>3, <5>1 DEF HeldOK
        <5>3. seen[w].at = since[h] /\ now <= since[h] + InstallMax
          BY <1>1, <4>1, <4>3, <5>1, <5>2 DEF KeepOK
        <5>4. now \in Nat /\ since[h] \in Nat
          BY <4>1 DEF TypeOK
        <5> QED
          BY <4>1, <5>3, <5>4
      <4>6. pc[h] = "sweep"
        <5>1. kind[h] \in {"none", "install", "start", "update", "delete"}
          BY <4>1 DEF TypeOK
        <5> QED
          BY <4>3, <4>4, <4>5, <5>1 DEF KindOK
      <4> QED
        BY <2>3, <4>1, <4>6 DEF Goto
    <3> QED
      BY <2>1, <3>2, <3>3 DEF CalmOf, TakeOK
  <2> QED
    BY <1>4, <2>2, <2>3 DEF CheckHolder
<1>5. CASE TakeClaim(w)
  <2>1. UNCHANGED <<now, release, pod, want, prev>> /\ pc[w] = "take"
    BY <1>5 DEF TakeClaim
  <2>2. CASE WriteClaim(w, want[w]) /\ Claimed(w) /\ claims[want[w]].rv = seen[w].rv
    <3>1. claims[want[w]].holder # w
      BY <1>1, <2>1, <2>2 DEF SeenOK
    <3> QED
      BY <1>1, <2>1, <2>2, <3>1, ClaimWritten, OwnClaimed
  <2>3. CASE Again(w) /\ UNCHANGED claims
    BY <1>1, <2>1, <2>3, OwnRefused
  <2> QED
    BY <1>5, <2>2, <2>3 DEF TakeClaim
<1> QED
  BY <1>2, <1>3, <1>4, <1>5

LEMMA OwnUpdate ==
    ASSUME TypeOK, Calm, NEW w \in Workspaces, OtherSteps(w) \/ CommitPatch(w)
    PROVE  CalmOf(w)'
<1> USE Constants, NoFaults DEF Calm, Claiming
<1>1. /\ KindOK(w) /\ KeepOK(w) /\ HeldOK(w) /\ PodOK(w) /\ pc[w] \in {"steps", "patch"}
      /\ kind[w] = "update" /\ prev[w] = pod[w] /\ keep[w] = want[w]
      /\ Held(w) \subseteq {prev[w], keep[w]} /\ release[w] # Absent /\ pod[w] # Absent
  <2>1. KindOK(w) /\ KeepOK(w) /\ HeldOK(w) /\ PodOK(w) /\ pc[w] \in {"steps", "patch"}
    BY DEF CalmOf, OtherSteps, CommitPatch
  <2> QED
    BY <2>1 DEF KindOK, KeepOK, HeldOK
<1>2. /\ UNCHANGED <<now, claims, release, want, prev, since>> /\ Held(w)' = Held(w)
      /\ want[w] \in Alias /\ (keep[w] # NoAlias => claims[keep[w]].holder = w)
  BY <1>1, HeldSame DEF OtherSteps, CommitPatch, world, TypeOK, KeepOK
<1>3. \/ /\ pc'[w] = "patch" /\ kind'[w] = kind[w] /\ keep'[w] = keep[w] /\ UNCHANGED pod
      \/ /\ keep[w] # prev[w] /\ keep'[w] = prev[w] /\ pc'[w] = "list" /\ kind'[w] = kind[w]
         /\ UNCHANGED pod
      \/ /\ keep[w] = prev[w] /\ keep'[w] = keep[w] /\ pc'[w] = "idle" /\ kind'[w] = "none"
         /\ pod'[w] \in {pod[w], want[w]}
      \/ /\ keep[w] # prev[w] /\ keep'[w] = keep[w] /\ pc'[w] = "list" /\ kind'[w] = kind[w]
         /\ pod'[w] = want[w]
  <2>1. CASE OtherSteps(w)
    BY <2>1 DEF OtherSteps, Abort, Return, Goto, TypeOK, world
  <2>2. CASE CommitPatch(w)
    BY <2>2 DEF CommitPatch, Abort, Return, Goto, TypeOK
  <2> QED
    BY <2>1, <2>2
<1>4. pod'[w] # Absent /\ pod'[w] \in {pod[w], want[w]}
  BY <1>1, <1>2, <1>3 DEF Alias
<1>5. KindOK(w)'
  BY <1>1, <1>2, <1>3, <1>4 DEF KindOK
<1>6. KeepOK(w)'
  BY <1>1, <1>2, <1>3, <1>4 DEF KeepOK, PodOK, TypeOK, Alias
<1>7. HeldOK(w)'
  BY <1>1, <1>2, <1>3, <1>4 DEF HeldOK
<1>8. PodOK(w)' /\ TakeOK(w)'
  BY <1>1, <1>2, <1>3, <1>4 DEF PodOK, TakeOK
<1> QED
  BY <1>5, <1>6, <1>7, <1>8 DEF CalmOf

LEMMA OwnList ==
    ASSUME TypeOK, Calm, NEW w \in Workspaces, ListClaims(w)
    PROVE  CalmOf(w)'
<1> USE Constants, NoFaults DEF Calm, Claiming
<1>1. /\ KindOK(w) /\ KeepOK(w) /\ HeldOK(w) /\ PodOK(w)
      /\ UNCHANGED <<now, claims, release, pod, want, kind, keep, prev, since>>
      /\ pc[w] = "list" /\ pc'[w] = "drop" /\ Held(w)' = Held(w)
      /\ todo'[w] = {[alias |-> a, rv |-> claims[a].rv] : a \in Held(w) \ {keep[w]}}
  BY HeldSame DEF ListClaims, CalmOf, Goto, world, TypeOK
<1>2. KindOK(w)' /\ PodOK(w)' /\ TakeOK(w)'
  BY <1>1 DEF KindOK, PodOK, TakeOK
<1>3. KeepOK(w)'
  BY <1>1 DEF KeepOK
<1>4. /\ \A c \in todo'[w] : c.alias # keep[w]
      /\ \A a \in Held(w) : a = keep[w] \/ [alias |-> a, rv |-> claims[a].rv] \in todo'[w]
  BY <1>1
<1>5. HeldOK(w)'
  BY <1>1, <1>4 DEF HeldOK
<1> QED
  BY <1>2, <1>3, <1>5 DEF CalmOf

LEMMA OwnDrop ==
    ASSUME TypeOK, Calm, NEW w \in Workspaces, DropClaim(w)
    PROVE  CalmOf(w)'
<1> USE Constants, NoFaults DEF Calm, Claiming
<1>1. /\ KindOK(w) /\ KeepOK(w) /\ HeldOK(w) /\ PodOK(w) /\ pc[w] = "drop"
      /\ UNCHANGED <<now, pc, release, pod, want, kind, keep, prev, since>>
  BY DEF DropClaim, CalmOf
<1>2. PICK c \in todo[w] :
        /\ \/ claims[c.alias].rv = c.rv /\ claims' = [claims EXCEPT ![c.alias] = NoClaim]
           \/ claims[c.alias].rv # c.rv /\ UNCHANGED claims
        /\ todo' = [todo EXCEPT ![w] = @ \ {c}]
  BY DEF DropClaim
<1>3. /\ todo'[w] = todo[w] \ {c} /\ c.alias \in Aliases /\ c.alias # keep[w]
      /\ \A a \in Aliases \ {c.alias} : claims'[a] = claims[a]
      /\ \/ claims[c.alias].rv = c.rv /\ Held(w)' = Held(w) \ {c.alias}
         \/ claims[c.alias].rv # c.rv /\ Held(w)' = Held(w) /\ UNCHANGED claims
  BY <1>1, <1>2, NoClaimType DEF TypeOK, HeldOK, Held
<1>4. KindOK(w)' /\ TakeOK(w)'
  BY <1>1 DEF KindOK, TakeOK
<1>5. KeepOK(w)'
  BY <1>1, <1>3 DEF KeepOK, TypeOK, Alias
<1>6. PodOK(w)'
  <2>1. pod[w] \in Aliases => pod[w] = keep[w]
    BY <1>1 DEF KindOK, KeepOK, TypeOK
  <2> QED
    BY <1>1, <1>3, <2>1 DEF PodOK
<1>7. /\ \A d \in todo'[w] : d.alias # keep[w]
      /\ \A a \in Held(w)' : a = keep[w] \/ [alias |-> a, rv |-> claims'[a].rv] \in todo'[w]
  <2>1. ASSUME NEW a \in Held(w)', a # keep[w]
        PROVE  [alias |-> a, rv |-> claims'[a].rv] \in todo[w] \ {c}
    <3>1. claims'[a] = claims[a] /\ a \in Held(w)
      BY <1>3, <2>1 DEF Held
    <3>2. [alias |-> a, rv |-> claims[a].rv] \in todo[w]
      BY <1>1, <2>1, <3>1 DEF HeldOK
    <3>3. [alias |-> a, rv |-> claims[a].rv] # c
      BY <1>3, <2>1, <3>1
    <3> QED
      BY <3>1, <3>2, <3>3
  <2> QED
    BY <1>1, <1>3, <2>1 DEF HeldOK
<1>8. HeldOK(w)'
  BY <1>1, <1>3, <1>7 DEF HeldOK
<1> QED
  BY <1>4, <1>5, <1>6, <1>8 DEF CalmOf

LEMMA OwnDropped ==
    ASSUME TypeOK, Calm, NEW w \in Workspaces, Dropped(w)
    PROVE  CalmOf(w)'
<1> USE Constants, NoFaults DEF Calm, Claiming
<1>1. /\ KindOK(w) /\ KeepOK(w) /\ HeldOK(w) /\ PodOK(w) /\ pc[w] = "drop"
      /\ UNCHANGED <<now, claims, release, pod, want, keep, prev, since>> /\ Held(w)' = Held(w)
      /\ IF kind[w] = "update" THEN pc'[w] = "idle" /\ kind'[w] = "none"
                               ELSE pc'[w] = "apply" /\ kind'[w] = kind[w]
  BY HeldSame DEF Dropped, CalmOf, Goto, Return, world, TypeOK
<1>2. Held(w) \subseteq {keep[w]} /\ (kind[w] = "update" => keep[w] = pod[w])
  BY <1>1 DEF Dropped, HeldOK, KeepOK
<1>3. KindOK(w)'
  BY <1>1 DEF KindOK
<1>4. KeepOK(w)'
  BY <1>1 DEF KeepOK
<1>5. HeldOK(w)'
  BY <1>1, <1>2 DEF HeldOK, KindOK
<1>6. PodOK(w)' /\ TakeOK(w)'
  BY <1>1 DEF PodOK, TakeOK
<1> QED
  BY <1>3, <1>4, <1>5, <1>6 DEF CalmOf

LEMMA OwnApply ==
    ASSUME TypeOK, Calm, NEW w \in Workspaces, Apply(w)
    PROVE  CalmOf(w)'
<1> USE Constants, NoFaults DEF Calm, Claiming
<1>1. /\ KindOK(w) /\ KeepOK(w) /\ HeldOK(w) /\ pc[w] = "apply"
      /\ UNCHANGED <<now, claims>> /\ Held(w)' = Held(w) /\ keep[w] \in Alias
      /\ pc'[w] = "idle" /\ kind'[w] = "none" /\ pod'[w] = keep[w]
      /\ release'[w] = IF kind[w] = "install" THEN keep[w] ELSE release[w]
  BY HeldSame DEF Apply, CalmOf, Goto, Return, TypeOK
<1>2. release'[w] # Absent /\ pod'[w] # Absent /\ Held(w) \subseteq {keep[w]}
  BY <1>1 DEF KindOK, HeldOK, Alias, TypeOK
<1>3. KindOK(w)' /\ KeepOK(w)'
  BY <1>1, <1>2 DEF KindOK, KeepOK
<1>4. HeldOK(w)'
  BY <1>1, <1>2 DEF HeldOK
<1>5. PodOK(w)' /\ TakeOK(w)'
  BY <1>1 DEF PodOK, TakeOK, KeepOK
<1> QED
  BY <1>3, <1>4, <1>5 DEF CalmOf

LEMMA OwnDelete ==
    ASSUME TypeOK, Calm, NEW w \in Workspaces, Uninstall(w) \/ Sweep(w)
    PROVE  CalmOf(w)'
<1> USE Constants, NoFaults DEF Calm, Claiming
<1>1. CASE Uninstall(w)
  <2>1. pc[w] = "uninstall" /\ pc'[w] = "sweep" /\ kind'[w] = kind[w] /\ release'[w] = Absent
        /\ pod'[w] = Absent /\ KindOK(w)
    BY <1>1 DEF Uninstall, Goto, TypeOK, CalmOf
  <2> QED
    BY <2>1 DEF CalmOf, KindOK, KeepOK, HeldOK, PodOK, TakeOK
<1>2. CASE Sweep(w)
  <2>1. /\ pc[w] = "sweep" /\ pc'[w] = "idle" /\ kind'[w] = "none" /\ UNCHANGED <<release, pod>>
        /\ KindOK(w) /\ release[w] = Absent /\ pod[w] = Absent
    BY <1>2 DEF Sweep, Goto, Return, TypeOK, CalmOf, KindOK
  <2>2. Held(w)' = {}
    BY <1>2, NoClaimType DEF Sweep, Held
  <2> QED
    BY <2>1, <2>2 DEF CalmOf, KindOK, KeepOK, HeldOK, PodOK, TakeOK
<1> QED
  BY <1>1, <1>2

LEMMA CalmStep ==
    ASSUME InstallMax < Grace, TypeOK, VersionInv, CalmInv, [Next]_vars
    PROVE  CalmInv'
<1> SUFFICES ASSUME faults' = {} PROVE \A u \in Workspaces : CalmOf(u)'
  BY DEF CalmInv
<1>1. ASSUME NEW w \in Workspaces, Act(w) PROVE \A u \in Workspaces : CalmOf(u)'
  <2>1. faults' = faults /\ Calm
    BY <1>1
    DEF Act, Operation, Step, Install, Start, UpdateAlias, Begin, Stop, Delete, Crash,
        CreateClaim, GetClaim, CheckHolder, TakeClaim, OtherSteps, CommitPatch, ListClaims,
        DropClaim, Dropped, Apply, Uninstall, Sweep, Calm, CalmInv
  <2>2. CalmOf(w)'
    BY <1>1, <2>1, NoFaults, OwnBegin, OwnStop, OwnClaim, OwnUpdate, OwnList, OwnDrop,
       OwnDropped, OwnApply, OwnDelete
    DEF Act, Operation, Step, Crash, Calm
  <2>3. ASSUME NEW u \in Workspaces \ {w} PROVE CalmOf(u)'
    <3>1. Same(u) /\ now' = now /\ CalmOf(u)
      BY <1>1, <2>1, Frame DEF Act, Calm
    <3>2. rvs' \in {rvs, rvs + 1} /\ \A a \in Aliases : Changed(a)
      BY ClaimsChange DEF VersionInv
    <3>3. pc[u] = "sweep" \/ Untouched(u)
      BY <1>1, <2>1, ClaimsOfOther
    <3>4. KindOK(u)' /\ KeepOK(u)' /\ HeldOK(u)' /\ PodOK(u)'
      BY <3>1, <3>3, CalmKept
    <3>5. TakeOK(u)'
      BY <1>1, <2>1, <3>1, <3>2, TakeKept
    <3> QED
      BY <3>4, <3>5 DEF CalmOf
  <2> QED
    BY <2>2, <2>3
<1>2. ASSUME Tick, NEW u \in Workspaces PROVE CalmOf(u)'
  <2>1. /\ CalmOf(u) /\ UNCHANGED <<claims, release, pod, kind, pc, want, keep, prev, seen, since, todo>>
        /\ now' = now + 1 /\ now \in Nat /\ since[u] \in Nat /\ InstallMax \in Nat
        /\ kind[u] = "install" /\ keep[u] # NoAlias => now < since[u] + InstallMax
        /\ Held(u)' = Held(u)
    BY <1>2, Constants, HeldSame DEF Tick, world, local, CalmInv, TypeOK
  <2>2. KeepOK(u)'
    BY <2>1 DEF CalmOf, KeepOK
  <2>3. KindOK(u)' /\ HeldOK(u)' /\ PodOK(u)' /\ TakeOK(u)'
    BY <2>1 DEF CalmOf, KindOK, HeldOK, PodOK, TakeOK
  <2> QED
    BY <2>2, <2>3 DEF CalmOf
<1>3. ASSUME UNCHANGED vars, NEW u \in Workspaces PROVE CalmOf(u)'
  BY <1>3
  DEF vars, world, local, CalmInv, CalmOf, KindOK, KeepOK, HeldOK, PodOK, TakeOK, Held
<1> QED
  BY <1>1, <1>2, <1>3 DEF Next, Act

LEMMA CalmAlways ==
    ASSUME InstallMax < Grace
    PROVE  Spec => [](TypeOK /\ VersionInv /\ CalmInv)
<1>1. Init => CalmInv
  <2> SUFFICES ASSUME Init, NEW w \in Workspaces PROVE CalmOf(w)
    BY DEF CalmInv
  <2>1. /\ pc[w] = "idle" /\ kind[w] = "none" /\ release[w] = Absent /\ pod[w] = Absent
        /\ Held(w) = {}
    BY NoClaimType, Constants DEF Init, Held
  <2> QED
    BY <2>1, Constants DEF CalmOf, KindOK, KeepOK, HeldOK, PodOK, TakeOK, Claiming
<1>2. TypeOK /\ VersionInv /\ CalmInv /\ [Next]_vars => CalmInv'
  BY CalmStep
<1> QED
  BY <1>1, <1>2, VersionAlways, PTL DEF Spec

\* While no call fails, and an install takes less than the grace period of a
\* claim, every workspace that carries an alias is found by it: none is ever
\* taken away from a workspace that still needs it, although it is read,
\* checked and taken over in separate API calls.
THEOREM AliasesFind ==
    ASSUME InstallMax < Grace
    PROVE  Spec => []AliasFindsWorkspace
<1>1. TypeOK /\ CalmInv => AliasFindsWorkspace
  BY Constants
  DEF AliasFindsWorkspace, FindWorkspaceByAlias, CalmInv, CalmOf, PodOK
<1> QED
  BY <1>1, CalmAlways, PTL

\* Under the same conditions no claim is left behind: between operations a
\* workspace holds at most one claim, none without a release, and the one of
\* its pod if it has one.
THEOREM ClaimsReturned ==
    ASSUME InstallMax < Grace
    PROVE  Spec => []NoClaimLeak
<1>1. TypeOK /\ CalmInv => NoClaimLeak
  <2> SUFFICES ASSUME TypeOK, CalmInv, faults = {}, NEW w \in Workspaces, pc[w] = "idle"
               PROVE  /\ release[w] = Absent => Held(w) = {}
                      /\ pod[w] # Absent => Held(w) \subseteq {pod[w]}
                      /\ Cardinality(Held(w)) <= 1
    BY DEF NoClaimLeak
  <2>1. /\ release[w] = Absent => Held(w) = {}
        /\ pod[w] # Absent => Held(w) \subseteq {pod[w]}
        /\ \A a, b \in Held(w) : a = b
    BY DEF CalmInv, CalmOf, HeldOK
  <2>2. CASE Held(w) = {}
    BY <2>1, <2>2, FS_EmptySet
  <2>3. CASE Held(w) # {}
    <3>1. PICK a \in Held(w) : TRUE
      BY <2>3
    <3>2. Held(w) = {a}
      BY <2>1, <3>1
    <3>3. Cardinality({a}) = 1
      BY FS_Singleton
    <3> QED
      BY <2>1, <3>2, <3>3
  <2> QED
    BY <2>2, <2>3
<1> QED
  BY <1>1, CalmAlways, PTL
=============================================================================
