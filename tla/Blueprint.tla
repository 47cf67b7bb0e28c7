------------------------------ MODULE Blueprint ------------------------------
(***************************************************************************)
(* Blueprint documents (internal/blueprint): how a document inherits from  *)
(* its template, what its revision covers, how CEL expressions travel      *)
(* through a client, and the checks before a document is stored and when   *)
(* it is loaded.                                                           *)
(*                                                                         *)
(* A document is a function from the paths of its leaves, sequences of     *)
(* keys of which none is a prefix of another, to leaves: the shape of a    *)
(* YAML mapping without its empty mappings.  Junk is the text, or the key, *)
(* that no parser and no struct of the code accepts, and Fraction a number *)
(* that is no integer, which a decoder truncates.                          *)
(***************************************************************************)
EXTENDS Integers, SequencesExt

CONSTANTS
    None,
    CelText   \* expression -> the text it evaluates to, or None: it fails

Junk     == "junk"
Fraction == "1.5"

\* A scalar, a scalar tagged !cel, a string with the prefix "!cel:", a list.
Str(s)   == [kind |-> "str",   items |-> <<s>>]
Cel(x)   == [kind |-> "cel",   items |-> <<x>>]
Shown(x) == [kind |-> "shown", items |-> <<x>>]
List(s)  == [kind |-> "seq",   items |-> s]

\* An item of a list: an entry of initScripts, with its name, or a word.  Its
\* body is a string or an expression, like a scalar.
Unnamed == ""
Item(name, kind, body) == [name |-> name, kind |-> kind, body |-> body]
Script(name, body) == Item(name, "str", body)
Word(text)         == Item(Unnamed, "str", text)
Retag(s, from, to) ==
    [i \in DOMAIN s |-> IF s[i].kind = from THEN Item(s[i].name, to, s[i].body) ELSE s[i]]

IsItem(i) == i = Item(i.name, i.kind, i.body) /\ i.kind \in {"str", "cel", "shown"}
IsLeaf(l) ==
    \/ /\ l = List(l.items) /\ l.items \in Seq(Range(l.items))
       /\ \A i \in Range(l.items) : IsItem(i)
    \/ l \in {Str(l.items[1]), Cel(l.items[1]), Shown(l.items[1])}

IsDoc(d) ==
    /\ \A p, q \in DOMAIN d : p # q => ~IsPrefix(p, q)
    /\ \A q \in DOMAIN d : q \in Seq(STRING) /\ q # <<>> /\ IsLeaf(d[q])

\* What a parser reads at a path; "" where nothing is set.  An expression
\* that was not restored is a string like any other.
Text(d, q) == IF q \notin DOMAIN d THEN ""
              ELSE IF d[q].kind \in {"shown", "seq"} THEN Junk ELSE d[q].items[1]
\* The words of a list.
Words(d, q) == IF q \notin DOMAIN d THEN {}
               ELSE IF d[q].kind = "seq" THEN {i.body : i \in Range(d[q].items)} ELSE {Junk}

Template(d)   == IF <<"template">> \in DOMAIN d THEN Text(d, <<"template">>) ELSE None
IsTemplate(d) == Text(d, <<"isTemplate">>) = "true"

-----------------------------------------------------------------------------
(* Inheritance.                                                            *)

\* The strategy for initScripts: an entry of the child replaces the parent's
\* first one of its name, the child's other named entries follow.
Named(s) == {s[i].name : i \in DOMAIN s} \ {Unnamed}
ChildByName(child, name) ==
    child[CHOOSE i \in DOMAIN child :
            child[i].name = name /\ \A j \in i + 1..Len(child) : child[j].name # name]
Override(parent, child, i) ==
    IF /\ parent[i].name \in Named(child)
       /\ \A j \in 1..i - 1 : parent[j].name # parent[i].name
    THEN ChildByName(child, parent[i].name) ELSE parent[i]
Remaining(parent, child) ==
    LET f[i \in 0..Len(child)] ==
          IF i = 0 THEN <<>>
          ELSE IF child[i].name \in Named(child) \ Named(parent) THEN Append(f[i - 1], child[i])
          ELSE f[i - 1]
    IN f[Len(child)]
ByName(parent, child) ==
    [i \in DOMAIN parent |-> Override(parent, child, i)] \o Remaining(parent, child)

\* The lists with a strategy of their own (findStrategy).
Strategic(q) ==
    \/ Last(q) = "initScripts"
    \/ Len(q) > 1 /\ q[Len(q) - 1] = "claimSpec" /\ Last(q) = "accessModes"
    \/ Len(q) = 3 /\ q[1] = "apps" /\ q[3] = "start"

\* Their items are decoded and encoded again: what was tagged as an expression
\* becomes its text.
Decoded(s) == Retag(s, "cel", "str")

Appended(q, parent, child) ==   \* mutant: entries with a known name are appended too
    IF parent.kind # "seq" \/ child.kind # "seq" \/ ~Strategic(q) THEN child
    ELSE IF Last(q) # "initScripts" THEN List(Decoded(child.items))
    ELSE List(Decoded(parent.items) \o SelectSeq(Decoded(child.items), LAMBDA s : s.name # Unnamed))

\* mergeValueNodes at a path both documents set: the child's value stands, but
\* for two lists with a strategy, which is to take the child's items or, for
\* initScripts, to merge by name.
MergeValues(q, parent, child) ==
    IF parent.kind # "seq" \/ child.kind # "seq" \/ ~Strategic(q) THEN child
    ELSE IF Last(q) # "initScripts" THEN List(Decoded(child.items))
    ELSE List(ByName(Decoded(parent.items), Decoded(child.items)))

\* A leaf of the parent is inherited when the child sets nothing in its
\* place, unless isTemplate or description is the key the child lacks.
Sets(d, p) == \E q \in DOMAIN d : IsPrefix(p, q)
Inherits(child, q) ==
    /\ ~\E p \in DOMAIN child : IsPrefix(p, q) \/ IsPrefix(q, p)
    /\ \A i \in DOMAIN q :
         q[i] \in {"isTemplate", "description"} /\ ~Sets(child, SubSeq(q, 1, i)) =>
             i > 1 /\ ~Sets(child, SubSeq(q, 1, i - 1))

\* mergeYAMLNodes.
Merge(parent, child) ==
    [q \in DOMAIN child \union {p \in DOMAIN parent : Inherits(child, p)} |->
        IF q \notin DOMAIN child THEN parent[q]
        ELSE IF q \in DOMAIN parent THEN MergeValues(q, parent[q], child[q])
        ELSE child[q]]

\* The content a revision is the hash of: all but two top-level keys.
Content(d) == [q \in {p \in DOMAIN d : p[1] \notin {"description", "isTemplate"}} |-> d[q]]

-----------------------------------------------------------------------------
(* CEL expressions: as a client sees them, as they are stored, as they are *)
(* evaluated.                                                              *)

Show(d) == [q \in DOMAIN d |->
    IF d[q].kind = "cel" THEN Shown(d[q].items[1])
    ELSE IF d[q].kind = "seq" THEN List(Retag(d[q].items, "cel", "shown")) ELSE d[q]]
Restore(d) == [q \in DOMAIN d |->
    IF d[q].kind = "shown" THEN Cel(d[q].items[1])
    ELSE IF d[q].kind = "seq" THEN List(Retag(d[q].items, "shown", "cel")) ELSE d[q]]

Expressions(l) == IF l.kind = "cel" THEN {l.items[1]}
                  ELSE IF l.kind = "seq" THEN {i.body : i \in {x \in Range(l.items) : x.kind = "cel"}}
                  ELSE {}
Evaluates(d) == \A q \in DOMAIN d : \A x \in Expressions(d[q]) : CelText[x] # None
EvalItem(i) == IF i.kind = "cel" THEN Item(i.name, "str", CelText[i.body]) ELSE i
EvalLeaf(l) == IF l.kind = "cel" THEN Str(CelText[l.items[1]])
               ELSE IF l.kind = "seq" THEN List([i \in DOMAIN l.items |-> EvalItem(l.items[i])])
               ELSE l
Eval(d) == [q \in DOMAIN d |-> EvalLeaf(d[q])]

-----------------------------------------------------------------------------
(* The checks, on an evaluated document.                                   *)

\* The paths of storages and podman.storages entries.
Storages(b) == {SubSeq(q, 1, 2) : q \in {p \in DOMAIN b : Len(p) > 2 /\ p[1] = "storages"}}
    \union {SubSeq(q, 1, 3) : q \in {p \in DOMAIN b : Len(p) > 3 /\ IsPrefix(<<"podman", "storages">>, p)}}
OwnerIDs == {"fsOwnerUid", "fsOwnerGid"}

\* Maps take any key, structs (KnownFields) only their own.
TakesAnyKey(p) == \/ p \in {<<"env">>, <<"storages">>, <<"podman", "storages">>, <<"apps">>}
                  \/ \E i \in DOMAIN p : p[i] \in {"claimSpec", "securityContext"}
\* The decoder refuses unknown fields and numbers that are none.
Decodes(b) == \A q \in DOMAIN b :
    /\ \A i \in DOMAIN q : q[i] = Junk => TakesAnyKey(SubSeq(q, 1, i - 1))
    /\ Last(q) \in OwnerIDs \union {"port"} => Text(b, q) # Junk

\* The validate tags of models.Blueprint, for the fields the models set.
StructTags(b) == Text(b, <<"resources", "cpu">>) # ""

\* isYAMLInteger, of what the decoder may have truncated.
ValidateStorageOwnerIDs(b) ==
    \A s \in Storages(b), k \in OwnerIDs : Text(b, Append(s, k)) \notin {Junk, Fraction}

\* A strict decode of the claim; its resources are named storage.
ValidateClaimSpecs(b) == \A q \in DOMAIN b, s \in Storages(b) :
    IsPrefix(Append(s, "claimSpec"), q) =>
        LET c == SubSeq(q, Len(s) + 2, Len(q)) IN
        /\ c # <<>> => Head(c) # Junk
        /\ Len(c) = 3 /\ c[1] = "resources" /\ c[2] \in {"requests", "limits"} =>
             c[3] = "storage" /\ Text(b, q) # Junk

ValidateStorageTypes(b) == \A s \in Storages(b) :
    Text(b, Append(s, "type")) \in {"", "local", "shared", "emptyDir", "memory"}

ValidateStorageSizeLimits(b) == \A s \in Storages(b) :
    LET limit == Text(b, Append(s, "sizeLimit")) IN
    Text(b, Append(s, "enabled")) = "true" /\ limit # "" =>
        Text(b, Append(s, "type")) \in {"emptyDir", "memory"} /\ limit # Junk

ValidateResourceQuantities(b) ==
    /\ \A r \in {<<"resources">>, <<"podman", "resources">>}, k \in {"cpu", "memory"} :
         Text(b, Append(r, k)) # Junk
    /\ ~Sets(b, <<"podman", "resources", "overcommit">>)

WorkspacePort == "grpc"   \* models.WORKSPACE_PORT
ValidateWebProxy(b) == Text(b, <<"network", "webProxy", "port">>) # WorkspacePort

ValidateEnvNames(b) == \A q \in DOMAIN b : q[1] = "env" /\ Len(q) > 1 => q[2] # Junk

ValidateIgnoreOrphans(b) == Junk \notin Words(b, <<"k8shelld", "ignoreOrphans">>)

\* The first check of validatePodmanProfile; profiles are not modelled.
ValidatePodmanProfile(b) == Text(b, <<"podman", "profile">>) # Junk

\* Strict decodes; the workspace's own context must leave k8shelld root and
\* the capabilities it needs.
RequiredCaps == {"CHOWN", "SETUID", "SETGID"}
Caps(b, sc, k) == Words(b, sc \o <<"capabilities", k>>)
ValidateSecurityContexts(b) ==
    /\ \A sc \in {<<"securityContext">>, <<"podman", "securityContext">>} :
         /\ \A q \in DOMAIN b : IsPrefix(sc, q) /\ q # sc => q[Len(sc) + 1] # Junk
         /\ Junk \notin Caps(b, sc, "add") \union Caps(b, sc, "drop")
    /\ \A r \in {<<"runAsUser", "0">>, <<"runAsGroup", "0">>, <<"runAsNonRoot", "false">>,
                 <<"readOnlyRootFilesystem", "false">>, <<"allowPrivilegeEscalation", "true">>} :
         Text(b, <<"securityContext", r[1]>>) \in {"", r[2]}
    /\ LET add  == Caps(b, <<"securityContext">>, "add")
           drop == Caps(b, <<"securityContext">>, "drop")
       IN IF "ALL" \in drop THEN RequiredCaps \subseteq add
                            ELSE RequiredCaps \intersect drop = {}

RequireDescription == FALSE
ValidateDescriptionRequired(b) == RequireDescription => Text(b, <<"description">>) # ""

SubmitUnlimited(b) ==   \* mutant: size limits are not looked at
    /\ ValidateStorageOwnerIDs(b) /\ Decodes(b) /\ StructTags(b)
    /\ ValidateClaimSpecs(b) /\ ValidateStorageTypes(b)
    /\ ValidateResourceQuantities(b) /\ ValidateWebProxy(b) /\ ValidateEnvNames(b)
    /\ ValidateIgnoreOrphans(b) /\ ValidatePodmanProfile(b)
    /\ ValidateSecurityContexts(b) /\ ValidateDescriptionRequired(b)

\* validateRawBlueprint, for a submitted document merged with its template.
SubmitChecks(b) ==
    /\ ValidateStorageOwnerIDs(b) /\ Decodes(b) /\ StructTags(b)
    /\ ValidateClaimSpecs(b) /\ ValidateStorageTypes(b) /\ ValidateStorageSizeLimits(b)
    /\ ValidateResourceQuantities(b) /\ ValidateWebProxy(b) /\ ValidateEnvNames(b)
    /\ ValidateIgnoreOrphans(b) /\ ValidatePodmanProfile(b)
    /\ ValidateSecurityContexts(b) /\ ValidateDescriptionRequired(b)

\* validateAllBlueprints, for a loaded and resolved one.
LoadChecks(b) ==
    /\ Decodes(b) /\ StructTags(b)
    /\ ValidateClaimSpecs(b) /\ ValidateStorageTypes(b) /\ ValidateStorageSizeLimits(b)
    /\ ValidateResourceQuantities(b) /\ ValidateWebProxy(b) /\ ValidateEnvNames(b)
    /\ ValidateIgnoreOrphans(b) /\ ValidatePodmanProfile(b)
    /\ ValidateSecurityContexts(b) /\ ValidateDescriptionRequired(b)
=============================================================================
