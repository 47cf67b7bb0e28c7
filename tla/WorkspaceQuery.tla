--------------------------- MODULE WorkspaceQuery ---------------------------
(***************************************************************************)
(* QueryWorkspaces (internal/workspace/query.go): a listing that a client  *)
(* filters, sorts and reads page by page, and that the obligations of the  *)
(* gateway restrict.  The users behind a roles obligation are fetched from *)
(* the identity service page by page while roles change; conditions are    *)
(* pushed down into the label selector of GetWorkspaces and checked again  *)
(* in memory.                                                              *)
(*                                                                         *)
(* A string is the sequence of its bytes.  A workspace has the fields of   *)
(* FieldNames, <<>> where a field is not set; cpu is treated like memory,  *)
(* created like both, and the other string fields like blueprint.          *)
(***************************************************************************)
EXTENDS Integers, Sequences, FiniteSetsExt, SequencesExt

CONSTANTS
    Workspaces,     \* sets of workspaces a cluster may hold
    Payloads,       \* the queries a client may send
    Holders0,       \* users with the role of the obligation, as identity lists them
    Users,          \* users the role may be granted to
    Magnitude,      \* the quantities that parse, with their values
    PageSize,       \* users identity returns at most per page
    Unrestricted,            \* stands for a nil slice: no restriction
    Failures,       \* calls may fail
    MaxGrants,      \* bound on the grants of the role
    MaxRevokes      \* bound on the withdrawals of the role

ASSUME PageSizeAssumption == PageSize \in Nat \ {0}

VARIABLES
    cluster,    \* the workspaces
    holders,    \* users with the role, in the order identity lists them
    payload,    \* the query of the client
    pc,         \* "call", "roles", "fetch", "answered" or "error"
    offset,     \* Page.offset of the current call
    usersSeen,  \* usernamesWithRoles: offset and usernames
    scope,      \* obligationScope
    result,     \* answer to the last call
    walked,     \* answers to all calls of the client
    always,     \* users who have had the role since the call began
    ever,       \* users who have had it at some time since the call began
    grants, revokes

callVars == <<offset, usersSeen, scope, result, walked>>
roles == <<holders, always, ever, grants, revokes>>
queryVars == <<cluster, payload, pc, callVars, roles>>

FieldNames == {"name", "username", "organization", "blueprint", "runtime", "memory"}
Labels == {"name", "username", "organization", "blueprint"}
Unset == <<>>
Star == 42
Mark == 63
Text == Seq(0..255)

\* What the cluster, identity and the validation of a query deliver: fields
\* and operands are texts, every operator but EXISTS has an operand, and a
\* nil slice is not a set of users.
ASSUME QueryConstants ==
    /\ \A c \in Workspaces :
         IsFiniteSet(c) /\ \A w \in c : \A f \in FieldNames : w[f] \in Text
    /\ \A q \in Payloads :
         /\ q.limit \in Nat /\ q.or \in BOOLEAN /\ q.obligations.roles \in BOOLEAN
         /\ q.obligations.username \in Text /\ DOMAIN q.conditions \subseteq Nat
         /\ \A i \in DOMAIN q.conditions :
              LET c == q.conditions[i]
              IN  /\ c.field \in FieldNames
                  /\ c.op # "EXISTS" => c.values \in Seq(Text) /\ c.values # <<>>
    /\ Holders0 \in Seq(Users)
    /\ \A S \in SUBSET (Users \cup {q.obligations.username : q \in Payloads}) : S # Unrestricted

-----------------------------------------------------------------------------
(* Strings *)

\* strings.ToLower
Lower(s) == [i \in DOMAIN s |-> IF s[i] \in 65..90 THEN s[i] + 32 ELSE s[i]]

\* strings.EqualFold
EqualFold(s, t) == Lower(s) = Lower(t)

\* s < t
TextLess(s, t) ==
    \E n \in 0..Len(s) :
        /\ n < Len(t)
        /\ SubSeq(s, 1, n) = SubSeq(t, 1, n)
        /\ n = Len(s) \/ s[n + 1] < t[n + 1]

HasWildcard(s) == \E i \in DOMAIN s : s[i] \in {Star, Mark}

\* The star stands for at least one byte.
StarTakesOne(j, V) == j + 1..V + 1

\* Where the rest of the value may begin after a star.
StarMayEnd(j, V) == j..V + 1

\* globMatchLower on the suffixes of pattern and value that begin at i and j
GlobMatchLower(pattern, value) ==
    LET P == Len(pattern)
        V == Len(value)
        m[i \in 1..P + 1] == [j \in 1..V + 1 |->
            IF i > P THEN j > V
            ELSE IF pattern[i] = Star THEN i = P \/ \E k \in StarMayEnd(j, V) : m[i + 1][k]
            ELSE j <= V /\ pattern[i] \in {Mark, value[j]} /\ m[i + 1][j + 1]]
    IN m[1][1]

GlobMatch(pattern, value) == GlobMatchLower(Lower(pattern), Lower(value))

-----------------------------------------------------------------------------
(* Filters *)

Parses(s) == s \in DOMAIN Magnitude

Compare(op, x, y) ==
    CASE op = "EQ" -> x = y
      [] op = "GT" -> x > y
      [] op = "GTE" -> x >= y
      [] op = "LT" -> x < y
      [] op = "LTE" -> x <= y

\* matchesQuantity returns an error for a string that does not parse.
MatchesQuantity(value, op, raw) ==
    IF Parses(value) /\ Parses(raw)
    THEN IF Compare(op, Magnitude[value], Magnitude[raw]) THEN "yes" ELSE "no"
    ELSE "error"

MatchesText(w, c) ==
    LET value == w[c.field]
    IN  CASE c.op = "EXISTS" -> (value # Unset) = (Len(c.values) # 1 \/ c.values[1] = "true")
          [] c.op = "EQ" -> value # Unset /\ GlobMatch(c.values[1], value)
          [] c.op = "NE" -> ~(value # Unset /\ GlobMatch(c.values[1], value))
          [] c.op = "IN" ->
                value # Unset /\ \E i \in DOMAIN c.values : EqualFold(c.values[i], value)

MatchesCondition(w, c) ==
    IF c.field # "memory" THEN IF MatchesText(w, c) THEN "yes" ELSE "no"
    ELSE LET equals == MatchesQuantity(w.memory, "EQ", c.values[1])
         IN  IF w.memory = Unset THEN IF c.op = "NE" THEN "yes" ELSE "no"
             ELSE IF c.op # "NE" THEN MatchesQuantity(w.memory, c.op, c.values[1])
             ELSE IF equals = "error" THEN "error"
             ELSE IF equals = "yes" THEN "no" ELSE "yes"

\* The first condition that fails, or that decides the group, ends the loop.
MatchesFilters(w, q) ==
    LET verdict == [i \in DOMAIN q.conditions |-> MatchesCondition(w, q.conditions[i])]
        decides == {i \in DOMAIN verdict : verdict[i] \in {"error", IF q.or THEN "yes" ELSE "no"}}
    IN  IF q.conditions = <<>> THEN "yes"
        ELSE IF decides # {} THEN verdict[Min(decides)]
        ELSE IF q.or THEN "no" ELSE "yes"

-----------------------------------------------------------------------------
(* Obligations and pushdown *)

\* intersectUsernames: b restricts a, case-insensitively.
IntersectUsernames(a, b) ==
    CASE a = Unrestricted -> b
      [] b = Unrestricted -> a
      [] OTHER -> {v \in a : \E u \in b : EqualFold(u, v)}

\* The check in memory is left to the label selector.
ScopeTrusted(s, w) == TRUE

\* obligationScope.matches
ScopeMatches(s, w) ==
    /\ s.organization = Unset \/ EqualFold(w.organization, s.organization)
    /\ s.usernames = Unrestricted \/ \E u \in s.usernames : EqualFold(u, w.username)

\* Values the label selector can express exactly.
PushableValues(c) ==
    IF c.op \in {"EQ", "IN"} /\ \A i \in DOMAIN c.values : ~HasWildcard(c.values[i])
    THEN c.values ELSE <<>>

\* Conditions of an OR group are pushed down as well.
PushableOfAnyGroup(q, field) ==
    {i \in DOMAIN q.conditions :
        q.conditions[i].field = field /\ PushableValues(q.conditions[i]) # <<>>}

\* The positions of the conditions on field that may be pushed down.
Pushable(q, field) ==
    {i \in DOMAIN q.conditions :
        ~q.or /\ q.conditions[i].field = field /\ PushableValues(q.conditions[i]) # <<>>}

\* The first value list of a condition on field that is a single value.
PushedValue(q, field) ==
    LET single == {i \in Pushable(q, field) :
                        Len(q.conditions[i].values) = 1 /\ q.conditions[i].values[1] # Unset}
    IN  IF single = {} THEN Unset ELSE q.conditions[Min(single)].values[1]

PushdownOptionsFromPayload(q) ==
    LET byUser == Pushable(q, "username")
    IN  [usernames |-> IF byUser = {} THEN Unrestricted
                        ELSE ToSet(q.conditions[Min(byUser)].values),
         organization |-> PushedValue(q, "organization"),
         blueprint |-> PushedValue(q, "blueprint"),
         name |-> PushedValue(q, "name")]

\* obligationScope.narrow
Narrow(s, opts) ==
    [opts EXCEPT !.organization = IF s.organization # Unset THEN s.organization ELSE @,
                 !.usernames = IntersectUsernames(@, s.usernames)]

\* The labels of w against the selector of opts.  An empty list of usernames
\* restricts nothing.
Selected(w, opts) ==
    /\ opts.usernames \in {Unrestricted, {}} \/ w.username \in opts.usernames
    /\ opts.organization \in {Unset, w.organization}
    /\ opts.blueprint \in {Unset, w.blueprint}
    /\ opts.name \in {Unset, w.name}

-----------------------------------------------------------------------------
(* Sort and page *)

ValueLess(field, v, u) ==
    IF field = "memory" /\ Parses(v) /\ Parses(u)
    THEN Magnitude[v] < Magnitude[u] ELSE TextLess(v, u)

\* The first sort whose texts differ decides; a descending one negates less.
Less(x, y, sorts) ==
    LET differ == {i \in DOMAIN sorts : x[sorts[i].field] # y[sorts[i].field]}
        s == sorts[Min(differ)]
    IN  /\ differ # {}
        /\ ValueLess(s.field, x[s.field], y[s.field]) # s.desc

\* sort.SliceStable sorts up to 20 elements by insertion from the right.
Insert(sorted, w, sorts) ==
    LET stays == {i \in DOMAIN sorted : ~Less(w, sorted[i], sorts)}
    IN  InsertAt(sorted, Max(stays \cup {0}) + 1, w)

SortWorkspaces(list, sorts) ==
    LET sorted[n \in 0..Len(list)] ==
            IF n = 0 THEN <<>> ELSE Insert(sorted[n - 1], list[n], sorts)
    IN  sorted[Len(list)]

\* The page ends one element early.
PageEndsEarly(n, from, limit) == IF limit > 0 /\ from + limit < n THEN from + limit - 1 ELSE n

PageEnd(n, from, limit) == IF limit > 0 /\ from + limit < n THEN from + limit ELSE n

\* list[offset:end]; a limit of 0 is no limit.
PageWorkspaces(list, from, limit) == SubSeq(list, from + 1, PageEnd(Len(list), from, limit))

DefaultSort == <<[field |-> "name", desc |-> FALSE]>>

-----------------------------------------------------------------------------
(* The calls of one client *)

NoScope == [organization |-> Unset, usernames |-> Unrestricted]

QueryInit ==
    /\ cluster \in Workspaces
    /\ payload \in Payloads
    /\ holders = Holders0
    /\ pc = "call"
    /\ offset = 0
    /\ usersSeen = <<>>
    /\ scope = NoScope
    /\ result = <<>>
    /\ walked = <<>>
    /\ always = ToSet(Holders0)
    /\ ever = ToSet(Holders0)
    /\ grants = 0
    /\ revokes = 0

\* resolveObligationScope up to the roles
ResolveScope ==
    /\ pc = "call"
    /\ scope' = [organization |-> payload.obligations.org,
                 usernames |-> IF payload.obligations.username = Unset
                               THEN Unrestricted ELSE {payload.obligations.username}]
    /\ usersSeen' = <<>>
    /\ always' = ToSet(holders)
    /\ ever' = ToSet(holders)
    /\ pc' = IF payload.obligations.roles THEN "roles" ELSE "fetch"
    /\ UNCHANGED <<cluster, payload, offset, result, walked, holders, grants, revokes>>

\* One GetUsers of usernamesWithRoles; an empty page ends the loop.
GetUsers ==
    LET page == SubSeq(holders, Len(usersSeen) + 1,
                       Min({Len(usersSeen) + PageSize, Len(holders)}))
        usernames == IntersectUsernames(scope.usernames, ToSet(usersSeen))
    IN  /\ pc = "roles"
        /\ IF page # <<>>
           THEN /\ usersSeen' = usersSeen \o page
                /\ UNCHANGED <<pc, scope, result>>
           ELSE /\ scope' = [scope EXCEPT !.usernames = usernames]
                /\ pc' = IF usernames = {} THEN "answered" ELSE "fetch"
                /\ result' = <<>>
                /\ UNCHANGED usersSeen
        /\ UNCHANGED <<cluster, payload, offset, walked, roles>>

\* The listing arrives in the order of a map.
FetchPage ==
    LET fetched == {w \in cluster :
                        Selected(w, Narrow(scope, PushdownOptionsFromPayload(payload)))}
        inScope == {w \in fetched : ScopeMatches(scope, w)}
        filtered == {w \in inScope : MatchesFilters(w, payload) = "yes"}
        sorts == IF payload.sorts = <<>> THEN DefaultSort ELSE payload.sorts
    IN  /\ pc = "fetch"
        /\ IF \E w \in inScope : MatchesFilters(w, payload) = "error"
           THEN pc' = "error" /\ UNCHANGED <<result, walked>>
           ELSE \E list \in SetToSeqs(filtered) :
                    /\ result' = PageWorkspaces(SortWorkspaces(list, sorts), offset, payload.limit)
                    /\ walked' = walked \o result'
                    /\ pc' = "answered"
        /\ UNCHANGED <<cluster, payload, offset, usersSeen, scope, roles>>

\* GetUsers or GetWorkspaces fails.
Fail ==
    /\ Failures
    /\ pc \in {"roles", "fetch"}
    /\ pc' = "error"
    /\ UNCHANGED <<cluster, payload, callVars, roles>>

\* The client asks for the page after the one it has got.
NextPage ==
    /\ pc = "answered"
    /\ payload.limit > 0
    /\ result # <<>>
    /\ offset' = offset + Len(result)
    /\ pc' = "call"
    /\ UNCHANGED <<cluster, payload, usersSeen, scope, result, walked, roles>>

\* Identity lists a new holder at the end or before all others.
Grant ==
    /\ grants < MaxGrants
    /\ \E u \in Users \ ToSet(holders) :
        /\ holders' \in {Append(holders, u), <<u>> \o holders}
        /\ ever' = ever \cup {u}
    /\ grants' = grants + 1
    /\ UNCHANGED <<cluster, payload, pc, callVars, always, revokes>>

Revoke ==
    /\ revokes < MaxRevokes
    /\ \E i \in DOMAIN holders :
        /\ holders' = RemoveAt(holders, i)
        /\ always' = always \ {holders[i]}
    /\ revokes' = revokes + 1
    /\ UNCHANGED <<cluster, payload, pc, callVars, ever, grants>>

QueryNext == ResolveScope \/ GetUsers \/ FetchPage \/ Fail \/ NextPage \/ Grant \/ Revoke

QuerySpec == QueryInit /\ [][QueryNext]_queryVars

-----------------------------------------------------------------------------
(* Properties *)

\* The record of the call stays well formed: the answer and everything the
\* client has seen are workspaces of the cluster, and the scope restricts by
\* sets of names (obligationScope, GetWorkspacesResult).
QueryTypeOK ==
    /\ pc \in {"call", "roles", "fetch", "answered", "error"}
    /\ offset \in Nat
    /\ ToSet(result) \cup ToSet(walked) \subseteq cluster
    /\ scope.usernames = Unrestricted \/ scope.usernames \subseteq ToSet(usersSeen) \cup {payload.obligations.username}
    /\ always \subseteq ever

\* What the obligations allow, for users who hold the role
Allowed(w, users) ==
    /\ payload.obligations.org = Unset \/ EqualFold(w.organization, payload.obligations.org)
    /\ payload.obligations.username = Unset \/ EqualFold(w.username, payload.obligations.username)
    /\ payload.obligations.roles => \E u \in users : EqualFold(w.username, u)

\* Every workspace in an answer is one the obligations allow: its owner has
\* had the role at some time since the call began, whatever is pushed down
\* and however roles change meanwhile (query.go, obligationScope.matches).
NothingLeaked == \A i \in DOMAIN result : pc = "answered" => Allowed(result[i], ever)

\* Names, labels and the values they are compared with are in lower case.
LowerCase ==
    /\ \A u \in Users : Lower(u) = u
    /\ \A c \in Workspaces : \A w \in c : \A f \in Labels : Lower(w[f]) = w[f]
    /\ \A q \in Payloads :
         /\ Lower(q.obligations.org) = q.obligations.org
         /\ Lower(q.obligations.username) = q.obligations.username
         /\ \A i \in DOMAIN q.conditions :
              LET c == q.conditions[i]
              IN  c.field \in Labels /\ c.op \in {"EQ", "IN"} =>
                      \A k \in DOMAIN c.values : Lower(c.values[k]) = c.values[k]

\* An answer without pages holds every workspace that is allowed and that
\* the filters match in memory: pushing conditions down into the selector,
\* and reading the users with the role page by page while others are granted
\* it, loses nothing, as long as values are written in the case of the labels
\* (query.go, pushdownOptionsFromPayload and usernamesWithRoles).
NothingWithheld ==
    LowerCase /\ pc = "answered" /\ payload.limit = 0 /\ revokes = 0 =>
        \A w \in cluster : Allowed(w, always) /\ MatchesFilters(w, payload) = "yes" => w \in ToSet(result)

\* x comes strictly before y when fields are compared by value: quantities as
\* numbers, an unset one before all others.
ValueOf(w, field) ==
    IF field # "memory" THEN w[field]
    ELSE IF w.memory = Unset THEN <<-1>> ELSE <<Magnitude[w.memory]>>

Before(x, y, sorts) ==
    \E i \in DOMAIN sorts :
        LET vx == ValueOf(x, sorts[i].field)
            vy == ValueOf(y, sorts[i].field)
        IN  /\ \A j \in 1..i - 1 : ValueOf(x, sorts[j].field) = ValueOf(y, sorts[j].field)
            /\ IF sorts[i].desc THEN TextLess(vy, vx) ELSE TextLess(vx, vy)

\* The sorts leave nothing open: quantities parse and no amount has two
\* spellings, and workspaces of a cluster differ in a field of the sort.
Ordered ==
    /\ \A v \in DOMAIN Magnitude : v # Unset /\ Magnitude[v] \in Nat
    /\ \A v, u \in DOMAIN Magnitude : Magnitude[v] = Magnitude[u] => v = u
    /\ \A c \in Workspaces : \A w \in c : w.memory = Unset \/ Parses(w.memory)
    /\ \A q \in Payloads :
         LET sorts == IF q.sorts = <<>> THEN DefaultSort ELSE q.sorts
         IN  /\ q.sorts \in Seq([field : FieldNames, desc : BOOLEAN])
             /\ \A c \in Workspaces : \A x, y \in c :
                  (\A i \in DOMAIN sorts : x[sorts[i].field] = y[sorts[i].field]) => x = y

\* While the role changes hands for nobody: the pages a client reads are
\* ordered by the sort fields, the next one deciding where values are equal,
\* and a client that reads until a page is empty has seen every matching
\* workspace exactly once, although every call lists them in another order
\* (query.go, sortWorkspaces and pageWorkspaces).
PagesCover ==
    grants + revokes = 0 =>
        /\ \A i, j \in DOMAIN walked : i < j => ~Before(walked[j], walked[i], payload.sorts)
        /\ pc = "answered" /\ result = <<>> /\ payload.limit > 0 =>
             /\ \A i, j \in DOMAIN walked : walked[i] = walked[j] => i = j
             /\ \A w \in cluster : Allowed(w, always) /\ MatchesFilters(w, payload) = "yes" =>
                    w \in ToSet(walked)

\* globMatchLower agrees with the declarative meaning of a pattern: the value
\* can be cut into pieces, one per symbol, of any length for a star and of
\* one byte otherwise (query.go, globMatchLower).
GlobIsCut ==
    \A k \in DOMAIN payload.conditions : \A w \in cluster :
        LET c == payload.conditions[k]
            p == Lower(c.values[1])
            v == Lower(w[c.field])
        IN  c.op \in {"EQ", "NE"} /\ c.field # "memory" =>
                GlobMatch(c.values[1], w[c.field]) =
                (\E cut \in [0..Len(p) -> 0..Len(v)] :
                    /\ cut[0] = 0
                    /\ cut[Len(p)] = Len(v)
                    /\ \A i \in DOMAIN p :
                        IF p[i] = Star THEN cut[i - 1] <= cut[i]
                        ELSE cut[i] = cut[i - 1] + 1 /\ p[i] \in {Mark, v[cut[i]]})

=============================================================================
