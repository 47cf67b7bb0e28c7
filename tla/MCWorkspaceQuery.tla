-------------------------- MODULE MCWorkspaceQuery --------------------------
(***************************************************************************)
(* Small clusters and queries for WorkspaceQuery.  Letters are bytes: a is *)
(* 97, b 98.                                                               *)
(***************************************************************************)
EXTENDS WorkspaceQuery

a == <<97>>
b == <<98>>
ab == <<97, 98>>
ba == <<98, 97>>
Mi512 == <<53>>     \* "512Mi" and "1Gi" by their first digits
Gi1 == <<49>>
NotANumber == <<120>>

MCMagnitude == Mi512 :> 1 @@ Gi1 :> 2

Ws(name, username, organization, runtime, memory) ==
    [name |-> name, username |-> username, organization |-> organization,
     blueprint |-> a, runtime |-> runtime, memory |-> memory]

First == Ws(a, a, a, a, Mi512)
Second == Ws(ab, b, a, Unset, Gi1)
Third == Ws(b, ba, b, Unset, Unset)
MCWorkspaces == SUBSET {First, Second, Third}

Condition(field, op, values) == [field |-> field, op |-> op, values |-> values]
Sort(field, desc) == [field |-> field, desc |-> desc]
Oblige(org, username, byRole) == [org |-> org, username |-> username, roles |-> byRole]
Query(or, conditions, sorts, limit, obligations) ==
    [or |-> or, conditions |-> conditions, sorts |-> sorts, limit |-> limit,
     obligations |-> obligations]

Patterns == {a, ab, ba, <<Star>>, <<Star, 97>>, <<97, Star>>, <<Mark>>, <<Mark, 98>>,
             <<Star, 98, Star>>, <<97, Star, Star, 98>>}

Conditions ==
    {Condition("username", op, <<p>>) : op \in {"EQ", "NE"}, p \in Patterns}
    \cup {Condition("username", "IN", <<a, b>>), Condition("organization", "EQ", <<a>>),
          Condition("blueprint", "IN", <<a, b>>), Condition("runtime", "EXISTS", <<>>),
          Condition("runtime", "EXISTS", <<"false">>)}
    \cup {Condition("memory", op, <<v>>) : op \in {"EQ", "NE", "GTE", "LT"}, v \in {Gi1, NotANumber}}
Others == {Condition("name", "EQ", <<b>>), Condition("username", "EQ", <<b>>),
           Condition("organization", "IN", <<a>>), Condition("memory", "LTE", <<Mi512>>)}

Obligations == {Oblige(Unset, Unset, FALSE), Oblige(a, Unset, FALSE), Oblige(Unset, a, FALSE),
                Oblige(Unset, Unset, TRUE), Oblige(a, b, TRUE)}

\* Filters of one or two conditions, without pages
MCFilters ==
    {Query(or, cs, <<>>, 0, o) : or \in BOOLEAN, o \in Obligations,
                                 cs \in {<<>>} \cup (Conditions \X Others)}

\* Sorts that end with the name, with pages
MCPages ==
    {Query(FALSE, <<>>, s \o <<Sort("name", desc)>>, limit, o) :
        desc \in BOOLEAN, limit \in 1..2, o \in {Oblige(Unset, Unset, FALSE), Oblige(a, Unset, FALSE), Oblige(Unset, Unset, TRUE)},
        s \in {<<>>} \cup {<<Sort(f, d)>> : f \in {"organization", "memory"}, d \in BOOLEAN}}

MCQueries == MCFilters \cup MCPages

MCUsers == {a, b, ba}
MCHolders == <<a, b>>

\* NothingWithheld is about all of them.
ASSUME ValuesInLowerCase == LowerCase

\* The theorem on PagesCover is about sorts that leave nothing open.
ASSUME SortsTellApart == Ordered

=============================================================================
