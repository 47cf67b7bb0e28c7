------------------------- MODULE BlueprintStoreProofs -------------------------
(***************************************************************************)
(* Proofs about BlueprintStore for any documents, files, rows, requests    *)
(* and watchers: what the map holds between reloads, what the revision on  *)
(* a workspace says, what an update may overwrite, that what is accepted    *)
(* loads and what loads is accepted, and when a merged view may be sent    *)
(* back.  Then about BlueprintWatch, which reloads the map when files      *)
(* change: nothing is reloaded once Close has returned.                    *)
(***************************************************************************)
EXTENDS BlueprintStore, BlueprintWatch, FiniteSetTheorems, SequenceTheorems, WellFoundedInduction, TLAPS

(***************************************************************************)
(* None stands for "nothing": it is neither an entry of the map, nor the   *)
(* content of a document, nor a document restored or merged.  The theorems *)
(* assume it, where TLC's model value simply is none of them.              *)
(***************************************************************************)
NoneIsNoEntry ==
    /\ \A tmpl, own, node, rev :
         [tmpl |-> tmpl, own |-> own, node |-> node, rev |-> rev] # None
    /\ \A d : Content(d) # None

NoneIsNoDocument == \A d : Restore(d) # None /\ \A e : Merge(e, d) # None

(***************************************************************************)
(* The domains of the functions and records.                               *)
(***************************************************************************)
Fields == {"pc", "op", "name", "doc", "base", "want", "seen", "saved", "list", "todo",
           "got", "stamp", "torn", "result"}

Shaped ==
    /\ DOMAIN rows = Names /\ DOMAIN author = Names /\ DOMAIN cache = Key
    /\ DOMAIN proc = Procs
    /\ \A p \in Procs : DOMAIN proc[p] = Fields /\ DOMAIN proc[p].saved = Key

(***************************************************************************)
(* Revisions.  An entry that has a revision has that of its merged         *)
(* document; what a provision has evaluated belongs to the revision it     *)
(* is stamped with.  Only provisions look blueprints up, by a name of a    *)
(* blueprint but for a repository's.                                       *)
(***************************************************************************)
IsRevised(e) == e # None => e.rev = None \/ e.rev = Content(e.node)
Revised(m)   == \A k \in Key : IsRevised(m[k])

StampOK(r) ==
    /\ r.pc # "idle" => r.stamp = None
    /\ r.pc \in {"pick", "read", "stamp"} => r.op \in Provisions
    /\ r.pc \in {"read", "stamp"} /\ r.op # "custom" => r.name \in Names
    /\ r.pc = "stamp" =>
         /\ r.op # "custom" /\ r.seen # None
         /\ IsRevised(r.seen) /\ r.got = Eval(r.seen.node)
    /\ r.pc = "idle" /\ r.op \in {"explicit", "implicit"} /\ r.stamp # None =>
         /\ r.name \in Names
         /\ ~r.torn => Content(r.got) = Eval(r.stamp)

\* A revision of d merged with some template: it has d's template and all d
\* sets, but that scripts are merged with the template's.
Covers(rev, d) ==
    /\ Template(rev) = Template(d)
    /\ \A q \in DOMAIN Content(d) : q \in DOMAIN rev /\ SameLeaf(q, rev[q], d[q])

\* The revision an update expects is one of the document its client read, and
\* of the one it is about to replace.
UpdateOK(r) ==
    /\ r.op = "update" /\ r.pc \in {"validate", "check", "write"} =>
         Covers(r.want, Restore(r.base))
    /\ r.op = "update" /\ r.pc = "write" => r.seen # None /\ Covers(r.want, Restore(r.seen))
    /\ r.pc = "global" => r.op # "update"

RevisionInv ==
    /\ Revised(cache)
    /\ \A p \in Procs : Revised(proc[p].saved) /\ StampOK(proc[p]) /\ UpdateOK(proc[p])

(***************************************************************************)
(* The map.                                                                *)
(***************************************************************************)
Sound(m) == \A k \in Key : m[k] # None => m[k].rev # None /\ Valid(m[k].node)

\* The request of h has been answered with success, and the row is still the
\* one it wrote.
Confirms(h, n) ==
    /\ author[n] = h /\ Ended(h, "ok")
    /\ proc[h].op \notin Provisions /\ proc[h].name = n
Confirmed(n) == \E h \in Handlers : Confirms(h, n)

HasRow(m, n, row) ==
    IF row = None THEN m[OrgKey(n)] = None
    ELSE m[OrgKey(n)] # None /\ m[OrgKey(n)].own = Restore(row)

Kept(m) == \A n \in Names : Confirmed(n) => HasRow(m, n, rows[n])

\* What the current map holds of the organization while p fills it.
Filled(p) ==
    /\ proc[p].pc \in {"files", "list"} => \A n \in Names : cache[OrgKey(n)] = None
    /\ proc[p].pc = "rows" =>
         /\ \A n \in proc[p].todo : n \in Names /\ proc[p].list[n] # None
         /\ \A n \in Names :
              cache[OrgKey(n)] = IF proc[p].list[n] = None \/ n \in proc[p].todo THEN None
                                 ELSE Raw(Restore(proc[p].list[n]))
    /\ proc[p].pc = "resolve" =>
         \A n \in Names : cache[OrgKey(n)] = IF proc[p].list[n] = None THEN None
                                             ELSE Raw(Restore(proc[p].list[n]))
    /\ proc[p].pc = "verify" =>
         /\ \A k \in Key : cache[k] # None => cache[k].rev # None
         /\ \A n \in Names : HasRow(cache, n, proc[p].list[n])

\* The rows p has listed are current, for itself and for confirmed requests.
Listed(p) ==
    proc[p].pc \in {"rows", "resolve", "verify"} =>
        \A n \in Names : Confirmed(n) \/ (author[n] = p /\ proc[p].name = n) =>
            proc[p].list[n] = rows[n]

ReloadOK(p) == Sound(proc[p].saved) /\ Kept(proc[p].saved) /\ Filled(p) /\ Listed(p)

MapInv ==
    /\ ~up => \A p \in Procs : proc[p].pc = "idle"
    /\ ~clash =>
         /\ \A p, q \in Procs : Reloading(p) /\ Reloading(q) => p = q
         /\ AtRest => Sound(cache) /\ Kept(cache)
         /\ \A p \in Procs : Reloading(p) => ReloadOK(p)

Inv == Shaped /\ RevisionInv /\ MapInv

-----------------------------------------------------------------------------
(* Documents.                                                              *)

\* Evaluating the expressions of a document and taking what a revision
\* covers of it commute: neither looks at what the other changes.
LEMMA ContentOfEval ==
    ASSUME NEW d
    PROVE  Content(Eval(d)) = Eval(Content(d))
  BY DEF Content, Eval

\* What GetBlueprint finds under a name has the revision of its document.
LEMMA LookupRevised ==
    ASSUME Revised(cache), NEW n \in Names
    PROVE  IsRevised(Lookup(n))
  <1>1. Glob(n) \in Key
    BY DEF Glob, Key
  <1>2. \A t, o, d : IsRevised(Resolution(t, o, d))
    BY DEF Resolution, IsRevised
  <1>3. IsRevised(None)
    BY DEF IsRevised
  <1>4. \A row : IsRevised(Build(row))
    BY <1>2, <1>3 DEF Build
  <1> QED
    BY <1>1, <1>4 DEF Lookup, Revised

\* A revision covers the name of the template.
LEMMA ContentHas ==
    ASSUME NEW d, NEW q, q[1] \notin {"description", "isTemplate"}
    PROVE  /\ q \in DOMAIN Content(d) <=> q \in DOMAIN d
           /\ q \in DOMAIN d => Content(d)[q] = d[q]
  BY DEF Content

LEMMA SameTemplate ==
    ASSUME NEW d, NEW e, <<"template">> \in DOMAIN d <=> <<"template">> \in DOMAIN e,
           <<"template">> \in DOMAIN d => d[<<"template">>] = e[<<"template">>]
    PROVE  Template(d) = Template(e)
  <1> DEFINE t == <<"template">>
  <1>1. \A x : Template(x) = IF t \in DOMAIN x THEN Text(x, t) ELSE None
    BY DEF Template
  <1>2. t \in DOMAIN d => Text(d, t) = Text(e, t)
    BY Zenon DEF Text
  <1> HIDE DEF t
  <1>3. t \in DOMAIN d <=> t \in DOMAIN e
    BY DEF t
  <1> QED
    BY <1>1, <1>2, <1>3, Zenon

LEMMA TemplateOfContent ==
    ASSUME NEW d
    PROVE  Template(Content(d)) = Template(d)
  <1> DEFINE t == <<"template">>
  <1>1. t[1] \notin {"description", "isTemplate"}
    OBVIOUS
  <1> HIDE DEF t
  <1>2. /\ t \in DOMAIN Content(d) <=> t \in DOMAIN d
        /\ t \in DOMAIN d => Content(d)[t] = d[t]
    BY <1>1, ContentHas
  <1>3. /\ <<"template">> \in DOMAIN Content(d) <=> <<"template">> \in DOMAIN d
        /\ <<"template">> \in DOMAIN Content(d) =>
             Content(d)[<<"template">>] = d[<<"template">>]
    BY <1>2, Zenon DEF t
  <1> QED
    BY <1>3, SameTemplate

\* Items given another kind keep their places, names and bodies.
LEMMA RetagParts ==
    ASSUME NEW s, NEW from, NEW to
    PROVE  /\ DOMAIN Retag(s, from, to) = DOMAIN s
           /\ \A i \in DOMAIN s :
                /\ s[i].kind = from => Retag(s, from, to)[i] = Item(s[i].name, to, s[i].body)
                /\ s[i].kind # from => Retag(s, from, to)[i] = s[i]
                /\ Retag(s, from, to)[i].name = s[i].name
                /\ from # to => Retag(s, from, to)[i].kind # from
  <1>1. \A n, k, b : Item(n, k, b).name = n /\ Item(n, k, b).kind = k
    BY DEF Item
  <1> QED
    BY <1>1 DEF Retag

\* There is nothing to do where no item has the kind.
LEMMA RetagNothing ==
    ASSUME NEW s, NEW S, s = [i \in S |-> s[i]], NEW from, NEW to,
           \A i \in S : s[i].kind # from
    PROVE  Retag(s, from, to) = s
  <1>1. DOMAIN s = S
    OBVIOUS
  <1>2. Retag(s, from, to) = [i \in S |-> s[i]]
    BY <1>1 DEF Retag
  <1> QED
    BY <1>2

LEMMA RetagTwice ==
    ASSUME NEW s, NEW from, NEW to, from # to
    PROVE  Retag(Retag(s, from, to), from, to) = Retag(s, from, to)
  <1> DEFINE r == Retag(s, from, to)
  <1>1. r = [i \in DOMAIN s |-> r[i]]
    BY DEF Retag
  <1>2. \A i \in DOMAIN s : r[i].kind # from
    BY RetagParts
  <1> HIDE DEF r
  <1>3. Retag(r, from, to) = r
    BY <1>1, <1>2, RetagNothing
  <1> QED
    BY <1>3 DEF r

\* A list whose items have lost their tags has none to lose.
LEMMA UntaggedTwice ==
    ASSUME NEW s
    PROVE  /\ Decoded(Decoded(s)) = Decoded(s)
           /\ \A l : l.kind = "seq" /\ l.items = s =>
                Untagged(List(Decoded(s))) = Untagged(l)
  <1>1. Decoded(Decoded(s)) = Decoded(s)
    BY RetagTwice DEF Decoded
  <1>2. \A x : List(x).kind = "seq" /\ List(x).items = x
    BY DEF List
  <1> QED
    BY <1>1, <1>2 DEF Untagged

\* Merging keeps what the child sets, but for scripts and the tags of items in
\* lists with a strategy, and its template.
LEMMA MergeKeeps ==
    ASSUME NEW parent, NEW d, Template(d) # None
    PROVE  /\ Template(Merge(parent, d)) = Template(d)
           /\ \A q \in DOMAIN d :
                q \in DOMAIN Merge(parent, d) /\ SameLeaf(q, Merge(parent, d)[q], d[q])
  <1> DEFINE t == <<"template">>
             m == Merge(parent, d)
  <1>1. ~Strategic(t)
    BY DEF Strategic, Last
  <1>2. t \in DOMAIN d
    BY Zenon DEF Template
  <1>3. \A q \in DOMAIN d :
          q \in DOMAIN m /\ (m[q] = d[q] \/ m[q] = MergeValues(q, parent[q], d[q]))
    BY DEF Merge
  <1> HIDE DEF m
  <1>4. ASSUME NEW q, NEW a, NEW b
        PROVE  /\ SameLeaf(q, MergeValues(q, a, b), b) /\ SameLeaf(q, b, b)
               /\ ~Strategic(q) => MergeValues(q, a, b) = b
    <2>1. SameLeaf(q, b, b) /\ (~Strategic(q) => MergeValues(q, a, b) = b)
      BY DEF SameLeaf, MergeValues
    <2>2. CASE a.kind # "seq" \/ b.kind # "seq" \/ ~Strategic(q)
      <3>1. MergeValues(q, a, b) = b
        BY <2>2 DEF MergeValues
      <3> QED
        BY <2>1, <3>1
    <2>3. CASE a.kind = "seq" /\ b.kind = "seq" /\ Strategic(q) /\ Last(q) # "initScripts"
      <3>1. MergeValues(q, a, b) = List(Decoded(b.items))
        BY <2>3 DEF MergeValues
      <3>2. Untagged(List(Decoded(b.items))) = Untagged(b)
        BY <2>3, UntaggedTwice
      <3> QED
        BY <2>1, <2>3, <3>1, <3>2 DEF SameLeaf
    <2>4. CASE a.kind = "seq" /\ b.kind = "seq" /\ Strategic(q) /\ Last(q) = "initScripts"
      <3>1. PICK x : MergeValues(q, a, b) = List(x)
        BY <2>4 DEF MergeValues
      <3>2. List(x).kind = "seq"
        BY DEF List
      <3>3. IsScripts(q, MergeValues(q, a, b)) /\ IsScripts(q, b)
        BY <2>4, <3>1, <3>2 DEF IsScripts
      <3> QED
        BY <2>1, <3>3 DEF SameLeaf
    <2> QED
      BY <2>2, <2>3, <2>4, Zenon
  <1>5. ASSUME NEW q \in DOMAIN d
        PROVE  q \in DOMAIN m /\ SameLeaf(q, m[q], d[q])
    <2>1. CASE m[q] = d[q]
      BY <1>3, <1>4, <2>1
    <2>2. CASE m[q] = MergeValues(q, parent[q], d[q])
      BY <1>3, <1>4, <2>2
    <2> QED
      BY <1>3, <2>1, <2>2
  <1>6. m[t] = d[t] /\ t \in DOMAIN m
    <2> HIDE DEF t
    <2>1. MergeValues(t, parent[t], d[t]) = d[t]
      BY <1>1, <1>4
    <2> QED
      BY <1>2, <1>3, <2>1
  <1>7. Template(m) = Template(d)
    BY <1>2, <1>6, SameTemplate
  <1> QED
    BY <1>5, <1>7 DEF m

\* The revision of a row, merged with whatever its template is at the moment,
\* covers the row.
LEMMA BuildCovers ==
    ASSUME NEW row, Build(row) # None
    PROVE  Covers(Build(row).rev, Restore(row))
  <1> DEFINE d == Restore(row)
             rev == Build(row).rev
  <1>1. \A a, b, c : Resolution(a, b, c).rev = Content(c)
    BY DEF Resolution
  <1>2. \/ rev = Content(d)
        \/ Template(d) # None /\ \E parent : rev = Content(Merge(parent, d))
    BY <1>1 DEF Build
  <1> HIDE DEF d, rev
  <1>3. PICK m : /\ rev = Content(m) /\ Template(m) = Template(d)
                 /\ \A q \in DOMAIN d : q \in DOMAIN m /\ SameLeaf(q, m[q], d[q])
    <2>1. CASE rev = Content(d)
      BY <2>1 DEF SameLeaf
    <2>2. CASE Template(d) # None /\ \E parent : rev = Content(Merge(parent, d))
      BY <2>2, MergeKeeps
    <2> QED
      BY <1>2, <2>1, <2>2
  <1>4. Template(rev) = Template(d)
    BY <1>3, TemplateOfContent
  <1>5. \A q \in DOMAIN Content(d) : q \in DOMAIN d /\ q[1] \notin {"description", "isTemplate"}
    BY DEF Content
  <1>6. \A q \in DOMAIN Content(d) : q \in DOMAIN rev /\ SameLeaf(q, rev[q], d[q])
    <2> SUFFICES ASSUME NEW q \in DOMAIN Content(d)
                 PROVE  q \in DOMAIN rev /\ SameLeaf(q, rev[q], d[q])
      OBVIOUS
    <2>1. q \in DOMAIN Content(m) /\ Content(m)[q] = m[q]
      BY <1>3, <1>5, ContentHas
    <2> QED
      BY <1>3, <1>5, <2>1, Zenon
  <1>7. Covers(rev, d)
    BY <1>4, <1>6, Zenon DEF Covers
  <1> QED
    BY <1>7 DEF d, rev

-----------------------------------------------------------------------------
(* Steps of one process.                                                   *)

\* A process that serves no request has the fields of every other one.
LEMMA FreeShape ==
    /\ DOMAIN Free = Fields /\ DOMAIN Free.saved = Key
    /\ Free.saved = NoMap /\ Free.stamp = None /\ Free.pc = "idle" /\ Free.result = "none"
  BY DEF Free, Fields, NoMap

\* The empty map has no entry without a revision.
LEMMA NoMapRevised == Revised(NoMap)
  BY DEF Revised, IsRevised, NoMap

\* A step that gives p the record r changes no other process.
LEMMA SetShape ==
    ASSUME Shaped, NEW p \in Procs, NEW r, Set(p, r),
           DOMAIN r = Fields, DOMAIN r.saved = Key
    PROVE  /\ proc'[p] = r /\ \A q \in Procs : q # p => proc'[q] = proc[q]
           /\ DOMAIN proc' = Procs
           /\ \A q \in Procs : DOMAIN proc'[q] = Fields /\ DOMAIN proc'[q].saved = Key
  BY DEF Shaped, Set

\* A record a step may give to a process without harm to the revisions.
Good(r) ==
    /\ DOMAIN r = Fields /\ DOMAIN r.saved = Key
    /\ Revised(r.saved) /\ StampOK(r) /\ UpdateOK(r)

ReloadSteps == {"files", "list", "rows", "resolve", "verify", "undo"}

\* p is given such a record, is not in a reload before or after, and has not
\* just answered a create, update or delete with success.
Beside(p, r) ==
    /\ Set(p, r) /\ Good(r)
    /\ proc[p].pc \notin ReloadSteps /\ r.pc \notin ReloadSteps
    /\ r.pc = "idle" /\ r.result = "ok" => r.op \in Provisions
    /\ up \/ r.pc = "idle"

\* Going on to a step that is neither a lookup nor a check.
LEMMA GotoGood ==
    ASSUME Shaped, RevisionInv, NEW p \in Procs, NEW l, proc[p].pc # "idle",
           l \notin {"idle", "pick", "read", "stamp", "validate", "global", "check", "write"}
    PROVE  LET r == [proc[p] EXCEPT !.pc = l]
           IN Good(r) /\ r.pc = l /\ r.saved = proc[p].saved
  <1> DEFINE r == [proc[p] EXCEPT !.pc = l]
  <1>1. /\ DOMAIN r = Fields /\ r.pc = l /\ r.stamp = proc[p].stamp
        /\ r.saved = proc[p].saved
    BY DEF Shaped, Fields
  <1>2. StampOK(r) /\ UpdateOK(r)
    <2>1. r.stamp = None
      BY <1>1 DEF RevisionInv, StampOK
    <2> HIDE DEF r
    <2> QED
      BY <1>1, <2>1 DEF StampOK, UpdateOK
  <1>3. DOMAIN proc[p].saved = Key /\ Revised(proc[p].saved)
    BY DEF Shaped, RevisionInv
  <1> HIDE DEF r
  <1>4. Good(r) /\ r.pc = l /\ r.saved = proc[p].saved
    BY <1>1, <1>2, <1>3, Zenon DEF Good
  <1> QED
    BY <1>4 DEF r

EndRecord(p, res) ==
    [Free EXCEPT !.op = proc[p].op, !.name = proc[p].name,
                 !.doc = proc[p].doc, !.got = proc[p].got,
                 !.stamp = proc[p].stamp, !.torn = proc[p].torn, !.result = res]

\* Answering a request that was not stamped.
LEMMA EndGood ==
    ASSUME Shaped, RevisionInv, NEW p \in Procs, NEW res, proc[p].pc # "idle"
    PROVE  LET r == EndRecord(p, res)
           IN Good(r) /\ r.pc = "idle" /\ r.result = res /\ r.op = proc[p].op /\ r.name = proc[p].name
  <1> DEFINE r == EndRecord(p, res)
  <1>1. /\ DOMAIN r = Fields /\ r.pc = "idle" /\ r.result = res
        /\ r.op = proc[p].op /\ r.name = proc[p].name
        /\ r.stamp = proc[p].stamp /\ r.saved = NoMap
    BY FreeShape DEF Fields, EndRecord
  <1>2. r.stamp = None
    BY <1>1 DEF RevisionInv, StampOK
  <1> HIDE DEF r
  <1>3. StampOK(r) /\ UpdateOK(r)
    BY <1>1, <1>2 DEF StampOK, UpdateOK
  <1>4. DOMAIN NoMap = Key
    BY DEF NoMap
  <1>5. Good(r) /\ r.pc = "idle" /\ r.result = res /\ r.op = proc[p].op /\ r.name = proc[p].name
    BY <1>1, <1>3, <1>4, NoMapRevised, Zenon DEF Good
  <1> QED
    BY <1>5 DEF r

\* A request that is refused.
LEMMA Refused ==
    ASSUME Shaped, RevisionInv, NEW p \in Procs, End(p, "refused"),
           proc[p].pc \notin ReloadSteps \union {"idle"}
    PROVE  Beside(p, EndRecord(p, "refused"))
  <1>1. Set(p, EndRecord(p, "refused"))
    BY Zenon DEF End, EndRecord
  <1>2. /\ Good(EndRecord(p, "refused")) /\ EndRecord(p, "refused").pc = "idle"
        /\ EndRecord(p, "refused").result = "refused"
    BY EndGood
  <1>3. "idle" \notin ReloadSteps
    BY DEF ReloadSteps
  <1> QED
    BY <1>1, <1>2, <1>3 DEF Beside

\* A request that has looked nothing up yet.
Fresh(r) ==
    /\ DOMAIN r = Fields /\ r.saved = NoMap /\ r.stamp = None
    /\ r.pc \in {"write", "validate", "pick", "read", "begin"}
    /\ r.pc \in {"pick", "read"} => r.op \in Provisions
    /\ r.pc = "read" /\ r.op # "custom" => r.name \in Names
    /\ r.op = "update" => r.pc = "validate" /\ Covers(r.want, Restore(r.base))

LEMMA FreshGood ==
    ASSUME NEW r, Fresh(r)
    PROVE  Good(r)
  <1>1. DOMAIN r.saved = Key
    BY DEF NoMap, Fresh
  <1>2. StampOK(r) /\ UpdateOK(r)
    BY DEF StampOK, UpdateOK, Fresh
  <1> QED
    BY <1>1, <1>2, NoMapRevised, Zenon DEF Good, Fresh

\* A request arrives.
LEMMA AskBeside ==
    ASSUME Shaped, RevisionInv, NEW h \in Procs, Ask(h)
    PROVE  \E r : Beside(h, r)
  <1>1. PICK op \in Operations, n \in Names :
           \/ /\ op \in {"delete", "explicit", "default"}
              /\ Set(h, [Free EXCEPT !.pc = IF op = "delete" THEN "write" ELSE "read",
                                     !.op = op, !.name = n])
           \/ /\ op \in {"create", "replace"}
              /\ \E d \in Docs : Set(h, [Free EXCEPT !.pc = "validate", !.op = op, !.name = n, !.doc = d])
           \/ /\ Build(rows[n]) # None
              /\ \E d \in Docs :
                   Set(h, [Free EXCEPT !.pc = "validate", !.op = op, !.name = n, !.doc = d,
                                       !.base = rows[n], !.want = Build(rows[n]).rev])
           \/ op = "implicit" /\ Set(h, [Free EXCEPT !.pc = "pick", !.op = op])
           \/ /\ op = "custom"
              /\ \E d \in Repos : Set(h, [Free EXCEPT !.pc = "read", !.op = op, !.doc = d,
                                                      !.name = Template(d)])
    BY Zenon DEF Ask
  <1>2. \E r : Set(h, r) /\ Fresh(r)
    <2>1. CASE /\ op \in {"delete", "explicit", "default"}
               /\ Set(h, [Free EXCEPT !.pc = IF op = "delete" THEN "write" ELSE "read",
                                      !.op = op, !.name = n])
      <3> DEFINE r == [Free EXCEPT !.pc = IF op = "delete" THEN "write" ELSE "read",
                                  !.op = op, !.name = n]
      <3>1. Fresh(r)
        BY <2>1, FreeShape DEF Fresh, Fields, Provisions
      <3>2. Set(h, r)
        BY <2>1
      <3> HIDE DEF r
      <3> QED
        BY <3>1, <3>2
    <2>2. CASE /\ op \in {"create", "replace"}
               /\ \E d \in Docs : Set(h, [Free EXCEPT !.pc = "validate", !.op = op, !.name = n, !.doc = d])
      <3>0. PICK d \in Docs : Set(h, [Free EXCEPT !.pc = "validate", !.op = op, !.name = n, !.doc = d])
        BY <2>2
      <3> DEFINE r == [Free EXCEPT !.pc = "validate", !.op = op, !.name = n, !.doc = d]
      <3>1. Fresh(r)
        BY <2>2, FreeShape DEF Fresh, Fields, Provisions
      <3>2. Set(h, r)
        BY <3>0
      <3> HIDE DEF r
      <3> QED
        BY <3>1, <3>2
    <2>3. CASE /\ Build(rows[n]) # None
               /\ \E d \in Docs :
                    Set(h, [Free EXCEPT !.pc = "validate", !.op = op, !.name = n, !.doc = d,
                                        !.base = rows[n], !.want = Build(rows[n]).rev])
      <3>0. PICK d \in Docs : Set(h, [Free EXCEPT !.pc = "validate", !.op = op, !.name = n, !.doc = d,
                                  !.base = rows[n], !.want = Build(rows[n]).rev])
        BY <2>3
      <3> DEFINE r == [Free EXCEPT !.pc = "validate", !.op = op, !.name = n, !.doc = d,
                                  !.base = rows[n], !.want = Build(rows[n]).rev]
      <3>1. Fresh(r)
        <4>1. Covers(Build(rows[n]).rev, Restore(rows[n]))
          BY <2>3, BuildCovers
        <4>2. /\ DOMAIN r = Fields /\ r.saved = NoMap /\ r.stamp = None /\ r.pc = "validate"
              /\ r.base = rows[n] /\ r.want = Build(rows[n]).rev
          BY FreeShape DEF Fields
        <4> HIDE DEF r
        <4> QED
          BY <4>1, <4>2 DEF Fresh
      <3>2. Set(h, r)
        BY <3>0
      <3> HIDE DEF r
      <3> QED
        BY <3>1, <3>2
    <2>4. CASE op = "implicit" /\ Set(h, [Free EXCEPT !.pc = "pick", !.op = op])
      <3> DEFINE r == [Free EXCEPT !.pc = "pick", !.op = op]
      <3>1. Fresh(r)
        BY <2>4, FreeShape DEF Fresh, Fields, Provisions
      <3>2. Set(h, r)
        BY <2>4
      <3> HIDE DEF r
      <3> QED
        BY <3>1, <3>2
    <2>5. CASE /\ op = "custom"
               /\ \E d \in Repos : Set(h, [Free EXCEPT !.pc = "read", !.op = op, !.doc = d,
                                  !.name = Template(d)])
      <3>0. PICK d \in Repos : Set(h, [Free EXCEPT !.pc = "read", !.op = op, !.doc = d,
                                  !.name = Template(d)])
        BY <2>5
      <3> DEFINE r == [Free EXCEPT !.pc = "read", !.op = op, !.doc = d,
                                  !.name = Template(d)]
      <3>1. Fresh(r)
        BY <2>5, FreeShape DEF Fresh, Fields, Provisions
      <3>2. Set(h, r)
        BY <3>0
      <3> HIDE DEF r
      <3> QED
        BY <3>1, <3>2
    <2> QED
      BY <1>1, <2>1, <2>2, <2>3, <2>4, <2>5, Zenon
  <1>3. PICK r : Set(h, r) /\ Fresh(r)
    BY <1>2
  <1>4. Good(r)
    BY <1>3, FreshGood
  <1>5. up /\ proc[h].pc = "idle"
    BY DEF Ask
  <1> QED
    BY <1>3, <1>4, <1>5 DEF Beside, Fresh, ReloadSteps

\* What Validate, CheckGlobal, CheckRevision and a refused Write do to their request.
LEMMA CheckBeside ==
    ASSUME Shaped, RevisionInv, MapInv, NEW h \in Procs,
           \/ Validate(h) \/ CheckGlobal(h) \/ CheckRevision(h)
           \/ Write(h) /\ End(h, "refused")
    PROVE  \E r : Beside(h, r)
  <1>1. proc[h].pc \in {"validate", "global", "check", "write"}
    BY DEF Validate, CheckGlobal, CheckRevision, Write
  <1>2. proc[h].pc \notin ReloadSteps \union {"idle"}
    BY <1>1 DEF ReloadSteps
  <1>3. up
    BY <1>2 DEF MapInv
  <1>4. \/ End(h, "refused")
        \/ \E r : /\ Set(h, r) /\ DOMAIN r = Fields /\ r.saved = proc[h].saved
                  /\ r.stamp = proc[h].stamp /\ r.pc \in {"global", "check", "write"}
                  /\ UpdateOK(r)
    <2>0. UpdateOK(proc[h])
      BY DEF RevisionInv
    <2>1. CASE Validate(h)
      <3>1. CASE End(h, "refused")
        BY <3>1
      <3>2. CASE ~End(h, "refused")
        <4> DEFINE pc == CASE proc[h].op = "create" -> "global"
                           [] proc[h].op = "update" -> "check"
                           [] OTHER                 -> "write"
                   r == [proc[h] EXCEPT !.doc = Restore(@), !.pc = pc]
        <4>1. Set(h, r)
          BY <2>1, <3>2 DEF Validate
        <4>2. /\ pc \in {"global", "check", "write"}
              /\ proc[h].op = "update" => pc = "check"
          OBVIOUS
        <4> HIDE DEF pc
        <4>3. /\ DOMAIN r = Fields /\ r.saved = proc[h].saved
              /\ r.stamp = proc[h].stamp /\ r.pc = pc
              /\ r.op = proc[h].op /\ r.want = proc[h].want /\ r.base = proc[h].base
          BY DEF Shaped, Fields
        <4> HIDE DEF r
        <4>4. proc[h].pc = "validate"
          BY <2>1 DEF Validate
        <4>5. UpdateOK(r)
          BY <2>0, <4>2, <4>3, <4>4 DEF UpdateOK
        <4> QED
          BY <4>1, <4>2, <4>3, <4>5
      <3> QED
        BY <3>1, <3>2
    <2>2. CASE CheckGlobal(h)
      <3>1. CASE End(h, "refused")
        BY <3>1
      <3>2. CASE ~End(h, "refused")
        <4> DEFINE r == [proc[h] EXCEPT !.pc = "write"]
        <4>1. Set(h, r) /\ proc[h].pc = "global"
          BY <2>2, <3>2, Zenon DEF CheckGlobal, Goto
        <4>2. /\ DOMAIN r = Fields /\ r.saved = proc[h].saved
              /\ r.stamp = proc[h].stamp /\ r.pc = "write" /\ r.op = proc[h].op
          BY DEF Shaped, Fields
        <4> HIDE DEF r
        <4>3. UpdateOK(r)
          BY <2>0, <4>1, <4>2 DEF UpdateOK
        <4> QED
          BY <4>1, <4>2, <4>3
      <3> QED
        BY <3>1, <3>2
    <2>3. CASE CheckRevision(h)
      <3>1. CASE End(h, "refused")
        BY <3>1
      <3>2. CASE ~End(h, "refused")
        <4> DEFINE d == rows[proc[h].name]
                   r == [proc[h] EXCEPT !.seen = d, !.pc = "write"]
        <4>1. /\ Set(h, r) /\ proc[h].pc = "check"
              /\ d # None /\ Build(d) # None /\ Build(d).rev = proc[h].want
          BY <2>3, <3>2, Zenon DEF CheckRevision
        <4>2. Covers(proc[h].want, Restore(d))
          BY <4>1, BuildCovers
        <4> HIDE DEF d
        <4>3. /\ DOMAIN r = Fields /\ r.saved = proc[h].saved
              /\ r.stamp = proc[h].stamp /\ r.pc = "write" /\ r.seen = d
              /\ r.op = proc[h].op /\ r.want = proc[h].want /\ r.base = proc[h].base
          BY DEF Shaped, Fields
        <4> HIDE DEF r
        <4>4. UpdateOK(r)
          BY <2>0, <4>1, <4>2, <4>3 DEF UpdateOK
        <4> QED
          BY <4>1, <4>3, <4>4
      <3> QED
        BY <3>1, <3>2
    <2>4. CASE Write(h) /\ End(h, "refused")
      BY <2>4
    <2> QED
      BY <2>1, <2>2, <2>3, <2>4
  <1>5. CASE End(h, "refused")
    BY <1>2, <1>5, Refused
  <1>6. ASSUME NEW r, Set(h, r), DOMAIN r = Fields, r.saved = proc[h].saved,
               r.stamp = proc[h].stamp, r.pc \in {"global", "check", "write"}, UpdateOK(r)
        PROVE  Beside(h, r)
    <2>1. r.stamp = None
      BY <1>1, <1>6 DEF RevisionInv, StampOK
    <2>2. StampOK(r)
      BY <1>6, <2>1 DEF StampOK
    <2>3. DOMAIN r.saved = Key /\ Revised(r.saved)
      BY <1>6 DEF Shaped, RevisionInv
    <2>4. Good(r)
      BY <1>6, <2>2, <2>3, Zenon DEF Good
    <2> QED
      BY <1>2, <1>3, <1>6, <2>4 DEF Beside, ReloadSteps
  <1> QED
    BY <1>4, <1>5, <1>6

\* A provision goes on to the lookup of a blueprint picked from the map, or is
\* denied.
LEMMA PickBeside ==
    ASSUME Shaped, RevisionInv, MapInv, NEW h \in Procs, Pick(h)
    PROVE  \E r : Beside(h, r)
  <1>1. proc[h].pc = "pick" /\ proc[h].pc \notin ReloadSteps \union {"idle"}
    BY DEF Pick, ReloadSteps
  <1>2. CASE End(h, "refused")
    BY <1>1, <1>2, Refused
  <1>3. CASE ~End(h, "refused")
    <2>1. PICK n \in Names : Set(h, [proc[h] EXCEPT !.name = n, !.pc = "read"])
      BY <1>3 DEF Pick
    <2> DEFINE r == [proc[h] EXCEPT !.name = n, !.pc = "read"]
    <2>2. Set(h, r)
      BY <2>1
    <2>3. /\ DOMAIN r = Fields /\ r.saved = proc[h].saved /\ r.stamp = proc[h].stamp
          /\ r.op = proc[h].op /\ r.name = n /\ r.pc = "read"
      BY DEF Shaped, Fields
    <2> HIDE DEF r
    <2>4. proc[h].stamp = None /\ proc[h].op \in Provisions
      BY <1>1 DEF RevisionInv, StampOK
    <2>5. StampOK(r) /\ UpdateOK(r)
      BY <2>3, <2>4 DEF StampOK, UpdateOK
    <2>6. DOMAIN r.saved = Key /\ Revised(r.saved)
      BY <2>3 DEF Shaped, RevisionInv
    <2>7. Good(r)
      BY <2>3, <2>5, <2>6, Zenon DEF Good
    <2>8. up
      BY <1>1 DEF MapInv
    <2> QED
      BY <1>1, <2>2, <2>3, <2>7, <2>8 DEF Beside, ReloadSteps
  <1> QED
    BY <1>2, <1>3

\* GetBlueprint: what is evaluated is the document of what was found.
LEMMA ReadBeside ==
    ASSUME Shaped, RevisionInv, MapInv, NEW h \in Procs, Read(h)
    PROVE  \E r : Beside(h, r)
  <1> DEFINE found == Lookup(proc[h].name)
  <1>1. proc[h].pc = "read" /\ proc[h].op # "custom" /\ proc[h].pc \notin ReloadSteps \union {"idle"}
    BY DEF Read, ReloadSteps
  <1>2. CASE End(h, "refused")
    BY <1>1, <1>2, Refused
  <1>3. CASE ~End(h, "refused")
    <2> DEFINE r == [proc[h] EXCEPT !.pc = "stamp", !.seen = found, !.got = Eval(found.node)]
    <2>1. Set(h, r) /\ found # None
      BY <1>3, Zenon DEF Read
    <2>2. /\ proc[h].stamp = None /\ proc[h].op \in Provisions /\ proc[h].name \in Names
      BY <1>1 DEF RevisionInv, StampOK
    <2>3. IsRevised(found)
      BY <2>2, LookupRevised DEF RevisionInv
    <2> HIDE DEF found
    <2>4. /\ DOMAIN r = Fields /\ r.saved = proc[h].saved /\ r.stamp = proc[h].stamp
          /\ r.op = proc[h].op /\ r.name = proc[h].name /\ r.pc = "stamp"
          /\ r.seen = found /\ r.got = Eval(found.node)
      BY DEF Shaped, Fields
    <2> HIDE DEF r
    <2>5. StampOK(r) /\ UpdateOK(r)
      BY <1>1, <2>1, <2>2, <2>3, <2>4 DEF StampOK, UpdateOK
    <2>6. DOMAIN r.saved = Key /\ Revised(r.saved)
      BY <2>4 DEF Shaped, RevisionInv
    <2>7. Good(r)
      BY <2>4, <2>5, <2>6, Zenon DEF Good
    <2>8. up
      BY <1>1 DEF MapInv
    <2> QED
      BY <1>1, <2>1, <2>4, <2>7, <2>8 DEF Beside, ReloadSteps
  <1> QED
    BY <1>2, <1>3

\* ComposeWithScope.
LEMMA ComposeBeside ==
    ASSUME Shaped, RevisionInv, MapInv, NEW h \in Procs, Compose(h)
    PROVE  \E r : Beside(h, r)
  <1> DEFINE node == Merge(Lookup(proc[h].name).node, proc[h].doc)
  <1>1. proc[h].pc = "read" /\ proc[h].pc \notin ReloadSteps \union {"idle"}
    BY DEF Compose, ReloadSteps
  <1>2. CASE End(h, "refused")
    BY <1>1, <1>2, Refused
  <1>3. CASE ~End(h, "refused")
    <2> DEFINE r == [Free EXCEPT !.op = "custom", !.name = proc[h].name, !.doc = proc[h].doc,
                                 !.got = Eval(node), !.stamp = Content(node), !.result = "ok"]
    <2>1. Set(h, r)
      BY <1>3, Zenon DEF Compose
    <2> HIDE DEF node
    <2>2. /\ DOMAIN r = Fields /\ r.saved = NoMap /\ r.op = "custom" /\ r.pc = "idle"
      BY FreeShape DEF Fields
    <2> HIDE DEF r
    <2>3. StampOK(r) /\ UpdateOK(r)
      BY <2>2 DEF StampOK, UpdateOK
    <2>4. DOMAIN r.saved = Key
      BY <2>2 DEF NoMap
    <2>5. Good(r)
      BY <2>2, <2>3, <2>4, NoMapRevised, Zenon DEF Good
    <2> QED
      BY <1>1, <2>1, <2>2, <2>5 DEF Beside, ReloadSteps, Provisions
  <1> QED
    BY <1>2, <1>3

\* GetBlueprintRevision: unless the blueprint has changed since it was
\* evaluated, the stamp is the revision of what was evaluated.
LEMMA StampBeside ==
    ASSUME Shaped, RevisionInv, MapInv, NEW h \in Procs, Stamp(h)
    PROVE  \E r : Beside(h, r)
  <1> DEFINE n == proc[h].name
             seen == proc[h].seen
             got == proc[h].got
             r == [Free EXCEPT !.op = proc[h].op, !.name = n, !.got = got,
                               !.torn = (Lookup(n) # seen),
                               !.stamp = CurrentRevision(n), !.result = "ok"]
  <1>1. proc[h].pc = "stamp" /\ proc[h].pc \notin ReloadSteps \union {"idle"}
    BY DEF Stamp, ReloadSteps
  <1>2. Set(h, r)
    BY Zenon DEF Stamp
  <1>3. /\ DOMAIN r = Fields /\ r.saved = NoMap /\ r.op = proc[h].op /\ r.pc = "idle"
        /\ r.name = n /\ r.got = got /\ r.torn = (Lookup(n) # seen)
        /\ r.stamp = CurrentRevision(n)
    BY FreeShape DEF Fields
  <1>4. /\ proc[h].op \in Provisions /\ n \in Names /\ seen # None
        /\ IsRevised(seen) /\ got = Eval(seen.node)
    BY <1>1 DEF RevisionInv, StampOK
  <1>5. ASSUME Lookup(n) = seen, CurrentRevision(n) # None
        PROVE  Content(got) = Eval(CurrentRevision(n))
    <2>1. Current(n) = seen
      BY <1>4, <1>5 DEF Current, Lookup
    <2>2. CurrentRevision(n) = seen.rev
      BY <1>4, <2>1 DEF CurrentRevision
    <2>3. seen.rev = Content(seen.node)
      BY <1>4, <1>5, <2>2 DEF IsRevised
    <2> QED
      BY <1>4, <2>2, <2>3, ContentOfEval
  <1> HIDE DEF r, seen, got, n
  <1>6. StampOK(r) /\ UpdateOK(r)
    BY <1>3, <1>4, <1>5 DEF StampOK, UpdateOK
  <1>7. DOMAIN r.saved = Key
    BY <1>3 DEF NoMap
  <1>8. Good(r)
    BY <1>3, <1>6, <1>7, NoMapRevised, Zenon DEF Good
  <1> QED
    BY <1>1, <1>2, <1>3, <1>4, <1>8 DEF Beside, ReloadSteps

\* A denied provision, and a reload the watcher asks for.
LEMMA DenyBeside ==
    ASSUME Shaped, RevisionInv, MapInv, NEW h \in Procs, Deny(h)
    PROVE  \E r : Beside(h, r)
  <1> DEFINE r == [Free EXCEPT !.op = proc[h].op, !.name = proc[h].name, !.result = "refused"]
  <1>1. proc[h].pc \notin ReloadSteps \union {"idle"}
    BY DEF Deny, ReloadSteps
  <1>2. Set(h, r)
    BY Zenon DEF Deny
  <1>3. /\ DOMAIN r = Fields /\ r.saved = NoMap /\ r.stamp = None /\ r.pc = "idle"
        /\ r.result = "refused"
    BY FreeShape DEF Fields
  <1> HIDE DEF r
  <1>4. StampOK(r) /\ UpdateOK(r)
    BY <1>3 DEF StampOK, UpdateOK
  <1>5. DOMAIN r.saved = Key
    BY <1>3 DEF NoMap
  <1>6. Good(r)
    BY <1>3, <1>4, <1>5, NoMapRevised, Zenon DEF Good
  <1> QED
    BY <1>1, <1>2, <1>3, <1>6 DEF Beside, ReloadSteps

LEMMA WatchBeside ==
    ASSUME Shaped, RevisionInv, MapInv, NEW w \in Procs, WatchReload(w)
    PROVE  \E r : Beside(w, r)
  <1> DEFINE r == [Free EXCEPT !.pc = "begin", !.op = "watch"]
  <1>1. up /\ proc[w].pc = "idle" /\ Set(w, r)
    BY Zenon DEF WatchReload
  <1>2. Fresh(r) /\ r.pc = "begin"
    BY FreeShape DEF Fresh, Fields
  <1> HIDE DEF r
  <1> QED
    BY <1>1, <1>2, FreshGood DEF Beside, ReloadSteps

\* A step that gives p a good record keeps the domains and the revisions.
LEMMA SetGood ==
    ASSUME Shaped, RevisionInv, NEW p \in Procs, NEW r, Set(p, r), Good(r),
           DOMAIN rows' = Names, DOMAIN author' = Names, DOMAIN cache' = Key, Revised(cache')
    PROVE  Shaped' /\ RevisionInv'
  <1>1. /\ proc'[p] = r /\ \A q \in Procs : q # p => proc'[q] = proc[q]
        /\ DOMAIN proc' = Procs
        /\ \A q \in Procs : DOMAIN proc'[q] = Fields /\ DOMAIN proc'[q].saved = Key
    BY SetShape DEF Good
  <1>2. \A q \in Procs : Revised(proc'[q].saved) /\ StampOK(proc'[q]) /\ UpdateOK(proc'[q])
    BY <1>1, Zenon DEF RevisionInv, Good
  <1>3. Shaped'
    BY <1>1 DEF Shaped
  <1>4. RevisionInv'
    BY <1>2 DEF RevisionInv, Revised, IsRevised, StampOK, UpdateOK
  <1> QED
    BY <1>3, <1>4

-----------------------------------------------------------------------------
(* The map.                                                                *)

\* A step beside the reloads keeps the map's invariant, whether it writes no
\* row or the row of a request that has not been answered.
LEMMA BesideMap ==
    ASSUME Shaped, MapInv, NEW p \in Procs, NEW r, Beside(p, r),
           cache' = cache, up' = up, clash' = clash,
           \A n \in Names : \/ rows'[n] = rows[n] /\ author'[n] = author[n]
                            \/ author'[n] = p /\ r.pc # "idle"
    PROVE  MapInv'
  <1>1. proc'[p] = r /\ \A q \in Procs : q # p => proc'[q] = proc[q]
    BY SetShape DEF Beside, Good
  <1>2. \A q \in Procs : /\ Reloading(q)' <=> Reloading(q)
                         /\ Reloading(q) => q # p /\ proc'[q] = proc[q]
    BY <1>1 DEF Reloading, Beside, ReloadSteps
  <1>3. \A h \in Handlers : h \in Procs
    BY DEF Procs
  <1>4. \A n \in Names : Confirmed(n)' => Confirmed(n) /\ rows'[n] = rows[n]
    <2> SUFFICES ASSUME NEW n \in Names, NEW h \in Handlers, Confirms(h, n)'
                 PROVE  Confirms(h, n) /\ rows'[n] = rows[n]
      BY DEF Confirmed
    <2>1. h # p
      BY <1>1, <1>3 DEF Confirms, Ended, Beside
    <2>2. proc'[h] = proc[h]
      BY <1>1, <1>3, <2>1
    <2>3. author'[n] = h
      BY DEF Confirms
    <2> QED
      BY <2>1, <2>2, <2>3 DEF Confirms, Ended
  <1>5. ~up' => \A q \in Procs : proc'[q].pc = "idle"
    BY <1>1 DEF MapInv, Beside
  <1>6. ASSUME ~clash, NEW q \in Procs, Reloading(q)
        PROVE  ReloadOK(q)'
    <2>1. proc'[q] = proc[q] /\ q # p /\ ReloadOK(q)
      BY <1>2, <1>6 DEF MapInv
    <2>2. Sound(proc[q].saved)'
      BY <2>1 DEF ReloadOK, Sound
    <2>3. Kept(proc[q].saved)'
      BY <1>4, <2>1 DEF ReloadOK, Kept, HasRow
    <2>4. Filled(q)'
      BY <2>1 DEF ReloadOK, Filled, HasRow
    <2>5. Listed(q)'
      BY <1>4, <2>1 DEF ReloadOK, Listed
    <2> QED
      BY <2>2, <2>3, <2>4, <2>5 DEF ReloadOK
  <1>7. AtRest' => AtRest
    BY <1>2 DEF AtRest
  <1>8. Sound(cache) => Sound(cache)'
    BY DEF Sound
  <1>9. Kept(cache) => Kept(cache)'
    BY <1>4 DEF Kept, HasRow
  <1>10. ~clash' => \A q, o \in Procs : Reloading(q)' /\ Reloading(o)' => q = o
    BY <1>2 DEF MapInv
  <1>11. ~clash' /\ AtRest' => Sound(cache)' /\ Kept(cache)'
    BY <1>7, <1>8, <1>9 DEF MapInv
  <1>12. ~clash' => \A q \in Procs : Reloading(q)' => ReloadOK(q)'
    BY <1>2, <1>6
  <1> QED
    BY <1>5, <1>10, <1>11, <1>12, Zenon DEF MapInv

\* A request that is under way before and after a step is not answered.
LEMMA OnwardConfirmed ==
    ASSUME NEW p \in Procs, \A q \in Procs : q # p => proc'[q] = proc[q],
           proc[p].pc # "idle", proc'[p].pc # "idle", author' = author
    PROVE  \A n : Confirmed(n)' <=> Confirmed(n)
  <1>1. \A h \in Handlers : h \in Procs
    BY DEF Procs
  <1>2. \A n : \A h \in Handlers : Confirms(h, n)' <=> Confirms(h, n)
    BY <1>1 DEF Confirms, Ended
  <1> QED
    BY <1>2 DEF Confirmed

\* A step of a reload that goes on: what it will go back to is as good as before.
LEMMA OnwardMap ==
    ASSUME Shaped, MapInv, NEW p \in Procs, NEW r, Set(p, r), Good(r),
           Reloading(p), r.pc \in ReloadSteps, r.saved = proc[p].saved,
           rows' = rows, author' = author, up' = up, clash' = clash,
           ~clash => Filled(p)' /\ Listed(p)'
    PROVE  MapInv'
  <1>1. proc'[p] = r /\ \A q \in Procs : q # p => proc'[q] = proc[q]
    BY SetShape DEF Good
  <1>2. \A q \in Procs : Reloading(q)' <=> Reloading(q)
    BY <1>1 DEF Reloading, ReloadSteps
  <1>3. proc[p].pc # "idle" /\ proc'[p].pc # "idle"
    BY <1>1 DEF Reloading, ReloadSteps
  <1>4. \A n : Confirmed(n)' <=> Confirmed(n)
    BY <1>1, <1>3, OnwardConfirmed
  <1>5. ~AtRest'
    BY <1>2 DEF AtRest
  <1>6. ~up' => \A q \in Procs : proc'[q].pc = "idle"
    BY <1>3 DEF MapInv
  <1>7. ASSUME ~clash PROVE ReloadOK(p)'
    <2>1. ReloadOK(p)
      BY <1>7 DEF MapInv
    <2>2. Sound(proc[p].saved)'
      BY <1>1, <2>1 DEF ReloadOK, Sound
    <2>3. Kept(proc[p].saved)'
      BY <1>1, <1>4, <2>1 DEF ReloadOK, Kept, HasRow
    <2> QED
      BY <1>7, <2>2, <2>3 DEF ReloadOK
  <1>8. ~clash => \A q \in Procs : Reloading(q) => q = p
    BY DEF MapInv
  <1>9. ~clash' => \A q, o \in Procs : Reloading(q)' /\ Reloading(o)' => q = o
    BY <1>2 DEF MapInv
  <1>10. ~clash' => \A q \in Procs : Reloading(q)' => ReloadOK(q)'
    BY <1>2, <1>7, <1>8
  <1> QED
    BY <1>5, <1>6, <1>9, <1>10, Zenon DEF MapInv

\* A load begins.
LEMMA BeginInv ==
    ASSUME Shaped, RevisionInv, MapInv, NEW p \in Procs, Begin(p)
    PROVE  Shaped' /\ RevisionInv' /\ MapInv'
  <1> DEFINE r == [proc[p] EXCEPT !.pc = "files", !.saved = cache, !.todo = Names]
  <1>1. /\ Set(p, r) /\ cache' = NoMap /\ proc[p].pc = "begin"
        /\ clash' = (clash \/ \E q \in Procs : Reloading(q))
        /\ rows' = rows /\ author' = author /\ up' = up
    BY DEF Begin, store
  <1>2. /\ DOMAIN r = Fields /\ r.pc = "files" /\ r.saved = cache
        /\ r.stamp = proc[p].stamp
    BY DEF Shaped, Fields
  <1> HIDE DEF r
  <1>3. proc[p].stamp = None
    BY <1>1 DEF RevisionInv, StampOK
  <1>4. StampOK(r) /\ UpdateOK(r)
    BY <1>2, <1>3 DEF StampOK, UpdateOK
  <1>5. DOMAIN cache = Key /\ Revised(cache)
    BY DEF Shaped, RevisionInv
  <1>6. Good(r)
    BY <1>2, <1>4, <1>5, Zenon DEF Good
  <1>7. DOMAIN rows' = Names /\ DOMAIN author' = Names /\ DOMAIN cache' = Key
    BY <1>1 DEF Shaped, NoMap
  <1>8. Shaped' /\ RevisionInv'
    BY <1>1, <1>6, <1>7, NoMapRevised, SetGood
  <1>9. proc'[p] = r /\ \A q \in Procs : q # p => proc'[q] = proc[q]
    BY <1>1, <1>6, SetShape DEF Good
  <1>10. up
    BY <1>1 DEF MapInv
  <1>11. Reloading(p)' /\ ~AtRest'
    BY <1>2, <1>9 DEF Reloading, AtRest
  <1>12. ASSUME ~clash'
         PROVE  /\ \A q \in Procs : Reloading(q)' => q = p
                /\ ReloadOK(p)'
    <2>1. ~clash /\ \A q \in Procs : ~Reloading(q)
      BY <1>1, <1>12
    <2>2. Sound(cache) /\ Kept(cache)
      BY <1>10, <2>1 DEF AtRest, MapInv
    <2>3. \A q \in Procs : Reloading(q)' => q = p
      BY <1>9, <2>1 DEF Reloading
    <2>4. \A n : Confirmed(n)' <=> Confirmed(n)
      <3>1. proc[p].pc # "idle" /\ proc'[p].pc # "idle"
        BY <1>1, <1>2, <1>9
      <3> QED
        BY <1>1, <1>9, <3>1, OnwardConfirmed
    <2>5. Sound(proc[p].saved)'
      BY <1>2, <1>9, <2>2 DEF Sound
    <2>6. Kept(proc[p].saved)'
      BY <1>1, <1>2, <1>9, <2>2, <2>4 DEF Kept, HasRow
    <2>7. \A n \in Names : cache'[OrgKey(n)] = None
      BY <1>1 DEF NoMap, OrgKey, Key
    <2>8. Filled(p)' /\ Listed(p)'
      BY <1>2, <1>9, <2>7 DEF Filled, Listed
    <2> QED
      BY <2>3, <2>5, <2>6, <2>8 DEF ReloadOK
  <1>13. MapInv'
    BY <1>1, <1>10, <1>11, <1>12, Zenon DEF MapInv
  <1> QED
    BY <1>8, <1>13

\* A load goes on, or gives up and will undo.
LEMMA OnwardInv ==
    ASSUME Shaped, RevisionInv, MapInv, NEW p \in Procs, NEW r, Set(p, r), Good(r),
           Reloading(p), r.pc \in ReloadSteps, r.saved = proc[p].saved,
           DOMAIN cache' = Key, Revised(cache'),
           rows' = rows, author' = author, up' = up, clash' = clash,
           ~clash => Filled(p)' /\ Listed(p)'
    PROVE  Shaped' /\ RevisionInv' /\ MapInv'
  <1>1. DOMAIN rows' = Names /\ DOMAIN author' = Names
    BY DEF Shaped
  <1>2. Shaped' /\ RevisionInv'
    BY <1>1, SetGood
  <1>3. MapInv'
    BY OnwardMap
  <1> QED
    BY <1>2, <1>3

LEMMA GiveUpInv ==
    ASSUME Shaped, RevisionInv, MapInv, NEW p \in Procs, Goto(p, "undo"), Reloading(p),
           cache' = cache, rows' = rows, author' = author, up' = up, clash' = clash
    PROVE  Shaped' /\ RevisionInv' /\ MapInv'
  <1> DEFINE r == [proc[p] EXCEPT !.pc = "undo"]
  <1>1. Set(p, r)
    BY DEF Goto
  <1>2. Good(r) /\ r.pc = "undo" /\ r.saved = proc[p].saved
    BY GotoGood DEF Reloading
  <1> HIDE DEF r
  <1>3. proc'[p] = r
    BY <1>1, <1>2, SetShape DEF Good
  <1>4. Filled(p)' /\ Listed(p)'
    BY <1>2, <1>3 DEF Filled, Listed
  <1>5. DOMAIN cache' = Key /\ Revised(cache')
    BY DEF Shaped, RevisionInv
  <1>6. r.pc \in ReloadSteps
    BY <1>2 DEF ReloadSteps
  <1> QED
    BY <1>1, <1>2, <1>4, <1>5, <1>6, OnwardInv

\* The record of a reload that goes on to another step.
LEMMA RestGood ==
    ASSUME Shaped, RevisionInv, NEW p \in Procs, Reloading(p), NEW r, DOMAIN r = Fields,
           r.pc \in ReloadSteps, r.saved = proc[p].saved, r.stamp = proc[p].stamp
    PROVE  Good(r)
  <1>1. proc[p].stamp = None
    BY DEF RevisionInv, StampOK, Reloading
  <1>2. StampOK(r) /\ UpdateOK(r)
    BY <1>1 DEF StampOK, UpdateOK, ReloadSteps
  <1>3. DOMAIN proc[p].saved = Key /\ Revised(proc[p].saved)
    BY DEF Shaped, RevisionInv
  <1> QED
    BY <1>2, <1>3, Zenon DEF Good

\* One file is read: the organization's part of the map is still empty.
LEMMA LoadFileInv ==
    ASSUME Shaped, RevisionInv, MapInv, NEW p \in Procs, LoadFile(p)
    PROVE  Shaped' /\ RevisionInv' /\ MapInv'
  <1>1. /\ proc[p].pc = "files" /\ Reloading(p)
        /\ rows' = rows /\ author' = author /\ up' = up /\ clash' = clash
    BY DEF LoadFile, Reloading, store, history
  <1>2. PICK n \in proc[p].todo :
          IF files[n] # None /\ cache[Glob(n)] # None
          THEN Goto(p, "undo") /\ UNCHANGED cache
          ELSE /\ cache' = IF files[n] = None THEN cache
                           ELSE [cache EXCEPT ![Glob(n)] = Raw(files[n])]
               /\ Set(p, [proc[p] EXCEPT !.todo = @ \ {n},
                                         !.pc = IF proc[p].todo = {n} THEN "list" ELSE "files"])
    BY DEF LoadFile
  <1>3. CASE files[n] # None /\ cache[Glob(n)] # None
    <2>1. Goto(p, "undo") /\ cache' = cache
      BY <1>2, <1>3
    <2> QED
      BY <1>1, <2>1, GiveUpInv
  <1>4. CASE ~(files[n] # None /\ cache[Glob(n)] # None)
    <2> DEFINE l == IF proc[p].todo = {n} THEN "list" ELSE "files"
               r == [proc[p] EXCEPT !.todo = proc[p].todo \ {n}, !.pc = l]
    <2>1. Set(p, r) /\ cache' = IF files[n] = None THEN cache
                               ELSE [cache EXCEPT ![Glob(n)] = Raw(files[n])]
      <3>1. [proc[p] EXCEPT !.todo = @ \ {n}, !.pc = l] = r
        OBVIOUS
      <3> QED
        BY <1>2, <1>4, <3>1, Zenon
    <2>2. l \in {"list", "files"} /\ l \in ReloadSteps
      BY DEF ReloadSteps
    <2> HIDE DEF l
    <2>3. Good(r) /\ r.pc = l /\ r.saved = proc[p].saved
      <3>1. /\ DOMAIN r = Fields /\ r.pc = l /\ r.saved = proc[p].saved
            /\ r.stamp = proc[p].stamp
        BY DEF Shaped, Fields
      <3> HIDE DEF r
      <3> QED
        BY <1>1, <2>2, <3>1, RestGood
    <2> HIDE DEF r
    <2>4. proc'[p] = r
      BY <2>1, <2>3, SetShape DEF Good
    <2>5. DOMAIN cache' = Key /\ \A k \in Key : cache'[k] = cache[k] \/ cache'[k] = Raw(files[n])
      BY <2>1 DEF Shaped
    <2>6. Revised(cache')
      <3>1. IsRevised(Raw(files[n]))
        BY DEF IsRevised, Raw
      <3> QED
        BY <2>5, <3>1, Zenon DEF RevisionInv, Revised
    <2>7. \A m \in Names : cache'[OrgKey(m)] = cache[OrgKey(m)]
      BY <2>1 DEF OrgKey, Glob, Key, Shaped
    <2>8. ~clash => Filled(p)' /\ Listed(p)'
      <3> SUFFICES ASSUME ~clash PROVE Filled(p)' /\ Listed(p)'
        OBVIOUS
      <3>1. \A m \in Names : cache[OrgKey(m)] = None
        BY <1>1 DEF MapInv, ReloadOK, Filled
      <3> QED
        BY <2>2, <2>3, <2>4, <2>7, <3>1 DEF Filled, Listed
    <2> QED
      BY <1>1, <2>1, <2>2, <2>3, <2>5, <2>6, <2>8, OnwardInv
  <1> QED
    BY <1>3, <1>4

\* The rows are listed: whatever has been answered is among them.
LEMMA ListRowsInv ==
    ASSUME Shaped, RevisionInv, MapInv, NEW p \in Procs, ListRows(p)
    PROVE  Shaped' /\ RevisionInv' /\ MapInv'
  <1> DEFINE there == {n \in Names : rows[n] # None}
             l == IF there = {} THEN "resolve" ELSE "rows"
             r == [proc[p] EXCEPT !.list = rows, !.todo = there, !.pc = l]
  <1>0. Set(p, r)
    BY Zenon DEF ListRows
  <1>1. /\ proc[p].pc = "list" /\ Reloading(p) /\ Set(p, r) /\ cache' = cache
        /\ rows' = rows /\ author' = author /\ up' = up /\ clash' = clash
    BY <1>0 DEF ListRows, Reloading, store, history
  <1>2. l \in {"resolve", "rows"} /\ l \in ReloadSteps /\ (l = "resolve" => there = {})
    BY DEF ReloadSteps
  <1>3. \A n : n \in there <=> n \in Names /\ rows[n] # None
    OBVIOUS
  <1> HIDE DEF l, there
  <1>4. Good(r) /\ r.pc = l /\ r.saved = proc[p].saved /\ r.todo = there /\ r.list = rows
    <2>1. /\ DOMAIN r = Fields /\ r.pc = l /\ r.saved = proc[p].saved
          /\ r.stamp = proc[p].stamp /\ r.todo = there /\ r.list = rows
      BY DEF Shaped, Fields
    <2> HIDE DEF r
    <2> QED
      BY <1>1, <1>2, <2>1, RestGood
  <1> HIDE DEF r
  <1>5. proc'[p] = r
    BY <1>1, <1>4, SetShape DEF Good
  <1>6. DOMAIN cache' = Key /\ Revised(cache')
    BY <1>1 DEF Shaped, RevisionInv
  <1>7. ASSUME ~clash PROVE Filled(p)' /\ Listed(p)'
    <2>1. \A m \in Names : cache[OrgKey(m)] = None
      BY <1>1, <1>7 DEF MapInv, ReloadOK, Filled
    <2>2. Listed(p)'
      BY <1>1, <1>4, <1>5 DEF Listed
    <2>3. Filled(p)'
      BY <1>1, <1>2, <1>3, <1>4, <1>5, <2>1 DEF Filled
    <2> QED
      BY <2>2, <2>3
  <1> QED
    BY <1>1, <1>2, <1>4, <1>6, <1>7, OnwardInv

\* One row goes into the map.
LEMMA LoadRowInv ==
    ASSUME Shaped, RevisionInv, MapInv, NEW p \in Procs, LoadRow(p)
    PROVE  Shaped' /\ RevisionInv' /\ MapInv'
  <1>1. /\ proc[p].pc = "rows" /\ Reloading(p)
        /\ rows' = rows /\ author' = author /\ up' = up /\ clash' = clash
    BY DEF LoadRow, Reloading, store, history
  <1>2. PICK n \in proc[p].todo :
          IF cache[OrgKey(n)] # None
          THEN Goto(p, "undo") /\ UNCHANGED cache
          ELSE /\ cache' = [cache EXCEPT ![OrgKey(n)] = Raw(Restore(proc[p].list[n]))]
               /\ Set(p, [proc[p] EXCEPT !.todo = @ \ {n},
                               !.pc = IF proc[p].todo = {n} THEN "resolve" ELSE "rows"])
    BY DEF LoadRow
  <1>3. CASE cache[OrgKey(n)] # None
    <2>1. Goto(p, "undo") /\ cache' = cache
      BY <1>2, <1>3
    <2> QED
      BY <1>1, <2>1, GiveUpInv
  <1>4. CASE cache[OrgKey(n)] = None
    <2> DEFINE l == IF proc[p].todo = {n} THEN "resolve" ELSE "rows"
               todo == proc[p].todo \ {n}
               r == [proc[p] EXCEPT !.todo = todo, !.pc = l]
               entry == Raw(Restore(proc[p].list[n]))
    <2>1. Set(p, r) /\ cache' = [cache EXCEPT ![OrgKey(n)] = entry]
      <3>1. [proc[p] EXCEPT !.todo = @ \ {n}, !.pc = l] = r
        OBVIOUS
      <3> QED
        BY <1>2, <1>4, <3>1, Zenon
    <2>2. l \in {"resolve", "rows"} /\ l \in ReloadSteps /\ (l = "resolve" => todo = {})
      BY DEF ReloadSteps
    <2>3. \A m : m \in todo <=> m \in proc[p].todo /\ m # n
      OBVIOUS
    <2> HIDE DEF l, todo
    <2>4. /\ Good(r) /\ r.pc = l /\ r.saved = proc[p].saved /\ r.todo = todo
          /\ r.list = proc[p].list /\ r.name = proc[p].name
      <3>1. /\ DOMAIN r = Fields /\ r.pc = l /\ r.saved = proc[p].saved /\ r.todo = todo
            /\ r.list = proc[p].list /\ r.name = proc[p].name /\ r.stamp = proc[p].stamp
        BY DEF Shaped, Fields
      <3> HIDE DEF r
      <3> QED
        BY <1>1, <2>2, <3>1, RestGood
    <2> HIDE DEF r
    <2>5. proc'[p] = r /\ \A q \in Procs : q # p => proc'[q] = proc[q]
      BY <2>1, <2>4, SetShape DEF Good
    <2>6. DOMAIN cache' = Key /\ \A k \in Key : cache'[k] = cache[k] \/ cache'[k] = entry
      BY <2>1 DEF Shaped
    <2>7. Revised(cache')
      <3>1. IsRevised(entry)
        BY DEF IsRevised, Raw
      <3> HIDE DEF entry
      <3> QED
        BY <2>6, <3>1, Zenon DEF RevisionInv, Revised
    <2>8. \A m \in Names : cache'[OrgKey(m)] = IF m = n THEN entry ELSE cache[OrgKey(m)]
      BY <2>1 DEF OrgKey, Key, Shaped
    <2>9. ASSUME ~clash PROVE Filled(p)' /\ Listed(p)'
      <3>1. Filled(p) /\ Listed(p)
        BY <1>1, <2>9 DEF MapInv, ReloadOK
      <3>2. /\ \A m \in proc[p].todo : m \in Names /\ proc[p].list[m] # None
            /\ \A m \in Names :
                 cache[OrgKey(m)] = IF proc[p].list[m] = None \/ m \in proc[p].todo THEN None
                                    ELSE Raw(Restore(proc[p].list[m]))
        BY <1>1, <3>1 DEF Filled
      <3>3. \A m \in Names :
              cache'[OrgKey(m)] = IF proc[p].list[m] = None \/ m \in todo THEN None
                                  ELSE Raw(Restore(proc[p].list[m]))
        BY <2>3, <2>8, <3>2
      <3>4. Filled(p)'
        BY <2>2, <2>3, <2>4, <2>5, <3>2, <3>3 DEF Filled
      <3>5. proc[p].pc # "idle" /\ proc'[p].pc # "idle"
        BY <1>1, <2>2, <2>4, <2>5
      <3>6. \A m : Confirmed(m)' <=> Confirmed(m)
        BY <1>1, <2>5, <3>5, OnwardConfirmed
      <3>7. Listed(p)'
        BY <1>1, <2>4, <2>5, <3>1, <3>6 DEF Listed
      <3> QED
        BY <3>4, <3>7
    <2> QED
      BY <1>1, <2>1, <2>2, <2>4, <2>6, <2>7, <2>9, OnwardInv
  <1> QED
    BY <1>3, <1>4

\* The map is resolved: every entry has its revision, every listed row is there.
LEMMA ResolveInv ==
    ASSUME NoneIsNoEntry, Shaped, RevisionInv, MapInv, NEW p \in Procs, Resolve(p)
    PROVE  Shaped' /\ RevisionInv' /\ MapInv'
  <1>1. /\ proc[p].pc = "resolve" /\ Reloading(p) /\ proc[p].pc # "idle"
        /\ rows' = rows /\ author' = author /\ up' = up /\ clash' = clash
    BY DEF Resolve, Reloading, store, history
  <1>2. CASE ~Resolvable(cache)
    <2>1. Goto(p, "undo") /\ cache' = cache
      BY <1>2 DEF Resolve
    <2> QED
      BY <1>1, <2>1, GiveUpInv
  <1>3. CASE Resolvable(cache)
    <2> DEFINE r == [proc[p] EXCEPT !.pc = "verify"]
    <2>1. Set(p, r) /\ cache' = Resolved(cache)
      BY <1>3 DEF Resolve, Goto
    <2>2. Good(r) /\ r.pc = "verify" /\ r.saved = proc[p].saved
      BY <1>1, GotoGood
    <2>3. r.list = proc[p].list /\ r.name = proc[p].name
      BY DEF Shaped, Fields
    <2> HIDE DEF r
    <2>4. proc'[p] = r /\ \A q \in Procs : q # p => proc'[q] = proc[q]
      BY <2>1, <2>2, SetShape DEF Good
    <2>5. /\ DOMAIN cache' = Key
          /\ \A k \in Key : cache'[k] = IF cache[k] = None THEN None
                                        ELSE Resolution(cache[k].tmpl, cache[k].node, Merged(cache, k))
      BY <2>1 DEF Resolved
    <2>6. \A t, o, d : /\ Resolution(t, o, d) # None /\ Resolution(t, o, d).own = o
                      /\ Resolution(t, o, d).rev = Content(d) /\ Content(d) # None
                      /\ IsRevised(Resolution(t, o, d))
      BY DEF Resolution, NoneIsNoEntry, IsRevised
    <2>7. Revised(cache')
      BY <2>5, <2>6 DEF Revised, IsRevised
    <2>8. \A k \in Key : cache'[k] # None => cache'[k].rev # None
      BY <2>5, <2>6
    <2>9. ASSUME ~clash PROVE Filled(p)' /\ Listed(p)'
      <3>1. Filled(p) /\ Listed(p)
        BY <1>1, <2>9 DEF MapInv, ReloadOK
      <3>2. \A n \in Names : cache[OrgKey(n)] = IF proc[p].list[n] = None THEN None
                                                ELSE Raw(Restore(proc[p].list[n]))
        BY <1>1, <3>1 DEF Filled
      <3>3. \A d : Raw(d) # None /\ Raw(d).node = d
        BY DEF Raw, NoneIsNoEntry
      <3>4. \A n \in Names : OrgKey(n) \in Key
        BY DEF OrgKey, Key
      <3>5. \A n \in Names : HasRow(cache', n, proc[p].list[n])
        BY <2>5, <2>6, <3>2, <3>3, <3>4 DEF HasRow
      <3>6. Filled(p)'
        BY <2>2, <2>3, <2>4, <2>8, <3>5 DEF Filled, HasRow
      <3>7. proc'[p].pc # "idle"
        BY <2>2, <2>4
      <3>8. \A m : Confirmed(m)' <=> Confirmed(m)
        BY <1>1, <2>4, <3>7, OnwardConfirmed
      <3>9. Listed(p)'
        BY <1>1, <2>3, <2>4, <3>1, <3>8 DEF Listed
      <3> QED
        BY <3>6, <3>9
    <2>10. r.pc \in ReloadSteps
      BY <2>2 DEF ReloadSteps
    <2> QED
      BY <1>1, <2>1, <2>2, <2>5, <2>7, <2>9, <2>10, OnwardInv
  <1> QED
    BY <1>2, <1>3

\* A load ends with result res: the map must be sound, and hold the rows of
\* the requests answered before and of the one answered now.
LEMMA EndInv ==
    ASSUME Shaped, RevisionInv, MapInv, NEW p \in Procs, NEW res, End(p, res), Reloading(p),
           DOMAIN cache' = Key, Revised(cache'),
           rows' = rows, author' = author, up' = up, clash' = clash,
           ~clash => /\ Sound(cache')
                     /\ \A n \in Names :
                          \/ Confirmed(n)
                          \/ res = "ok" /\ author[n] = p /\ proc[p].name = n
                          => HasRow(cache', n, rows[n])
    PROVE  Shaped' /\ RevisionInv' /\ MapInv'
  <1> DEFINE r == EndRecord(p, res)
  <1>1. Set(p, r)
    BY Zenon DEF End, EndRecord
  <1>2. Good(r) /\ r.pc = "idle" /\ r.result = res /\ r.op = proc[p].op /\ r.name = proc[p].name
    <2>1. proc[p].pc # "idle"
      BY DEF Reloading
    <2> QED
      BY <2>1, EndGood
  <1> HIDE DEF r
  <1>3. DOMAIN rows' = Names /\ DOMAIN author' = Names
    BY DEF Shaped
  <1>4. Shaped' /\ RevisionInv'
    BY <1>1, <1>2, <1>3, SetGood
  <1>5. proc'[p] = r /\ \A q \in Procs : q # p => proc'[q] = proc[q]
    BY <1>1, <1>2, SetShape DEF Good
  <1>6. \A q \in Procs : Reloading(q)' => Reloading(q) /\ q # p
    BY <1>2, <1>5 DEF Reloading
  <1>7. ~up' => \A q \in Procs : proc'[q].pc = "idle"
    BY <1>2, <1>5 DEF MapInv
  <1>8. ASSUME ~clash
        PROVE  (\A q \in Procs : ~Reloading(q)') /\ Sound(cache)' /\ Kept(cache)'
    <2>1. \A q \in Procs : ~Reloading(q)'
      BY <1>6, <1>8 DEF MapInv
    <2>2. Sound(cache)'
      BY <1>8 DEF Sound
    <2>3. Kept(cache)'
      <3> SUFFICES ASSUME NEW n \in Names, NEW h \in Handlers, Confirms(h, n)'
                   PROVE  HasRow(cache', n, rows[n])
        BY DEF Kept, Confirmed, HasRow
      <3>1. h \in Procs
        BY DEF Procs
      <3>2. CASE h = p
        BY <1>2, <1>5, <1>8, <3>2 DEF Confirms, Ended
      <3>3. CASE h # p
        <4>1. Confirms(h, n)
          BY <1>5, <3>1, <3>3 DEF Confirms, Ended
        <4> QED
          BY <1>8, <4>1 DEF Confirmed
      <3> QED
        BY <3>2, <3>3
    <2> QED
      BY <2>1, <2>2, <2>3
  <1>9. MapInv'
    BY <1>7, <1>8, Zenon DEF MapInv
  <1> QED
    BY <1>4, <1>9

\* The new map has passed every check.
LEMMA VerifyInv ==
    ASSUME Shaped, RevisionInv, MapInv, NEW p \in Procs, Verify(p)
    PROVE  Shaped' /\ RevisionInv' /\ MapInv'
  <1>1. /\ proc[p].pc = "verify" /\ Reloading(p) /\ cache' = cache
        /\ rows' = rows /\ author' = author /\ up' = up /\ clash' = clash
    BY DEF Verify, Reloading, store, history
  <1>2. CASE ~AllValid(cache)
    <2>1. Goto(p, "undo")
      BY <1>2 DEF Verify
    <2> QED
      BY <1>1, <2>1, GiveUpInv
  <1>3. CASE AllValid(cache)
    <2>1. End(p, "ok")
      BY <1>3 DEF Verify
    <2>2. DOMAIN cache' = Key /\ Revised(cache')
      BY <1>1 DEF Shaped, RevisionInv
    <2>3. ASSUME ~clash
          PROVE  /\ Sound(cache')
                 /\ \A n \in Names :
                      \/ Confirmed(n)
                      \/ "ok" = "ok" /\ author[n] = p /\ proc[p].name = n
                      => HasRow(cache', n, rows[n])
      <3>1. Filled(p) /\ Listed(p)
        BY <1>1, <2>3 DEF MapInv, ReloadOK
      <3>2. Sound(cache)
        BY <1>1, <1>3, <3>1 DEF Filled, AllValid, Sound
      <3>3. \A n \in Names : HasRow(cache, n, proc[p].list[n])
        BY <1>1, <3>1 DEF Filled
      <3>4. \A n \in Names : Confirmed(n) \/ (author[n] = p /\ proc[p].name = n) =>
                              proc[p].list[n] = rows[n]
        BY <1>1, <3>1 DEF Listed
      <3> QED
        BY <1>1, <3>2, <3>3, <3>4, Zenon
    <2> QED
      BY <1>1, <2>1, <2>2, <2>3, EndInv
  <1> QED
    BY <1>2, <1>3

\* A failed load goes back to the map it found.
LEMMA UndoInv ==
    ASSUME Shaped, RevisionInv, MapInv, NEW p \in Procs, Undo(p)
    PROVE  Shaped' /\ RevisionInv' /\ MapInv'
  <1>1. /\ proc[p].pc = "undo" /\ Reloading(p) /\ cache' = proc[p].saved /\ End(p, "stale")
        /\ rows' = rows /\ author' = author /\ up' = up /\ clash' = clash
    BY DEF Undo, Reloading, store, history
  <1>2. DOMAIN cache' = Key /\ Revised(cache')
    BY <1>1 DEF Shaped, RevisionInv
  <1>3. ASSUME ~clash
        PROVE  /\ Sound(cache')
               /\ \A n \in Names :
                    \/ Confirmed(n)
                    \/ "stale" = "ok" /\ author[n] = p /\ proc[p].name = n
                    => HasRow(cache', n, rows[n])
    <2>1. Sound(proc[p].saved) /\ Kept(proc[p].saved)
      BY <1>1, <1>3 DEF MapInv, ReloadOK
    <2> QED
      BY <1>1, <2>1 DEF Kept
  <1> QED
    BY <1>1, <1>2, <1>3, EndInv

\* INSERT, UPDATE or DELETE: the row's author has not been answered yet.
LEMMA WriteInv ==
    ASSUME Shaped, RevisionInv, MapInv, NEW h \in Procs, Write(h)
    PROVE  Shaped' /\ RevisionInv' /\ MapInv'
  <1>1. /\ proc[h].pc = "write" /\ cache' = cache /\ up' = up /\ clash' = clash
    BY DEF Write, history
  <1>2. DOMAIN cache' = Key /\ Revised(cache')
    BY <1>1 DEF Shaped, RevisionInv
  <1>3. PICK r : /\ Beside(h, r) /\ DOMAIN rows' = Names /\ DOMAIN author' = Names
                 /\ \A n \in Names : \/ rows'[n] = rows[n] /\ author'[n] = author[n]
                                     \/ author'[n] = h /\ r.pc # "idle"
    <2>1. CASE End(h, "refused") /\ UNCHANGED <<rows, author>>
      <3>1. PICK r : Beside(h, r)
        BY <2>1, CheckBeside
      <3> QED
        BY <2>1, <3>1 DEF Shaped
    <2>2. CASE ~(End(h, "refused") /\ UNCHANGED <<rows, author>>)
      <3> DEFINE m == proc[h].name
                 r == [proc[h] EXCEPT !.pc = "begin"]
      <3>1. /\ rows' = [rows EXCEPT ![m] = proc[h].doc]
            /\ author' = [author EXCEPT ![m] = h] /\ Set(h, r)
        BY <2>2, Zenon DEF Write, Goto
      <3>2. Good(r) /\ r.pc = "begin"
        BY <1>1, GotoGood
      <3> HIDE DEF r
      <3>3. up
        BY <1>1 DEF MapInv
      <3>4. Beside(h, r)
        BY <1>1, <3>1, <3>2, <3>3 DEF Beside, ReloadSteps
      <3>5. DOMAIN rows' = Names /\ DOMAIN author' = Names
        BY <3>1 DEF Shaped
      <3>6. \A n \in Names : \/ rows'[n] = rows[n] /\ author'[n] = author[n]
                             \/ author'[n] = h
        BY <3>1 DEF Shaped
      <3> QED
        BY <3>2, <3>4, <3>5, <3>6
    <2> QED
      BY <2>1, <2>2
  <1>4. Shaped' /\ RevisionInv'
    BY <1>2, <1>3, SetGood DEF Beside
  <1>5. MapInv'
    BY <1>1, <1>3, BesideMap
  <1> QED
    BY <1>4, <1>5

\* A manager that has just started: every entry is resolved and valid, and no
\* request has been answered.  One that does not start has an empty map.
Started ==
    /\ DOMAIN rows = Names /\ DOMAIN author = Names
    /\ proc = [p \in Procs |-> Free] /\ ~clash
    /\ \/ up /\ Loads /\ cache = Resolved(AllRaw)
       \/ ~up /\ cache = NoMap

LEMMA StartInv ==
    NoneIsNoEntry /\ Started => Inv
  <1> SUFFICES ASSUME NoneIsNoEntry, Started PROVE Inv
    OBVIOUS
  <1>1. /\ DOMAIN proc = Procs
        /\ \A p \in Procs : /\ DOMAIN proc[p] = Fields /\ DOMAIN proc[p].saved = Key
                            /\ proc[p].saved = NoMap /\ proc[p].stamp = None
                            /\ proc[p].pc = "idle" /\ proc[p].result = "none"
    BY FreeShape DEF Started
  <1>2. \A t, o, d : /\ Resolution(t, o, d) # None
                    /\ Resolution(t, o, d).rev = Content(d) /\ Content(d) # None
                    /\ IsRevised(Resolution(t, o, d))
    BY DEF Resolution, NoneIsNoEntry, IsRevised
  <1>3. DOMAIN cache = Key /\ Revised(cache) /\ (up => Sound(cache))
    <2>1. CASE ~up /\ cache = NoMap
      BY <2>1, NoMapRevised DEF NoMap
    <2>2. CASE up /\ Loads /\ cache = Resolved(AllRaw)
      <3>1. /\ DOMAIN cache = Key
            /\ \A k \in Key : \/ cache[k] = None
                              \/ \E t, o, d : cache[k] = Resolution(t, o, d)
        BY <2>2 DEF Resolved
      <3>2. Revised(cache) /\ \A k \in Key : cache[k] # None => cache[k].rev # None
        BY <1>2, <3>1 DEF Revised, IsRevised
      <3>3. AllValid(cache)
        BY <2>2 DEF Loads, AllValid
      <3> QED
        BY <3>1, <3>2, <3>3 DEF Sound, AllValid
    <2> QED
      BY <2>1, <2>2 DEF Started
  <1>4. Shaped
    BY <1>1, <1>3 DEF Shaped, Started
  <1>5. RevisionInv
    <2>1. \A p \in Procs : Revised(proc[p].saved) /\ StampOK(proc[p]) /\ UpdateOK(proc[p])
      BY <1>1, NoMapRevised DEF StampOK, UpdateOK
    <2> QED
      BY <1>3, <2>1, Zenon DEF RevisionInv
  <1>6. MapInv
    <2>1. \A p \in Procs : ~Reloading(p)
      BY <1>1 DEF Reloading
    <2>2. \A n : ~Confirmed(n)
      BY <1>1 DEF Confirmed, Confirms, Ended, Procs
    <2>3. Kept(cache)
      BY <2>2 DEF Kept
    <2>4. up => Sound(cache)
      BY <1>3 DEF Sound
    <2> QED
      BY <1>1, <2>1, <2>3, <2>4 DEF MapInv, AtRest, Started
  <1> QED
    BY <1>4, <1>5, <1>6 DEF Inv

LEMMA RestartInv ==
    ASSUME NoneIsNoEntry, Inv, Restart
    PROVE  Inv'
  <1>1. Started'
    <2>1. Loads' <=> Loads
      BY DEF Restart, store, Loads, AllRaw
    <2>2. Resolved(AllRaw)' = Resolved(AllRaw)
      BY DEF Restart, store, AllRaw
    <2>3. /\ DOMAIN rows' = Names /\ DOMAIN author' = Names
          /\ proc' = [p \in Procs |-> Free] /\ clash' = FALSE
      BY DEF Restart, store, Inv, Shaped
    <2>4. \/ up' /\ Loads /\ cache' = Resolved(AllRaw)
          \/ ~up' /\ cache' = NoMap
      BY DEF Restart
    <2> QED
      BY <2>1, <2>2, <2>3, <2>4 DEF Started
  <1>2. NoneIsNoEntry'
    BY DEF NoneIsNoEntry
  <1>3. (NoneIsNoEntry /\ Started => Inv)'
    BY StartInv, PTL
  <1> QED
    BY <1>1, <1>2, <1>3

\* Files that change, and steps that change nothing.
LEMMA UntouchedInv ==
    ASSUME Inv, UNCHANGED <<rows, cache, proc, author, up, clash>>
    PROVE  Inv'
  <1>1. Shaped'
    BY DEF Inv, Shaped
  <1>2. RevisionInv'
    BY DEF Inv, RevisionInv, Revised, IsRevised, StampOK, UpdateOK
  <1>3. \A n : Confirmed(n)' <=> Confirmed(n)
    BY DEF Confirmed, Confirms, Ended
  <1>4. \A p \in Procs : Reloading(p)' <=> Reloading(p)
    BY DEF Reloading
  <1>5. \A p \in Procs : ReloadOK(p) => ReloadOK(p)'
    <2> SUFFICES ASSUME NEW p \in Procs, ReloadOK(p) PROVE ReloadOK(p)'
      OBVIOUS
    <2>1. Sound(proc[p].saved)' /\ Kept(proc[p].saved)'
      BY <1>3 DEF ReloadOK, Sound, Kept, HasRow
    <2>2. Filled(p)'
      BY DEF ReloadOK, Filled, HasRow
    <2>3. Listed(p)'
      BY <1>3 DEF ReloadOK, Listed
    <2> QED
      BY <2>1, <2>2, <2>3 DEF ReloadOK
  <1>6. Sound(cache) /\ Kept(cache) => Sound(cache)' /\ Kept(cache)'
    BY <1>3 DEF Sound, Kept, HasRow
  <1>7. AtRest' <=> AtRest
    BY <1>4 DEF AtRest
  <1>8. MapInv'
    BY <1>4, <1>5, <1>6, <1>7 DEF Inv, MapInv
  <1> QED
    BY <1>1, <1>2, <1>8 DEF Inv

\* A step of a request or of the watcher's timer that writes no row.
LEMMA BesideInv ==
    ASSUME Inv, NEW p \in Procs, \E r : Beside(p, r),
           UNCHANGED <<rows, cache, author, up, clash>>
    PROVE  Inv'
  <1>1. PICK r : Beside(p, r)
    OBVIOUS
  <1>2. /\ DOMAIN rows' = Names /\ DOMAIN author' = Names
        /\ DOMAIN cache' = Key /\ Revised(cache')
    BY DEF Inv, Shaped, RevisionInv
  <1>3. Shaped' /\ RevisionInv'
    BY <1>1, <1>2, SetGood DEF Inv, Beside
  <1>4. MapInv'
    BY <1>1, BesideMap DEF Inv
  <1> QED
    BY <1>3, <1>4 DEF Inv

\* The inductive invariant holds in every state the store reaches.
LEMMA InitInv ==
    ASSUME NoneIsNoEntry, Init
    PROVE  Inv
  <1>1. Started
    BY StoreConstants DEF Init, Started, NoRows
  <1> QED
    BY <1>1, StartInv

LEMMA NextInv ==
    ASSUME NoneIsNoEntry, Inv, [Next]_vars
    PROVE  Inv'
  <1>1. Shaped /\ RevisionInv /\ MapInv
    BY DEF Inv
  <1>2. ASSUME NEW p \in Procs, Reload(p) PROVE Inv'
    BY <1>1, <1>2, BeginInv, LoadFileInv, ListRowsInv, LoadRowInv, ResolveInv,
       VerifyInv, UndoInv, Zenon DEF Reload, Inv
  <1>3. ASSUME NEW h \in Handlers, Request(h) PROVE Inv'
    <2>1. h \in Procs
      BY DEF Procs
    <2>2. CASE Write(h)
      BY <1>1, <2>1, <2>2, WriteInv DEF Inv
    <2>3. CASE ~Write(h)
      <3>1. \E r : Beside(h, r)
        BY <1>1, <1>3, <2>1, <2>3, AskBeside, CheckBeside, PickBeside, ReadBeside,
           ComposeBeside, StampBeside, DenyBeside, Zenon DEF Request
      <3>2. UNCHANGED <<rows, cache, author, up, clash>>
        BY <1>3, <2>3
        DEF Request, Ask, Validate, CheckGlobal, CheckRevision, Pick, Read, Compose, Stamp,
            Deny, store, history
      <3> QED
        BY <2>1, <3>1, <3>2, BesideInv
    <2> QED
      BY <2>2, <2>3
  <1>4. ASSUME NEW w \in Watchers, WatchReload(w) PROVE Inv'
    <2>1. w \in Procs
      BY DEF Procs
    <2>2. \E r : Beside(w, r)
      BY <1>1, <1>4, <2>1, WatchBeside
    <2>3. UNCHANGED <<rows, cache, author, up, clash>>
      BY <1>4 DEF WatchReload, store, history
    <2> QED
      BY <2>1, <2>2, <2>3, BesideInv
  <1>5. CASE EditFile
    BY <1>5, UntouchedInv DEF EditFile
  <1>6. CASE Restart
    BY <1>6, RestartInv
  <1>7. CASE Quiet \/ UNCHANGED vars
    BY <1>7, UntouchedInv DEF Quiet, vars, store, history
  <1> QED
    BY <1>2, <1>3, <1>4, <1>5, <1>6, <1>7, Zenon DEF Next

LEMMA Invariance ==
    ASSUME NoneIsNoEntry
    PROVE  Spec => []Inv
  <1>1. Init => Inv
    BY InitInv
  <1>2. Inv /\ [Next]_vars => Inv'
    BY NextInv
  <1> QED
    BY <1>1, <1>2, PTL DEF Spec

\* A step of one process changes no other one.
LEMMA StepSets ==
    ASSUME NEW p, Reload(p) \/ Request(p) \/ WatchReload(p)
    PROVE  \E r : Set(p, r)
  <1>1. ASSUME NEW l, Goto(p, l) PROVE \E r : Set(p, r)
    BY <1>1, Zenon DEF Goto
  <1>2. ASSUME NEW res, End(p, res) PROVE \E r : Set(p, r)
    BY <1>2, Zenon DEF End
  <1>3. CASE Reload(p)
    <2>1. Begin(p) => \E r : Set(p, r)
      BY Zenon DEF Begin
    <2>2. LoadFile(p) => \E r : Set(p, r)
      BY <1>1, Zenon DEF LoadFile
    <2>3. ListRows(p) => \E r : Set(p, r)
      BY Zenon DEF ListRows
    <2>4. LoadRow(p) => \E r : Set(p, r)
      BY <1>1, Zenon DEF LoadRow
    <2>5. Resolve(p) => \E r : Set(p, r)
      BY <1>1, Zenon DEF Resolve
    <2>6. Verify(p) \/ Undo(p) => \E r : Set(p, r)
      BY <1>1, <1>2, Zenon DEF Verify, Undo
    <2> QED
      BY <1>3, <2>1, <2>2, <2>3, <2>4, <2>5, <2>6, Zenon DEF Reload
  <1>4. CASE Request(p)
    <2>1. Ask(p) => \E r : Set(p, r)
      BY Zenon DEF Ask
    <2>2. Validate(p) => \E r : Set(p, r)
      BY <1>2, Zenon DEF Validate
    <2>3. CheckGlobal(p) \/ CheckRevision(p) => \E r : Set(p, r)
      BY <1>1, <1>2, Zenon DEF CheckGlobal, CheckRevision
    <2>4. Write(p) => \E r : Set(p, r)
      BY <1>1, <1>2, Zenon DEF Write
    <2>5. Pick(p) \/ Read(p) => \E r : Set(p, r)
      BY <1>2, Zenon DEF Pick, Read
    <2>6. Compose(p) \/ Stamp(p) \/ Deny(p) => \E r : Set(p, r)
      BY <1>2, Zenon DEF Compose, Stamp, Deny
    <2> QED
      BY <1>4, <2>1, <2>2, <2>3, <2>4, <2>5, <2>6, Zenon DEF Request
  <1>5. CASE WatchReload(p)
    BY <1>5, Zenon DEF WatchReload
  <1> QED
    BY <1>3, <1>4, <1>5

\* Only its own Write takes a request from the write to the reload.
LEMMA OnlyWrite ==
    ASSUME Shaped, [Next]_vars, NEW h \in Handlers,
           proc[h].pc = "write", proc'[h].pc = "begin"
    PROVE  Write(h)
  <1>1. h \in Procs
    BY DEF Procs
  <1>2. ASSUME NEW p \in Procs, Reload(p) \/ Request(p) \/ WatchReload(p)
        PROVE  p = h
    <2>1. PICK r : Set(p, r)
      BY <1>2, StepSets
    <2> QED
      BY <1>1, <2>1 DEF Set, Shaped
  <1>3. ASSUME NEW p \in Procs, Reload(p) PROVE FALSE
    <2>1. Reload(h)
      BY <1>2, <1>3
    <2> QED
      BY <2>1 DEF Reload, Begin, LoadFile, ListRows, LoadRow, Resolve, Verify, Undo
  <1>4. ASSUME NEW g \in Handlers, Request(g) PROVE Write(h)
    <2>1. Request(h)
      BY <1>2, <1>4 DEF Procs
    <2> QED
      BY <2>1 DEF Request, Ask, Validate, CheckGlobal, CheckRevision, Pick, Read, Compose,
                  Stamp, Deny
  <1>5. ASSUME NEW w \in Watchers, WatchReload(w) PROVE FALSE
    <2>1. WatchReload(h)
      BY <1>2, <1>5 DEF Procs
    <2> QED
      BY <2>1 DEF WatchReload
  <1>6. ~Restart
    BY <1>1, FreeShape DEF Restart
  <1>7. ~(EditFile \/ Quiet \/ UNCHANGED vars)
    BY DEF EditFile, Quiet, vars
  <1> QED
    BY <1>3, <1>4, <1>5, <1>6, <1>7, Zenon DEF Next

\* Two documents that one revision covers agree in what both set.
LEMMA CoversBoth ==
    ASSUME NEW rev, NEW d, NEW e, Covers(rev, d), Covers(rev, e)
    PROVE  SameFields(d, e)
  <1>1. \A l : Untagged(l).kind = "seq" <=> l.kind = "seq"
    BY DEF Untagged, List
  <1>2. ASSUME NEW q, NEW r, NEW a, NEW b, SameLeaf(q, r, a), SameLeaf(q, r, b)
        PROVE  SameLeaf(q, a, b)
    <2>1. CASE r = a \/ r = b
      <3>1. SameLeaf(q, a, b) \/ SameLeaf(q, b, a)
        BY <1>2, <2>1
      <3> QED
        BY <3>1 DEF SameLeaf
    <2>2. CASE Strategic(q) /\ Untagged(r) = Untagged(a)
      <3>1. r.kind = "seq" => a.kind = "seq"
        BY <1>1, <2>2
      <3> QED
        BY <1>2, <2>1, <2>2, <3>1 DEF SameLeaf, IsScripts
    <2>3. CASE IsScripts(q, r) /\ IsScripts(q, a)
      <3>1. Untagged(r) = Untagged(b) => b.kind = "seq"
        BY <1>1, <2>3 DEF IsScripts
      <3> QED
        BY <1>2, <2>1, <2>3, <3>1 DEF SameLeaf, IsScripts
    <2> QED
      BY <1>2, <2>1, <2>2, <2>3 DEF SameLeaf
  <1> QED
    BY <1>2, Zenon DEF Covers, SameFields

-----------------------------------------------------------------------------
(* Induction, by way of a least counterexample.                            *)

LEMMA LeastNumber ==
    ASSUME NEW T \in SUBSET Nat, T # {}
    PROVE  \E x \in T : \A y \in T : x <= y
  <1> DEFINE R == {p \in Nat \X Nat : p[1] < p[2]}
  <1>1. IsWellFoundedOn(R, Nat)
    BY NatLessThanWellFounded, Zenon DEF OpToRel
  <1>2. \A x, y \in Nat : x < y => <<x, y>> \in R
    OBVIOUS
  <1> HIDE DEF R
  <1>3. PICK x \in T : \A y \in T : ~ (<<y, x>> \in R)
    BY <1>1, WFMin
  <1>4. ASSUME NEW y \in T PROVE x <= y
    <2>1. x \in Nat /\ y \in Nat
      OBVIOUS
    <2>2. ~ (y < x)
      BY <1>2, <1>3, <2>1, Zenon
    <2> QED
      BY <2>1, <2>2
  <1> QED
    BY <1>4

LEMMA SetInduction ==
  ASSUME NEW T, 0 \in T, \A n \in Nat : n \in T => n + 1 \in T
  PROVE  Nat \subseteq T
  <1> SUFFICES ASSUME NEW y \in Nat, y \notin T PROVE FALSE
    OBVIOUS
  <1>1. PICK x \in {z \in Nat : z \notin T} : \A z \in {w \in Nat : w \notin T} : x <= z
    BY LeastNumber
  <1>2. x \in Nat /\ x # 0 /\ x - 1 \in Nat /\ (x - 1) + 1 = x
    BY <1>1
  <1>3. x - 1 \in T
    BY <1>1, <1>2
  <1> QED
    BY <1>1, <1>2, <1>3

-----------------------------------------------------------------------------
(* Chains of templates.                                                    *)

Depth == Cardinality(Key)

\* The keys whose chain has more than d templates, from those with more than
\* d - 1.
LongerRow(m, d, s) ==
    {q \in Key : d = 0 \/ (m[q] # None /\ m[q].tmpl # None /\ ParentOf(m, q) \in s)}

\* The documents merged along at most d templates, from those along d - 1.
MergedEntry(m, d, row, q) ==
    IF d = 0 \/ m[q] = None THEN None
    ELSE IF m[q].tmpl = None THEN m[q].node
    ELSE LET parent == row[ParentOf(m, q)]
         IN IF parent = None THEN None ELSE Merge(parent, m[q].node)
MergedRow(m, d, row) == [q \in Key |-> MergedEntry(m, d, row, q)]

IsLonger(m, f) == \A d \in 0..Depth : f[d] = LongerRow(m, d, f[d - 1])
IsMerged(m, f) == \A d \in 0..Depth : f[d] = MergedRow(m, d, f[d - 1])

LEMMA DepthIsNat == Depth \in Nat /\ (Key # {} => Depth > 0)
  <1>1. IsFiniteSet(BOOLEAN \X Names)
    <2>1. IsFiniteSet({TRUE})
      BY FS_Singleton, Zenon
    <2>2. BOOLEAN = {TRUE} \cup {FALSE}
      OBVIOUS
    <2>3. IsFiniteSet(BOOLEAN)
      BY <2>1, <2>2, FS_AddElement, Zenon
    <2> QED
      BY <2>3, FS_Product, StoreConstants, Zenon
  <1> DEFINE g == [p \in BOOLEAN \X Names |-> [org |-> p[1], name |-> p[2]]]
  <1>2. g \in Surjection(BOOLEAN \X Names, Key)
    <2>1. g \in [BOOLEAN \X Names -> Key]
      BY DEF Key
    <2>2. ASSUME NEW k \in Key PROVE \E p \in BOOLEAN \X Names : g[p] = k
      <3>1. <<k.org, k.name>> \in BOOLEAN \X Names /\ k = [org |-> k.org, name |-> k.name]
        BY DEF Key
      <3>2. g[<<k.org, k.name>>] = k
        BY <3>1
      <3> QED
        BY <3>1, <3>2
    <2> QED
      BY <2>1, <2>2 DEF Surjection
  <1> HIDE DEF g
  <1>3. IsFiniteSet(Key)
    BY <1>1, <1>2, FS_Surjection
  <1>4. Depth \in Nat
    BY <1>3, FS_CardinalityType DEF Depth
  <1>5. Key # {} => Depth # 0
    BY <1>3, FS_EmptySet DEF Depth
  <1> QED
    BY <1>4, <1>5

LEMMA LongerExists ==
    ASSUME NEW m, NEW n \in Nat
    PROVE  \E f : f = [d \in 0..n |-> LongerRow(m, d, f[d - 1])]
  <1> DEFINE T == {i \in Nat : \E f : f = [d \in 0..i |-> LongerRow(m, d, f[d - 1])]}
  <1>1. \A x, y : LongerRow(m, 0, x) = LongerRow(m, 0, y)
    BY DEF LongerRow
  <1>2. 0 \in T
    <2> DEFINE f == [d \in 0..0 |-> LongerRow(m, 0, 0)]
    <2>1. \A d \in 0..0 : LongerRow(m, d, f[d - 1]) = LongerRow(m, 0, 0)
      BY <1>1
    <2>2. f = [d \in 0..0 |-> LongerRow(m, d, f[d - 1])]
      BY <2>1
    <2> QED
      BY <2>2
  <1>3. ASSUME NEW i \in Nat, i \in T PROVE i + 1 \in T
    <2>1. PICK f : f = [d \in 0..i |-> LongerRow(m, d, f[d - 1])]
      BY <1>3
    <2> DEFINE g == [d \in 0..i + 1 |-> IF d = i + 1 THEN LongerRow(m, i + 1, f[i]) ELSE f[d]]
    <2>2. ASSUME NEW d \in 0..i + 1 PROVE g[d] = LongerRow(m, d, g[d - 1])
      <3>1. CASE d = i + 1
        <4>1. d - 1 = i /\ i \in 0..i + 1 /\ i # i + 1
          BY <3>1
        <4>2. g[d - 1] = f[i]
          BY <4>1
        <4> QED
          BY <3>1, <4>2
      <3>2. CASE d = 0
        <4>1. 0 \in 0..i /\ 0 \in 0..i + 1 /\ 0 # i + 1
          OBVIOUS
        <4>2. f[0] = LongerRow(m, 0, f[0 - 1]) /\ g[0] = f[0]
          BY <2>1, <4>1
        <4> HIDE DEF g
        <4> QED
          BY <1>1, <3>2, <4>2
      <3>3. CASE d # i + 1 /\ d # 0
        <4>1. d \in 0..i /\ d - 1 \in 0..i + 1 /\ d - 1 # i + 1
          BY <3>3
        <4>2. f[d] = LongerRow(m, d, f[d - 1])
          BY <2>1, <4>1
        <4>3. g[d] = f[d] /\ g[d - 1] = f[d - 1]
          BY <3>3, <4>1
        <4> HIDE DEF g
        <4> QED
          BY <4>2, <4>3
      <3> QED
        BY <3>1, <3>2, <3>3
    <2>3. g = [d \in 0..i + 1 |-> g[d]]
      OBVIOUS
    <2> HIDE DEF g
    <2>4. g = [d \in 0..i + 1 |-> LongerRow(m, d, g[d - 1])]
      BY <2>2, <2>3
    <2> QED
      BY <2>4
  <1> HIDE DEF T
  <1>4. Nat \subseteq T
    BY <1>2, <1>3, SetInduction
  <1> QED
    BY <1>4 DEF T

LEMMA MergedExists ==
    ASSUME NEW m, NEW n \in Nat
    PROVE  \E f : f = [d \in 0..n |-> MergedRow(m, d, f[d - 1])]
  <1> DEFINE T == {i \in Nat : \E f : f = [d \in 0..i |-> MergedRow(m, d, f[d - 1])]}
  <1>1. \A x, y : MergedRow(m, 0, x) = MergedRow(m, 0, y)
    BY DEF MergedRow, MergedEntry
  <1>2. 0 \in T
    <2> DEFINE f == [d \in 0..0 |-> MergedRow(m, 0, 0)]
    <2>1. \A d \in 0..0 : MergedRow(m, d, f[d - 1]) = MergedRow(m, 0, 0)
      BY <1>1
    <2>2. f = [d \in 0..0 |-> MergedRow(m, d, f[d - 1])]
      BY <2>1
    <2> QED
      BY <2>2
  <1>3. ASSUME NEW i \in Nat, i \in T PROVE i + 1 \in T
    <2>1. PICK f : f = [d \in 0..i |-> MergedRow(m, d, f[d - 1])]
      BY <1>3
    <2> DEFINE g == [d \in 0..i + 1 |-> IF d = i + 1 THEN MergedRow(m, i + 1, f[i]) ELSE f[d]]
    <2>2. ASSUME NEW d \in 0..i + 1 PROVE g[d] = MergedRow(m, d, g[d - 1])
      <3>1. CASE d = i + 1
        <4>1. d - 1 = i /\ i \in 0..i + 1 /\ i # i + 1
          BY <3>1
        <4>2. g[d - 1] = f[i]
          BY <4>1
        <4> QED
          BY <3>1, <4>2
      <3>2. CASE d = 0
        <4>1. 0 \in 0..i /\ 0 \in 0..i + 1 /\ 0 # i + 1
          OBVIOUS
        <4>2. f[0] = MergedRow(m, 0, f[0 - 1]) /\ g[0] = f[0]
          BY <2>1, <4>1
        <4> HIDE DEF g
        <4> QED
          BY <1>1, <3>2, <4>2
      <3>3. CASE d # i + 1 /\ d # 0
        <4>1. d \in 0..i /\ d - 1 \in 0..i + 1 /\ d - 1 # i + 1
          BY <3>3
        <4>2. f[d] = MergedRow(m, d, f[d - 1])
          BY <2>1, <4>1
        <4>3. g[d] = f[d] /\ g[d - 1] = f[d - 1]
          BY <3>3, <4>1
        <4> HIDE DEF g
        <4> QED
          BY <4>2, <4>3
      <3> QED
        BY <3>1, <3>2, <3>3
    <2>3. g = [d \in 0..i + 1 |-> g[d]]
      OBVIOUS
    <2> HIDE DEF g
    <2>4. g = [d \in 0..i + 1 |-> MergedRow(m, d, g[d - 1])]
      BY <2>2, <2>3
    <2> QED
      BY <2>4
  <1> HIDE DEF T
  <1>4. Nat \subseteq T
    BY <1>2, <1>3, SetInduction
  <1> QED
    BY <1>4 DEF T

LEMMA CircularIsLonger ==
    ASSUME NEW m
    PROVE  \E f : IsLonger(m, f) /\ \A k : Circular(m, k) <=> k \in f[Depth]
  <1> DEFINE Def(f) == f = [d \in 0..Cardinality(Key) |-> {q \in Key :
                  d = 0 \/ (m[q] # None /\ m[q].tmpl # None /\ ParentOf(m, q) \in f[d - 1])}]
             c == CHOOSE f : Def(f)
  <1>1. \A k : Circular(m, k) <=> k \in c[Depth]
    BY DEF Circular, Depth
  <1>2. \A f : Def(f) <=> f = [d \in 0..Depth |-> LongerRow(m, d, f[d - 1])]
    BY Zenon DEF LongerRow, Depth
  <1> HIDE DEF Def
  <1>3. \E f : Def(f)
    <2>1. Depth \in Nat
      BY DepthIsNat
    <2>2. PICK f : f = [d \in 0..Depth |-> LongerRow(m, d, f[d - 1])]
      BY <2>1, LongerExists, Zenon
    <2> QED
      BY <1>2, <2>2
  <1>4. Def(c)
    BY <1>3
  <1> HIDE DEF c
  <1>5. c = [d \in 0..Depth |-> LongerRow(m, d, c[d - 1])]
    BY <1>2, <1>4
  <1>6. IsLonger(m, c)
    BY <1>5 DEF IsLonger
  <1> QED
    BY <1>1, <1>6

LEMMA MergedIsRow ==
    ASSUME NEW m
    PROVE  \E f : IsMerged(m, f) /\ \A k : Merged(m, k) = f[Depth][k]
  <1> DEFINE Def(f) == f = [d \in 0..Cardinality(Key) |-> [q \in Key |->
                  IF d = 0 \/ m[q] = None THEN None
                  ELSE IF m[q].tmpl = None THEN m[q].node
                  ELSE LET parent == f[d - 1][ParentOf(m, q)]
                       IN IF parent = None THEN None ELSE Merge(parent, m[q].node)]]
             c == CHOOSE f : Def(f)
  <1>1. \A k : Merged(m, k) = c[Depth][k]
    BY DEF Merged, Depth
  <1>2. \A f : Def(f) <=> f = [d \in 0..Depth |-> MergedRow(m, d, f[d - 1])]
    BY Zenon DEF MergedRow, MergedEntry, Depth
  <1> HIDE DEF Def
  <1>3. \E f : Def(f)
    <2>1. Depth \in Nat
      BY DepthIsNat
    <2>2. PICK f : f = [d \in 0..Depth |-> MergedRow(m, d, f[d - 1])]
      BY <2>1, MergedExists, Zenon
    <2> QED
      BY <1>2, <2>2
  <1>4. Def(c)
    BY <1>3
  <1> HIDE DEF c
  <1>5. c = [d \in 0..Depth |-> MergedRow(m, d, c[d - 1])]
    BY <1>2, <1>4
  <1>6. IsMerged(m, c)
    BY <1>5 DEF IsMerged
  <1> QED
    BY <1>1, <1>6

KnownTemplates(m) == \A q \in Key : m[q] # None => m[q].tmpl \in Names \union {None}

LEMMA KeyTypes ==
    /\ \A n \in Names : Glob(n) \in Key /\ OrgKey(n) \in Key
    /\ \A q \in Key : q.org \in BOOLEAN /\ q.name \in Names
    /\ \A n \in Names, q \in Key : q = OrgKey(n) <=> q.org /\ q.name = n
  BY DEF Glob, OrgKey, Key

LEMMA ParentIsKey ==
    ASSUME NEW m, KnownTemplates(m), NEW q \in Key, m[q] # None, m[q].tmpl # None
    PROVE  ParentOf(m, q) \in Key
  <1>1. m[q].tmpl \in Names
    BY DEF KnownTemplates
  <1> QED
    BY <1>1, KeyTypes DEF ParentOf, ResolveTemplateParent

LEMMA LongerStep ==
    ASSUME NEW m, NEW l, IsLonger(m, l), NEW d \in 1..Depth, NEW q \in Key
    PROVE  q \in l[d] <=> m[q] # None /\ m[q].tmpl # None /\ ParentOf(m, q) \in l[d - 1]
  <1>1. l[d] = LongerRow(m, d, l[d - 1]) /\ d # 0
    BY DepthIsNat DEF IsLonger
  <1> QED
    BY <1>1 DEF LongerRow

LEMMA LongerBegins ==
    ASSUME NEW m, NEW l, IsLonger(m, l)
    PROVE  l[0] = Key
  <1>1. l[0] = LongerRow(m, 0, l[0 - 1])
    BY DepthIsNat DEF IsLonger
  <1> QED
    BY <1>1 DEF LongerRow

LEMMA MergedStep ==
    ASSUME NEW m, NEW f, IsMerged(m, f), NEW d \in 1..Depth, NEW q \in Key
    PROVE  f[d][q] = IF m[q] = None THEN None
                     ELSE IF m[q].tmpl = None THEN m[q].node
                     ELSE IF f[d - 1][ParentOf(m, q)] = None THEN None
                     ELSE Merge(f[d - 1][ParentOf(m, q)], m[q].node)
  <1>1. f[d] = MergedRow(m, d, f[d - 1]) /\ d # 0
    BY DepthIsNat DEF IsMerged
  <1>2. f[d][q] = MergedEntry(m, d, f[d - 1], q)
    BY <1>1 DEF MergedRow
  <1> QED
    BY <1>1, <1>2, Zenon DEF MergedEntry

\* Two maps that differ in one blueprint of the organization only: a chain
\* that does not lead through it is the same in both.
Differ(m, a, n) ==
    /\ m[OrgKey(n)] # None
    /\ \A q \in Key : q # OrgKey(n) => m[q] = a[q]

LEMMA ParentIsSame ==
    ASSUME NEW m, NEW a, NEW n \in Names, Differ(m, a, n), KnownTemplates(m),
           NEW q \in Key, m[q] # None, m[q].tmpl # None, ParentOf(m, q) # OrgKey(n)
    PROVE  /\ q.org => ResolveTemplateParent(a, m[q].tmpl) = ParentOf(m, q)
           /\ q # OrgKey(n) => ParentOf(a, q) = ParentOf(m, q)
  <1>1. m[q].tmpl \in Names /\ OrgKey(m[q].tmpl) \in Key
    BY KeyTypes DEF KnownTemplates
  <1>2. q.org => ResolveTemplateParent(a, m[q].tmpl) = ParentOf(m, q)
    <2> SUFFICES ASSUME q.org PROVE ResolveTemplateParent(a, m[q].tmpl) = ParentOf(m, q)
      OBVIOUS
    <2>1. ParentOf(m, q) = ResolveTemplateParent(m, m[q].tmpl)
      BY DEF ParentOf
    <2>2. OrgKey(m[q].tmpl) # OrgKey(n)
      <3> SUFFICES ASSUME OrgKey(m[q].tmpl) = OrgKey(n) PROVE FALSE
        OBVIOUS
      <3>1. m[OrgKey(m[q].tmpl)] # None
        BY DEF Differ
      <3> QED
        BY <2>1, <3>1 DEF ResolveTemplateParent
    <2>3. m[OrgKey(m[q].tmpl)] = a[OrgKey(m[q].tmpl)]
      BY <1>1, <2>2 DEF Differ
    <2> QED
      BY <2>1, <2>3 DEF ResolveTemplateParent
  <1>3. ASSUME q # OrgKey(n) PROVE ParentOf(a, q) = ParentOf(m, q)
    <2>1. m[q] = a[q]
      BY <1>3 DEF Differ
    <2> QED
      BY <1>2, <2>1 DEF ParentOf
  <1> QED
    BY <1>2, <1>3

\* The documents merged along the chains that do not lead through n.
SameRows(l, f, g, d) ==
    \A q \in Key : q \notin l[d] => \A i, j \in d..Depth : f[i][q] = g[j][q]

LEMMA SameStep ==
    ASSUME NEW m, NEW a, NEW n \in Names, Differ(m, a, n), KnownTemplates(m),
           NEW l, IsLonger(m, l), NEW f, IsMerged(m, f), NEW g, IsMerged(a, g),
           NEW d \in Nat, d + 1 <= Depth, OrgKey(n) \in l[d], OrgKey(n) \in l[d + 1],
           SameRows(l, f, g, d)
    PROVE  SameRows(l, f, g, d + 1)
  <1> SUFFICES ASSUME NEW q \in Key, q \notin l[d + 1],
                      NEW i \in d + 1..Depth, NEW j \in d + 1..Depth
               PROVE  f[i][q] = g[j][q]
    BY DEF SameRows
  <1>1. PICK D \in Nat : D = Depth
    BY DepthIsNat
  <1>2. d + 1 \in 1..Depth /\ (d + 1) - 1 = d /\ i \in 1..Depth /\ j \in 1..Depth
        /\ i - 1 \in d..Depth /\ j - 1 \in d..Depth
    BY <1>1
  <1>3. q # OrgKey(n) /\ m[q] = a[q]
    BY DEF Differ
  <1>4. f[i][q] = IF m[q] = None THEN None
                  ELSE IF m[q].tmpl = None THEN m[q].node
                  ELSE IF f[i - 1][ParentOf(m, q)] = None THEN None
                  ELSE Merge(f[i - 1][ParentOf(m, q)], m[q].node)
    BY <1>2, MergedStep
  <1>5. g[j][q] = IF m[q] = None THEN None
                  ELSE IF m[q].tmpl = None THEN m[q].node
                  ELSE IF g[j - 1][ParentOf(a, q)] = None THEN None
                  ELSE Merge(g[j - 1][ParentOf(a, q)], m[q].node)
    BY <1>2, <1>3, MergedStep
  <1>6. CASE m[q] # None /\ m[q].tmpl # None
    <2>1. ParentOf(m, q) \in Key
      BY <1>6, ParentIsKey
    <2>2. ParentOf(m, q) \notin l[d]
      BY <1>2, <1>6, LongerStep
    <2>3. ParentOf(a, q) = ParentOf(m, q)
      BY <1>3, <1>6, <2>2, ParentIsSame
    <2>4. f[i - 1][ParentOf(m, q)] = g[j - 1][ParentOf(m, q)]
      BY <1>2, <2>1, <2>2 DEF SameRows
    <2> QED
      BY <1>4, <1>5, <2>3, <2>4, Zenon
  <1>7. CASE ~(m[q] # None /\ m[q].tmpl # None)
    BY <1>4, <1>5, <1>7, Zenon
  <1> QED
    BY <1>6, <1>7

MergedOnto(m, a, n) ==
    LET parent == ResolveTemplateParent(a, m[OrgKey(n)].tmpl)
    IN /\ parent \in Key
       /\ Merged(m, OrgKey(n)) = IF Merged(a, parent) = None THEN None
                                 ELSE Merge(Merged(a, parent), m[OrgKey(n)].node)

\* A blueprint whose templates do not lead back to it is merged with its
\* template as that is merged without it.
LEMMA MergedChild ==
    ASSUME NEW m, NEW a, NEW n \in Names, Differ(m, a, n), KnownTemplates(m),
           ~Circular(m, OrgKey(n)), m[OrgKey(n)].tmpl # None
    PROVE  MergedOnto(m, a, n)
  <1>1. PICK l : IsLonger(m, l) /\ \A k : Circular(m, k) <=> k \in l[Depth]
    BY CircularIsLonger
  <1>2. PICK f : IsMerged(m, f) /\ \A k : Merged(m, k) = f[Depth][k]
    BY MergedIsRow
  <1>3. PICK g : IsMerged(a, g) /\ \A k : Merged(a, k) = g[Depth][k]
    BY MergedIsRow
  <1>4. PICK k \in Key : k = OrgKey(n) /\ k.org /\ m[k] # None
    BY KeyTypes DEF Differ
  <1>5. PICK D \in Nat : D = Depth
    BY DepthIsNat
  <1>6. l[0] = Key
    BY <1>1, LongerBegins
  <1>7. PICK e \in Nat : e <= D /\ k \notin l[e] /\ \A y \in Nat : y <= D /\ k \notin l[y] => e <= y
    <2> DEFINE T == {x \in Nat : x <= D /\ k \notin l[x]}
    <2>1. D \in T
      BY <1>1, <1>4, <1>5
    <2>2. PICK x \in T : \A y \in T : x <= y
      BY <2>1, LeastNumber
    <2> QED
      BY <2>2
  <1>8. \A d \in Nat : d < e => k \in l[d]
    BY <1>7
  <1>9. e # 0 /\ e - 1 \in Nat /\ (e - 1) + 1 = e /\ e \in 1..D
    BY <1>6, <1>7
  <1> DEFINE T == {d \in Nat : d < e => SameRows(l, f, g, d)}
  <1>10. 0 \in T
    BY <1>6 DEF SameRows
  <1>11. ASSUME NEW d \in Nat, d \in T PROVE d + 1 \in T
    <2> SUFFICES ASSUME d + 1 < e PROVE SameRows(l, f, g, d + 1)
      OBVIOUS
    <2>1. d < e /\ d + 1 <= Depth /\ d + 1 \in Nat
      BY <1>5, <1>7
    <2>2. SameRows(l, f, g, d)
      BY <1>11, <2>1
    <2>3. OrgKey(n) \in l[d] /\ OrgKey(n) \in l[d + 1]
      BY <1>4, <1>8, <2>1
    <2> QED
      BY <1>1, <1>2, <1>3, <2>1, <2>2, <2>3, SameStep
  <1>12. Nat \subseteq T
    <2> HIDE DEF T
    <2> QED
      BY <1>10, <1>11, SetInduction
  <1>13. SameRows(l, f, g, e - 1)
    BY <1>9, <1>12
  <1> HIDE DEF T
  <1> DEFINE q == ParentOf(m, k)
  <1>14. q \in Key
    BY <1>4, ParentIsKey
  <1>15. q \notin l[e - 1]
    BY <1>1, <1>4, <1>5, <1>7, <1>9, LongerStep
  <1>16. q # k
    BY <1>8, <1>9, <1>15
  <1>17. q = ResolveTemplateParent(a, m[OrgKey(n)].tmpl)
    BY <1>4, <1>16, ParentIsSame
  <1>18. f[Depth - 1][q] = g[Depth][q]
    <2>1. Depth - 1 \in e - 1..Depth /\ Depth \in e - 1..Depth
      BY <1>5, <1>9
    <2> QED
      BY <1>13, <1>14, <1>15, <2>1 DEF SameRows
  <1>19. f[Depth][k] = IF f[Depth - 1][q] = None THEN None
                       ELSE Merge(f[Depth - 1][q], m[k].node)
    <2>1. Depth \in 1..Depth
      BY <1>5, <1>9
    <2>2. f[Depth][k] = IF m[k] = None THEN None
                       ELSE IF m[k].tmpl = None THEN m[k].node
                       ELSE IF f[Depth - 1][q] = None THEN None
                       ELSE Merge(f[Depth - 1][q], m[k].node)
      BY <1>2, <2>1, MergedStep
    <2> QED
      BY <1>4, <2>2, Zenon
  <1> HIDE DEF q
  <1> QED
    BY <1>2, <1>3, <1>4, <1>14, <1>17, <1>18, <1>19 DEF MergedOnto

\* A blueprint without a template is its own.
LEMMA MergedRoot ==
    ASSUME NEW m, NEW k \in Key, m[k] # None, m[k].tmpl = None
    PROVE  Merged(m, k) = m[k].node
  <1>1. PICK f : IsMerged(m, f) /\ \A q : Merged(m, q) = f[Depth][q]
    BY MergedIsRow
  <1>2. Depth \in 1..Depth
    BY DepthIsNat
  <1>3. f[Depth][k] = IF m[k] = None THEN None
                      ELSE IF m[k].tmpl = None THEN m[k].node
                      ELSE IF f[Depth - 1][ParentOf(m, k)] = None THEN None
                      ELSE Merge(f[Depth - 1][ParentOf(m, k)], m[k].node)
    BY <1>1, <1>2, MergedStep
  <1> QED
    BY <1>1, <1>3

-----------------------------------------------------------------------------
(* Lists of scripts.                                                       *)

Remains(parent, child, i) == child[i].name \in Named(child) \ Named(parent)

RemainingRow(parent, child, i, prev) ==
    IF i = 0 THEN <<>>
    ELSE IF child[i].name \in Named(child) \ Named(parent) THEN Append(prev, child[i])
    ELSE prev

IsRemaining(parent, child, f) ==
    /\ f[0] = <<>>
    /\ \A i \in 1..Len(child) :
         /\ Remains(parent, child, i) => f[i] = Append(f[i - 1], child[i])
         /\ ~Remains(parent, child, i) => f[i] = f[i - 1]

HasRemaining(parent, child, n) ==
    \E f : f = [d \in 0..n |-> RemainingRow(parent, child, d, f[d - 1])]

LEMMA RemainingExists ==
    ASSUME NEW parent, NEW child, NEW n \in Nat
    PROVE  HasRemaining(parent, child, n)
  <1> DEFINE T == {i \in Nat : \E f : f = [d \in 0..i |-> RemainingRow(parent, child, d, f[d - 1])]}
  <1>1. \A x, y : RemainingRow(parent, child, 0, x) = RemainingRow(parent, child, 0, y)
    BY DEF RemainingRow
  <1>2. 0 \in T
    <2> DEFINE f == [d \in 0..0 |-> RemainingRow(parent, child, 0, 0)]
    <2>1. \A d \in 0..0 : RemainingRow(parent, child, d, f[d - 1]) = RemainingRow(parent, child, 0, 0)
      BY <1>1
    <2>2. f = [d \in 0..0 |-> RemainingRow(parent, child, d, f[d - 1])]
      BY <2>1
    <2> QED
      BY <2>2
  <1>3. ASSUME NEW i \in Nat, i \in T PROVE i + 1 \in T
    <2>1. PICK f : f = [d \in 0..i |-> RemainingRow(parent, child, d, f[d - 1])]
      BY <1>3
    <2> DEFINE g == [d \in 0..i + 1 |-> IF d = i + 1 THEN RemainingRow(parent, child, i + 1, f[i]) ELSE f[d]]
    <2>2. ASSUME NEW d \in 0..i + 1 PROVE g[d] = RemainingRow(parent, child, d, g[d - 1])
      <3>1. CASE d = i + 1
        <4>1. d - 1 = i /\ i \in 0..i + 1 /\ i # i + 1
          BY <3>1
        <4>2. g[d - 1] = f[i]
          BY <4>1
        <4> QED
          BY <3>1, <4>2
      <3>2. CASE d = 0
        <4>1. 0 \in 0..i /\ 0 \in 0..i + 1 /\ 0 # i + 1
          OBVIOUS
        <4>2. f[0] = RemainingRow(parent, child, 0, f[0 - 1]) /\ g[0] = f[0]
          BY <2>1, <4>1
        <4> HIDE DEF g
        <4> QED
          BY <1>1, <3>2, <4>2
      <3>3. CASE d # i + 1 /\ d # 0
        <4>1. d \in 0..i /\ d - 1 \in 0..i + 1 /\ d - 1 # i + 1
          BY <3>3
        <4>2. f[d] = RemainingRow(parent, child, d, f[d - 1])
          BY <2>1, <4>1
        <4>3. g[d] = f[d] /\ g[d - 1] = f[d - 1]
          BY <3>3, <4>1
        <4> HIDE DEF g
        <4> QED
          BY <4>2, <4>3
      <3> QED
        BY <3>1, <3>2, <3>3
    <2>3. g = [d \in 0..i + 1 |-> g[d]]
      OBVIOUS
    <2> HIDE DEF g
    <2>4. g = [d \in 0..i + 1 |-> RemainingRow(parent, child, d, g[d - 1])]
      BY <2>2, <2>3
    <2> QED
      BY <2>4
  <1> HIDE DEF T
  <1>4. Nat \subseteq T
    BY <1>2, <1>3, SetInduction
  <1> QED
    BY <1>4 DEF T, HasRemaining

LEMMA RemainingIsRow ==
    ASSUME NEW A, NEW parent, NEW child \in Seq(A)
    PROVE  \E f : IsRemaining(parent, child, f) /\ Remaining(parent, child) = f[Len(child)]
  <1> DEFINE Def(f) == f = [i \in 0..Len(child) |->
                  IF i = 0 THEN <<>>
                  ELSE IF child[i].name \in Named(child) \ Named(parent) THEN Append(f[i - 1], child[i])
                  ELSE f[i - 1]]
             c == CHOOSE f : Def(f)
  <1>1. Remaining(parent, child) = c[Len(child)]
    BY DEF Remaining
  <1>2. \A f : Def(f) <=> f = [d \in 0..Len(child) |-> RemainingRow(parent, child, d, f[d - 1])]
    BY Zenon DEF RemainingRow
  <1> HIDE DEF Def
  <1>3. \E f : Def(f)
    <2>1. PICK N \in Nat : N = Len(child)
      OBVIOUS
    <2>2. HasRemaining(parent, child, N)
      BY RemainingExists
    <2>3. PICK f : f = [d \in 0..N |-> RemainingRow(parent, child, d, f[d - 1])]
      BY <2>2 DEF HasRemaining
    <2> QED
      BY <1>2, <2>1, <2>3
  <1>4. Def(c)
    BY <1>3
  <1> HIDE DEF c
  <1>5. c = [d \in 0..Len(child) |-> RemainingRow(parent, child, d, c[d - 1])]
    BY <1>2, <1>4
  <1>6. PICK N \in Nat : N = Len(child)
    OBVIOUS
  <1>7. \A i \in 0..N : c[i] = RemainingRow(parent, child, i, c[i - 1])
    BY <1>5, <1>6
  <1>8. c[0] = <<>>
    <2>1. c[0] = RemainingRow(parent, child, 0, c[0 - 1])
      BY <1>7
    <2> QED
      BY <2>1 DEF RemainingRow
  <1>9. ASSUME NEW i \in 1..N
        PROVE  /\ Remains(parent, child, i) => c[i] = Append(c[i - 1], child[i])
               /\ ~Remains(parent, child, i) => c[i] = c[i - 1]
    <2>1. c[i] = RemainingRow(parent, child, i, c[i - 1]) /\ i # 0
      BY <1>7
    <2> QED
      BY <2>1, Zenon DEF RemainingRow, Remains
  <1>10. IsRemaining(parent, child, c)
    BY <1>6, <1>8, <1>9 DEF IsRemaining
  <1> QED
    BY <1>1, <1>10

\* The entries of f are those of the child's first i that are fresh.
FreshOf(A, parent, child, i, s) ==
    /\ s \in Seq(A)
    /\ \A j \in 1..Len(s) : \E k \in 1..i : s[j] = child[k] /\ Remains(parent, child, k)
    /\ \A k \in 1..i : Remains(parent, child, k) => \E j \in 1..Len(s) : s[j] = child[k]
    /\ NamesOnce(child) => NamesOnce(s)

LEMMA FreshBegins ==
    ASSUME NEW A, NEW parent, NEW child \in Seq(A)
    PROVE  FreshOf(A, parent, child, 0, <<>>)
  BY DEF FreshOf, NamesOnce

LEMMA FreshStays ==
    ASSUME NEW A, NEW parent, NEW child \in Seq(A), NEW i \in 1..Len(child), NEW s,
           FreshOf(A, parent, child, i - 1, s), ~Remains(parent, child, i)
    PROVE  FreshOf(A, parent, child, i, s)
  <1>1. PICK N \in Nat : N = Len(child)
    OBVIOUS
  <1>2. \A k \in 1..i : k = i \/ k \in 1..i - 1
    OBVIOUS
  <1>3. \A k \in 1..i - 1 : k \in 1..i
    OBVIOUS
  <1> QED
    BY <1>2, <1>3 DEF FreshOf

LEMMA FreshGrows ==
    ASSUME NEW A, NEW parent, NEW child \in Seq(A), NEW i \in 1..Len(child), NEW s,
           FreshOf(A, parent, child, i - 1, s), Remains(parent, child, i)
    PROVE  FreshOf(A, parent, child, i, Append(s, child[i]))
  <1> DEFINE t == Append(s, child[i])
  <1>1. PICK n \in Nat : n = Len(s) /\ s \in Seq(A) /\ child[i] \in A
    BY DEF FreshOf
  <1>2. t \in Seq(A) /\ Len(t) = n + 1 /\ t[n + 1] = child[i] /\ \A j \in 1..n : t[j] = s[j]
    BY <1>1
  <1> HIDE DEF t
  <1>3. \A k \in 1..i - 1 : k \in 1..i
    OBVIOUS
  <1>8. \A j \in 1..n + 1 : j \in 1..n \/ j = n + 1
    OBVIOUS
  <1>4. ASSUME NEW j \in 1..Len(t)
        PROVE  \E k \in 1..i : t[j] = child[k] /\ Remains(parent, child, k)
    <2>1. CASE j = n + 1
      BY <1>2, <2>1
    <2>2. CASE j \in 1..n
      BY <1>1, <1>2, <1>3, <2>2 DEF FreshOf
    <2> QED
      BY <1>2, <2>1, <2>2
  <1>5. ASSUME NEW k \in 1..i, Remains(parent, child, k)
        PROVE  \E j \in 1..Len(t) : t[j] = child[k]
    <2>1. CASE k = i
      <3>1. n + 1 \in 1..Len(t)
        BY <1>2
      <3> QED
        BY <1>2, <2>1, <3>1
    <2>2. CASE k # i
      <3>1. PICK j \in 1..n : s[j] = child[k]
        BY <1>1, <1>5, <2>2 DEF FreshOf
      <3>2. j \in 1..Len(t)
        BY <1>2
      <3> QED
        BY <1>2, <3>1, <3>2
    <2> QED
      BY <2>1, <2>2
  <1>6. ASSUME NamesOnce(child) PROVE NamesOnce(t)
    <2>1. NamesOnce(s)
      BY <1>6 DEF FreshOf
    <2>2. child[i].name # Unnamed
      BY DEF Remains, Named
    <2>3. ASSUME NEW j \in 1..n, s[j].name = child[i].name PROVE FALSE
      <3>1. PICK k \in 1..i - 1 : s[j] = child[k]
        BY <1>1 DEF FreshOf
      <3>2. k \in DOMAIN child /\ i \in DOMAIN child /\ k # i
        OBVIOUS
      <3> QED
        BY <1>6, <2>2, <2>3, <3>1, <3>2 DEF NamesOnce
    <2>4. DOMAIN t = 1..n + 1 /\ DOMAIN s = 1..n
      BY <1>1, <1>2
    <2> SUFFICES ASSUME NEW a \in 1..n + 1, NEW b \in 1..n + 1, t[a].name = t[b].name, t[a].name # Unnamed
                 PROVE  a = b
      BY <2>4 DEF NamesOnce
    <2>5. CASE a \in 1..n /\ b \in 1..n
      <3>1. t[a] = s[a] /\ t[b] = s[b] /\ a \in DOMAIN s /\ b \in DOMAIN s
        BY <1>2, <2>4, <2>5
      <3> QED
        BY <2>1, <3>1 DEF NamesOnce
    <2>6. CASE a = n + 1 /\ b \in 1..n
      <3>1. t[a] = child[i] /\ t[b] = s[b]
        BY <1>2, <2>6
      <3> QED
        BY <2>3, <2>6, <3>1
    <2>7. CASE b = n + 1 /\ a \in 1..n
      <3>1. t[b] = child[i] /\ t[a] = s[a]
        BY <1>2, <2>7
      <3> QED
        BY <2>3, <2>7, <3>1
    <2>8. (a \in 1..n \/ a = n + 1) /\ (b \in 1..n \/ b = n + 1)
      BY <1>8
    <2> QED
      BY <2>5, <2>6, <2>7, <2>8, Zenon
  <1>7. FreshOf(A, parent, child, i, t)
    BY <1>2, <1>4, <1>5, <1>6 DEF FreshOf
  <1> QED
    BY <1>7 DEF t

\* The child's entries that the template has no name for, in their order.
LEMMA RemainingIsFresh ==
    ASSUME NEW A, NEW parent, NEW child \in Seq(A)
    PROVE  FreshOf(A, parent, child, Len(child), Remaining(parent, child))
  <1>1. PICK f : IsRemaining(parent, child, f) /\ Remaining(parent, child) = f[Len(child)]
    BY RemainingIsRow
  <1>2. PICK N \in Nat : N = Len(child)
    OBVIOUS
  <1> DEFINE T == {i \in Nat : i <= N => FreshOf(A, parent, child, i, f[i])}
  <1>3. 0 \in T
    BY <1>1, FreshBegins DEF IsRemaining
  <1>4. ASSUME NEW i \in Nat, i \in T PROVE i + 1 \in T
    <2> SUFFICES ASSUME i + 1 <= N PROVE FreshOf(A, parent, child, i + 1, f[i + 1])
      OBVIOUS
    <2>1. PICK k \in 1..Len(child) : k = i + 1 /\ k - 1 = i
      BY <1>2
    <2>2. FreshOf(A, parent, child, k - 1, f[k - 1])
      BY <1>4, <2>1
    <2>3. /\ Remains(parent, child, k) => f[k] = Append(f[k - 1], child[k])
          /\ ~Remains(parent, child, k) => f[k] = f[k - 1]
      BY <1>1, <1>2, <2>1 DEF IsRemaining
    <2>4. CASE Remains(parent, child, k)
      BY <2>1, <2>2, <2>3, <2>4, FreshGrows
    <2>5. CASE ~Remains(parent, child, k)
      BY <2>1, <2>2, <2>3, <2>5, FreshStays
    <2> QED
      BY <2>4, <2>5
  <1> HIDE DEF T
  <1>5. N \in T
    BY <1>3, <1>4, SetInduction
  <1> QED
    BY <1>1, <1>2, <1>5 DEF T

LEMMA ChildFound ==
    ASSUME NEW A, NEW child \in Seq(A), NEW x \in Named(child)
    PROVE  \E i \in 1..Len(child) : ChildByName(child, x) = child[i] /\ child[i].name = x
  <1> DEFINE Is(i) == child[i].name = x /\ \A j \in i + 1..Len(child) : child[j].name # x
  <1>1. PICK N \in Nat : N = Len(child) /\ DOMAIN child = 1..N
    OBVIOUS
  <1>2. \E i \in 1..N : Is(i)
    <2> DEFINE T == {z \in Nat : z < N /\ child[N - z].name = x}
    <2>1. PICK k \in 1..N : child[k].name = x
      BY <1>1 DEF Named
    <2>2. N - k \in T
      <3>1. N - (N - k) = k /\ N - k \in Nat /\ N - k < N
        OBVIOUS
      <3> QED
        BY <2>1, <3>1
    <2>3. PICK z \in T : \A y \in T : z <= y
      BY <2>2, LeastNumber
    <2>4. PICK i \in 1..N : i = N - z
      OBVIOUS
    <2>5. ASSUME NEW j \in i + 1..N, child[j].name = x PROVE FALSE
      <3>1. N - (N - j) = j /\ N - j \in Nat /\ N - j < N /\ ~(z <= N - j)
        BY <2>4
      <3> QED
        BY <2>3, <2>5, <3>1
    <2>6. child[i].name = x
      BY <2>4
    <2> QED
      BY <1>1, <2>5, <2>6
  <1>3. ChildByName(child, x) = child[CHOOSE i \in DOMAIN child : Is(i)]
    BY Zenon DEF ChildByName
  <1>4. \A i : Is(i) => child[i].name = x
    OBVIOUS
  <1> HIDE DEF Is
  <1>5. (CHOOSE i \in DOMAIN child : Is(i)) \in DOMAIN child /\ Is(CHOOSE i \in DOMAIN child : Is(i))
    BY <1>1, <1>2
  <1> QED
    BY <1>1, <1>3, <1>4, <1>5

\* x may stand in the place of the parent's entry p.
InPlaceOf(A, x, p) == x \in A /\ x.name = p.name /\ (p.name = Unnamed => x = p)

LEMMA ChildOfParent ==
    ASSUME NEW A, NEW parent \in Seq(A), NEW child \in Seq(A), NEW i \in 1..Len(parent)
    PROVE  InPlaceOf(A, Override(parent, child, i), parent[i])
  <1>1. CASE /\ parent[i].name \in Named(child)
             /\ \A j \in 1..i - 1 : parent[j].name # parent[i].name
    <2>1. PICK k \in 1..Len(child) : ChildByName(child, parent[i].name) = child[k]
                                     /\ child[k].name = parent[i].name
      BY <1>1, ChildFound
    <2>2. Override(parent, child, i) = child[k]
      BY <1>1, <2>1 DEF Override
    <2>3. parent[i].name # Unnamed
      BY <1>1 DEF Named
    <2>4. child[k] \in A
      OBVIOUS
    <2> QED
      BY <2>1, <2>2, <2>3, <2>4, Zenon DEF InPlaceOf
  <1>2. CASE ~(/\ parent[i].name \in Named(child)
               /\ \A j \in 1..i - 1 : parent[j].name # parent[i].name)
    <2>1. Override(parent, child, i) = parent[i] /\ parent[i] \in A
      BY <1>2 DEF Override
    <2> QED
      BY <2>1 DEF InPlaceOf
  <1> QED
    BY <1>1, <1>2

\* m is the parent's list, entry for entry, followed by entries of the child
\* that have names of their own.
Overlay(A, parent, child, m) ==
    /\ m \in Seq(A) /\ Len(m) >= Len(parent)
    /\ \A i \in 1..Len(parent) :
         m[i].name = parent[i].name /\ (parent[i].name = Unnamed => m[i] = parent[i])
    /\ \A i \in Len(parent) + 1..Len(m) :
         /\ m[i].name \notin Named(parent) \union {Unnamed}
         /\ \E k \in 1..Len(child) : m[i] = child[k]

LEMMA ByNameParts ==
    ASSUME NEW A, NEW parent \in Seq(A), NEW child \in Seq(A)
    PROVE  /\ Remaining(parent, child) \in Seq(A)
           /\ ByName(parent, child) \in Seq(A)
           /\ Len(ByName(parent, child)) = Len(parent) + Len(Remaining(parent, child))
           /\ \A i \in 1..Len(parent) : ByName(parent, child)[i] = Override(parent, child, i)
           /\ \A i \in 1..Len(Remaining(parent, child)) :
                ByName(parent, child)[Len(parent) + i] = Remaining(parent, child)[i]
  <1> DEFINE r == Remaining(parent, child)
             s == [i \in DOMAIN parent |-> Override(parent, child, i)]
  <1>1. FreshOf(A, parent, child, Len(child), r)
    BY RemainingIsFresh
  <1>2. ByName(parent, child) = s \o r
    BY DEF ByName
  <1> HIDE DEF r
  <1>3. r \in Seq(A)
    BY <1>1 DEF FreshOf
  <1>4. PICK n \in Nat : n = Len(parent) /\ DOMAIN parent = 1..n
    OBVIOUS
  <1>5. s \in [1..n -> A] /\ \A i \in 1..n : s[i] = Override(parent, child, i)
    <2>1. \A i \in 1..n : InPlaceOf(A, Override(parent, child, i), parent[i])
      BY <1>4, ChildOfParent
    <2> QED
      BY <1>4, <2>1 DEF InPlaceOf
  <1> HIDE DEF s
  <1>6. s \in Seq(A) /\ Len(s) = n
    BY <1>5
  <1>7. /\ s \o r \in Seq(A) /\ Len(s \o r) = n + Len(r)
        /\ \A i \in 1..n : (s \o r)[i] = s[i]
        /\ \A i \in 1..Len(r) : (s \o r)[n + i] = r[i]
    <2>1. /\ s \o r \in Seq(A) /\ Len(s \o r) = Len(s) + Len(r)
          /\ \A i \in 1..Len(s) + Len(r) :
               (s \o r)[i] = IF i <= Len(s) THEN s[i] ELSE r[i - Len(s)]
      BY <1>3, <1>6, ConcatProperties
    <2>2. PICK l \in Nat : l = Len(r)
      BY <1>3
    <2>3. ASSUME NEW i \in 1..n PROVE (s \o r)[i] = s[i]
      BY <1>6, <2>1, <2>2
    <2>4. ASSUME NEW i \in 1..l PROVE (s \o r)[n + i] = r[i]
      <3>1. n + i \in 1..n + l /\ ~(n + i <= n) /\ (n + i) - n = i
        OBVIOUS
      <3> QED
        BY <1>6, <2>1, <2>2, <3>1
    <2> QED
      BY <1>6, <2>1, <2>2, <2>3, <2>4
  <1> QED
    BY <1>2, <1>3, <1>4, <1>5, <1>7 DEF r

LEMMA ByNameOverlays ==
    ASSUME NEW A, NEW parent \in Seq(A), NEW child \in Seq(A)
    PROVE  Overlay(A, parent, child, ByName(parent, child))
  <1> DEFINE r == Remaining(parent, child)
             m == ByName(parent, child)
  <1>1. FreshOf(A, parent, child, Len(child), r)
    BY RemainingIsFresh
  <1>2. /\ r \in Seq(A) /\ m \in Seq(A) /\ Len(m) = Len(parent) + Len(r)
        /\ \A i \in 1..Len(parent) : m[i] = Override(parent, child, i)
        /\ \A i \in 1..Len(r) : m[Len(parent) + i] = r[i]
    BY ByNameParts
  <1> HIDE DEF r, m
  <1>3. PICK n \in Nat : n = Len(parent)
    OBVIOUS
  <1>4. PICK l \in Nat : l = Len(r)
    BY <1>2
  <1>5. ASSUME NEW i \in n + 1..n + l
        PROVE  /\ m[i].name \notin Named(parent) \union {Unnamed}
               /\ \E k \in 1..Len(child) : m[i] = child[k]
    <2>1. PICK j \in 1..l : i = n + j
      OBVIOUS
    <2>2. PICK k \in 1..Len(child) : r[j] = child[k] /\ Remains(parent, child, k)
      BY <1>1, <1>4 DEF FreshOf
    <2>3. m[i] = child[k]
      BY <1>2, <1>3, <1>4, <2>1, <2>2
    <2> QED
      BY <2>2, <2>3 DEF Remains, Named
  <1>6. ASSUME NEW i \in 1..n
        PROVE  m[i].name = parent[i].name /\ (parent[i].name = Unnamed => m[i] = parent[i])
    <2>1. InPlaceOf(A, Override(parent, child, i), parent[i]) /\ m[i] = Override(parent, child, i)
      BY <1>2, <1>3, ChildOfParent
    <2> QED
      BY <2>1, Zenon DEF InPlaceOf
  <1>7. Overlay(A, parent, child, m)
    <2>1. Len(m) = n + l /\ n + l >= n
      BY <1>2, <1>3, <1>4
    <2> QED
      BY <1>2, <1>3, <1>5, <1>6, <2>1, Zenon DEF Overlay
  <1> QED
    BY <1>7 DEF m

LEMMA ByNameOnce ==
    ASSUME NEW A, NEW parent \in Seq(A), NEW child \in Seq(A), NamesOnce(parent), NamesOnce(child)
    PROVE  NamesOnce(ByName(parent, child))
  <1> DEFINE r == Remaining(parent, child)
             m == ByName(parent, child)
  <1>1. FreshOf(A, parent, child, Len(child), r)
    BY RemainingIsFresh
  <1>2. /\ r \in Seq(A) /\ m \in Seq(A) /\ Len(m) = Len(parent) + Len(r)
        /\ \A i \in 1..Len(r) : m[Len(parent) + i] = r[i]
    BY ByNameParts
  <1>3. Overlay(A, parent, child, m)
    BY ByNameOverlays
  <1> HIDE DEF r, m
  <1>4. PICK n \in Nat : n = Len(parent) /\ DOMAIN parent = 1..n
    OBVIOUS
  <1>5. PICK l \in Nat : l = Len(r) /\ DOMAIN r = 1..l
    BY <1>2
  <1>6. DOMAIN m = 1..n + l
    BY <1>2, <1>4, <1>5
  <1>7. NamesOnce(r)
    BY <1>1 DEF FreshOf
  <1>8. \A i \in 1..n : m[i].name = parent[i].name
    BY <1>3, <1>4 DEF Overlay
  <1>9. \A i \in n + 1..n + l : m[i].name \notin Named(parent)
    BY <1>2, <1>3, <1>4, <1>5 DEF Overlay
  <1>10. \A i \in 1..n : parent[i].name # Unnamed => parent[i].name \in Named(parent)
    BY <1>4 DEF Named
  <1>11. \A i \in 1..n + l : i \in 1..n \/ i \in n + 1..n + l
    OBVIOUS
  <1>12. ASSUME NEW a \in n + 1..n + l, NEW b \in n + 1..n + l, m[a].name = m[b].name, m[a].name # Unnamed
         PROVE  a = b
    <2>1. PICK x \in 1..l : a = n + x
      OBVIOUS
    <2>2. PICK y \in 1..l : b = n + y
      OBVIOUS
    <2>3. m[a] = r[x] /\ m[b] = r[y] /\ x \in DOMAIN r /\ y \in DOMAIN r
      BY <1>2, <1>4, <1>5, <2>1, <2>2
    <2>4. x = y
      BY <1>7, <1>12, <2>3 DEF NamesOnce
    <2> QED
      BY <2>1, <2>2, <2>4
  <1>13. ASSUME NEW a \in 1..n, NEW b \in 1..n, m[a].name = m[b].name, m[a].name # Unnamed
         PROVE  a = b
    <2>1. parent[a].name = parent[b].name /\ parent[a].name # Unnamed /\ a \in DOMAIN parent /\ b \in DOMAIN parent
      BY <1>4, <1>8, <1>13
    <2> QED
      BY <2>1 DEF NamesOnce
  <1>14. ASSUME NEW a \in 1..n, NEW b \in n + 1..n + l, m[a].name = m[b].name, m[a].name # Unnamed
         PROVE  FALSE
    BY <1>8, <1>9, <1>10, <1>14
  <1>15. NamesOnce(m)
    <2> SUFFICES ASSUME NEW a \in 1..n + l, NEW b \in 1..n + l, m[a].name = m[b].name, m[a].name # Unnamed
                 PROVE  a = b
      BY <1>6 DEF NamesOnce
    <2>1. (a \in 1..n \/ a \in n + 1..n + l) /\ (b \in 1..n \/ b \in n + 1..n + l)
      BY <1>11
    <2>2. m[b].name = m[a].name /\ m[b].name # Unnamed
      OBVIOUS
    <2> QED
      BY <1>12, <1>13, <1>14, <2>1, <2>2, Zenon
  <1> QED
    BY <1>15 DEF m

\* The first i entries of m without those of the parent.
Behind(A, m, n, i, s) ==
    /\ s \in Seq(A)
    /\ i <= n => s = <<>>
    /\ i > n => Len(s) = i - n /\ \A j \in 1..i - n : s[j] = m[n + j]

LEMMA RemainingBehind ==
    ASSUME NEW A, NEW parent \in Seq(A), NEW child, NEW m, Overlay(A, parent, child, m)
    PROVE  Behind(A, m, Len(parent), Len(m), Remaining(parent, m))
  <1>1. PICK n \in Nat : n = Len(parent) /\ DOMAIN parent = 1..n
    OBVIOUS
  <1>2. m \in Seq(A)
    BY DEF Overlay
  <1>3. PICK N \in Nat : N = Len(m) /\ DOMAIN m = 1..N
    BY <1>2
  <1>4. PICK f : IsRemaining(parent, m, f) /\ Remaining(parent, m) = f[Len(m)]
    BY <1>2, RemainingIsRow
  <1>5. ASSUME NEW i \in 1..N PROVE Remains(parent, m, i) <=> i > n
    <2>1. CASE i > n
      <3>1. i \in Len(parent) + 1..Len(m)
        BY <1>1, <1>3, <2>1
      <3>2. m[i].name \notin Named(parent) \union {Unnamed}
        BY <3>1 DEF Overlay
      <3> QED
        BY <1>3, <2>1, <3>2 DEF Remains, Named
    <2>2. CASE ~(i > n)
      <3>1. i \in 1..Len(parent) /\ i \in DOMAIN parent
        BY <1>1, <2>2
      <3>2. m[i].name = parent[i].name
        BY <3>1 DEF Overlay
      <3> QED
        BY <2>2, <3>1, <3>2 DEF Remains, Named
    <2> QED
      BY <2>1, <2>2
  <1> DEFINE T == {i \in Nat : i <= N => Behind(A, m, n, i, f[i])}
  <1>6. 0 \in T
    <2>1. f[0] = <<>> /\ <<>> \in Seq(A)
      BY <1>4 DEF IsRemaining
    <2>2. ~(0 > n)
      OBVIOUS
    <2>3. Behind(A, m, n, 0, f[0])
      BY <2>1, <2>2, Zenon DEF Behind
    <2> QED
      BY <2>3
  <1>7. ASSUME NEW i \in Nat, i \in T PROVE i + 1 \in T
    <2> SUFFICES ASSUME i + 1 <= N PROVE Behind(A, m, n, i + 1, f[i + 1])
      OBVIOUS
    <2>1. PICK k \in 1..N : k = i + 1 /\ k - 1 = i
      OBVIOUS
    <2>2. Behind(A, m, n, i, f[i])
      <3>1. i <= N
        OBVIOUS
      <3> QED
        BY <1>7, <3>1
    <2>3. /\ Remains(parent, m, k) => f[k] = Append(f[i], m[k])
          /\ ~Remains(parent, m, k) => f[k] = f[i]
      BY <1>3, <1>4, <2>1 DEF IsRemaining
    <2>4. CASE k <= n
      <3>1. f[k] = f[i] /\ i <= n /\ ~(k > n)
        BY <1>5, <2>1, <2>3, <2>4
      <3> QED
        BY <2>1, <2>2, <2>4, <3>1 DEF Behind
    <2>5. CASE k > n
      <3>1. f[k] = Append(f[i], m[k]) /\ f[i] \in Seq(A) /\ m[k] \in A
        BY <1>2, <1>3, <1>5, <2>2, <2>3, <2>5 DEF Behind
      <3>2. Len(f[i]) = i - n /\ \A j \in 1..i - n : f[i][j] = m[n + j]
        <4>1. CASE i <= n
          <5>1. f[i] = <<>> /\ i - n = 0
            BY <2>1, <2>2, <2>5, <4>1 DEF Behind
          <5> QED
            BY <5>1
        <4>2. CASE i > n
          BY <2>2, <4>2 DEF Behind
        <4> QED
          BY <4>1, <4>2
      <3>3. PICK l \in Nat : l = i - n /\ l + 1 = k - n /\ n + (l + 1) = k
        BY <2>1, <2>5
      <3>4. /\ f[k] \in Seq(A) /\ Len(f[k]) = l + 1 /\ f[k][l + 1] = m[k]
            /\ \A j \in 1..l : f[k][j] = f[i][j]
        BY <3>1, <3>2, <3>3
      <3>5. ASSUME NEW j \in 1..l + 1 PROVE f[k][j] = m[n + j]
        <4>1. CASE j = l + 1
          BY <3>3, <3>4, <4>1
        <4>2. CASE j \in 1..l
          BY <3>2, <3>3, <3>4, <4>2
        <4> QED
          BY <4>1, <4>2
      <3> QED
        BY <2>1, <2>5, <3>3, <3>4, <3>5 DEF Behind
    <2> QED
      BY <2>4, <2>5
  <1> HIDE DEF T
  <1>8. N \in T
    BY <1>6, <1>7, SetInduction
  <1> QED
    BY <1>1, <1>3, <1>4, <1>8 DEF T

\* mergeSequenceNodes: a list that was merged with the template's stays as it
\* is when it is merged with it again.
LEMMA ByNameFixed ==
    ASSUME NEW A, NEW parent \in Seq(A), NEW child, NEW m, Overlay(A, parent, child, m),
           NamesOnce(parent)
    PROVE  ByName(parent, m) = m
  <1>1. PICK n \in Nat : n = Len(parent) /\ DOMAIN parent = 1..n
    OBVIOUS
  <1>2. m \in Seq(A) /\ Len(m) >= Len(parent)
    BY DEF Overlay
  <1>3. PICK N \in Nat : N = Len(m) /\ DOMAIN m = 1..N /\ n <= N
    BY <1>1, <1>2
  <1> DEFINE r == Remaining(parent, m)
             b == ByName(parent, m)
  <1>4. Behind(A, m, n, N, r)
    BY <1>1, <1>3, RemainingBehind
  <1>5. /\ r \in Seq(A) /\ b \in Seq(A) /\ Len(b) = n + Len(r)
        /\ \A i \in 1..n : b[i] = Override(parent, m, i)
        /\ \A i \in 1..Len(r) : b[n + i] = r[i]
    BY <1>1, <1>2, ByNameParts
  <1> HIDE DEF r, b
  <1>6. Len(r) = N - n /\ \A j \in 1..N - n : r[j] = m[n + j]
    <2>1. CASE N <= n
      <3>1. r = <<>> /\ N - n = 0
        BY <1>3, <1>4, <2>1 DEF Behind
      <3> QED
        BY <3>1
    <2>2. CASE N > n
      BY <1>4, <2>2 DEF Behind
    <2> QED
      BY <2>1, <2>2
  <1>7. ASSUME NEW i \in 1..n PROVE Override(parent, m, i) = m[i]
    <2>1. i \in 1..N /\ i \in DOMAIN m /\ i \in DOMAIN parent
      BY <1>1, <1>3
    <2>2. m[i].name = parent[i].name /\ (parent[i].name = Unnamed => m[i] = parent[i])
      BY <1>1 DEF Overlay
    <2>3. CASE parent[i].name = Unnamed
      <3>1. parent[i].name \notin Named(m)
        BY <2>3 DEF Named
      <3> QED
        BY <2>2, <2>3, <3>1 DEF Override
    <2>4. CASE parent[i].name # Unnamed
      <3>1. parent[i].name \in Named(m)
        BY <2>1, <2>2, <2>4 DEF Named
      <3>2. \A j \in 1..i - 1 : parent[j].name # parent[i].name
        <4>1. \A j \in 1..i - 1 : j \in DOMAIN parent /\ j # i
          BY <1>1
        <4> QED
          BY <2>1, <2>4, <4>1 DEF NamesOnce
      <3>3. PICK k \in 1..Len(m) : ChildByName(m, parent[i].name) = m[k] /\ m[k].name = parent[i].name
        BY <1>2, <3>1, ChildFound
      <3>4. k <= n
        <4> SUFFICES ASSUME k > n PROVE FALSE
          BY <1>3
        <4>1. k \in Len(parent) + 1..Len(m)
          BY <1>1, <1>3
        <4>2. m[k].name \notin Named(parent)
          BY <4>1 DEF Overlay
        <4> QED
          BY <2>1, <2>4, <3>3, <4>2 DEF Named
      <3>5. k \in 1..n /\ k \in DOMAIN parent
        BY <1>1, <1>3, <3>4
      <3>6. m[k].name = parent[k].name
        BY <1>1, <3>5 DEF Overlay
      <3>7. k = i
        BY <2>1, <2>4, <3>3, <3>5, <3>6 DEF NamesOnce
      <3> QED
        BY <3>1, <3>2, <3>3, <3>7 DEF Override
    <2> QED
      BY <2>3, <2>4
  <1>8. ASSUME NEW i \in 1..N PROVE b[i] = m[i]
    <2>1. CASE i <= n
      BY <1>5, <1>7, <2>1
    <2>2. CASE i > n
      <3>1. PICK j \in 1..N - n : i = n + j
        BY <2>2
      <3> QED
        BY <1>5, <1>6, <3>1
    <2> QED
      BY <2>1, <2>2
  <1>9. Len(b) = N
    BY <1>3, <1>5, <1>6
  <1>10. b = m
    BY <1>2, <1>3, <1>5, <1>8, <1>9, SeqEqual
  <1> QED
    BY <1>10 DEF b

\* The first entry of a with the name of an entry of s is that entry.
Carries(a, s) ==
    Distinct(s) => \A i \in DOMAIN s : s[i].name # Unnamed =>
        \E j \in DOMAIN a : a[j] = s[i] /\ \A l \in 1..j - 1 : a[l].name # s[i].name

LEMMA CarriesItself ==
    ASSUME NEW A, NEW s \in Seq(A)
    PROVE  Carries(s, s)
  <1> SUFFICES ASSUME Distinct(s), NEW i \in DOMAIN s
               PROVE  \A l \in 1..i - 1 : s[l].name # s[i].name
    BY DEF Carries
  <1>1. \A l \in 1..i - 1 : l \in DOMAIN s /\ l # i
    OBVIOUS
  <1> QED
    BY <1>1 DEF Distinct

\* Merging with a template keeps every entry of the child findable by name.
LEMMA ByNameCarries ==
    ASSUME NEW A, NEW parent \in Seq(A), NEW child \in Seq(A)
    PROVE  Carries(ByName(parent, child), child)
  <1> DEFINE m == ByName(parent, child)
             r == Remaining(parent, child)
  <1> SUFFICES ASSUME Distinct(child), NEW i \in DOMAIN child, child[i].name # Unnamed
               PROVE  \E j \in DOMAIN m : m[j] = child[i] /\ \A l \in 1..j - 1 : m[l].name # child[i].name
    BY DEF Carries
  <1>1. FreshOf(A, parent, child, Len(child), r)
    BY RemainingIsFresh
  <1>2. /\ r \in Seq(A) /\ m \in Seq(A) /\ Len(m) = Len(parent) + Len(r)
        /\ \A k \in 1..Len(parent) : m[k] = Override(parent, child, k)
        /\ \A k \in 1..Len(r) : m[Len(parent) + k] = r[k]
    BY ByNameParts
  <1>3. Overlay(A, parent, child, m)
    BY ByNameOverlays
  <1> HIDE DEF m, r
  <1>4. PICK n \in Nat : n = Len(parent) /\ DOMAIN parent = 1..n
    OBVIOUS
  <1>5. PICK L \in Nat : L = Len(r)
    BY <1>2
  <1>6. DOMAIN m = 1..n + L /\ Len(m) = n + L
    BY <1>2, <1>4, <1>5
  <1>7. PICK x : x = child[i].name /\ x # Unnamed /\ x \in Named(child)
    BY DEF Named
  <1>8. \A k \in DOMAIN child : child[k].name = x => child[k] = child[i]
    BY <1>7 DEF Distinct
  <1>9. \E j \in 1..n + L : m[j].name = x
    <2>1. CASE x \in Named(parent)
      <3>1. PICK k \in 1..n : parent[k].name = x
        BY <1>4, <2>1 DEF Named
      <3>2. m[k].name = x /\ k \in 1..n + L
        BY <1>3, <1>4, <3>1 DEF Overlay
      <3> QED
        BY <3>2
    <2>2. CASE x \notin Named(parent)
      <3>1. i \in 1..Len(child) /\ Remains(parent, child, i)
        BY <1>7, <2>2 DEF Remains
      <3>2. PICK k \in 1..L : r[k] = child[i]
        BY <1>1, <1>5, <3>1 DEF FreshOf
      <3>3. m[n + k] = child[i] /\ n + k \in 1..n + L
        BY <1>2, <1>4, <1>5, <3>2
      <3> QED
        BY <1>7, <3>3
    <2> QED
      BY <2>1, <2>2
  <1>10. PICK j \in 1..n + L : m[j].name = x /\ \A l \in 1..n + L : m[l].name = x => j <= l
    <2> DEFINE T == {l \in Nat : l \in 1..n + L /\ m[l].name = x}
    <2>1. T # {}
      BY <1>9
    <2>2. PICK j \in T : \A l \in T : j <= l
      BY <2>1, LeastNumber
    <2> QED
      BY <2>2
  <1>11. \A l \in 1..j - 1 : m[l].name # x
    <2> SUFFICES ASSUME NEW l \in 1..j - 1, m[l].name = x PROVE FALSE
      OBVIOUS
    <2>1. l \in 1..n + L /\ ~(j <= l)
      OBVIOUS
    <2> QED
      BY <1>10, <2>1
  <1>12. m[j] = child[i]
    <2>1. CASE j <= n
      <3>1. j \in 1..n /\ m[j].name = parent[j].name /\ m[j] = Override(parent, child, j)
        BY <1>2, <1>3, <1>4, <2>1 DEF Overlay
      <3>2. ASSUME NEW l \in 1..j - 1 PROVE parent[l].name # parent[j].name
        <4>1. l \in 1..n
          BY <2>1
        <4>2. m[l].name = parent[l].name
          BY <1>3, <1>4, <4>1 DEF Overlay
        <4> QED
          BY <1>10, <1>11, <3>1, <4>2
      <3>3. PICK k \in 1..Len(child) : ChildByName(child, x) = child[k] /\ child[k].name = x
        BY <1>7, ChildFound
      <3>4. parent[j].name = x
        BY <1>10, <3>1
      <3>5. m[j] = ChildByName(child, x)
        BY <1>7, <3>1, <3>2, <3>4 DEF Override
      <3> QED
        BY <1>8, <3>3, <3>5
    <2>2. CASE j > n
      <3>1. j \in Len(parent) + 1..Len(m)
        BY <1>4, <1>6, <2>2
      <3>2. PICK k \in 1..Len(child) : m[j] = child[k]
        BY <1>3, <3>1 DEF Overlay
      <3> QED
        BY <1>8, <1>10, <3>2
    <2> QED
      BY <2>1, <2>2
  <1> QED
    BY <1>6, <1>7, <1>11, <1>12

\* Two lists carried by one agree in every name.
LEMMA CarriedAgree ==
    ASSUME NEW A, NEW a \in Seq(A), NEW s, NEW t, Carries(a, s), Carries(a, t)
    PROVE  SameScripts(s, t)
  <1> SUFFICES ASSUME Distinct(s), Distinct(t), NEW i \in DOMAIN s, NEW j \in DOMAIN t,
                      s[i].name = t[j].name, s[i].name # Unnamed
               PROVE  s[i] = t[j]
    BY DEF SameScripts
  <1>1. PICK k \in DOMAIN a : a[k] = s[i] /\ \A l \in 1..k - 1 : a[l].name # s[i].name
    BY DEF Carries
  <1>2. PICK o \in DOMAIN a : a[o] = t[j] /\ \A l \in 1..o - 1 : a[l].name # t[j].name
    BY DEF Carries
  <1>3. PICK n \in Nat : DOMAIN a = 1..n
    OBVIOUS
  <1>4. ~(k < o) /\ ~(o < k)
    <2>1. k < o => k \in 1..o - 1
      BY <1>3
    <2>2. o < k => o \in 1..k - 1
      BY <1>3
    <2> QED
      BY <1>1, <1>2, <2>1, <2>2
  <1>5. k = o
    BY <1>3, <1>4
  <1> QED
    BY <1>1, <1>2, <1>5

-----------------------------------------------------------------------------
(* Clean documents: what is said of every document of a file, as it is    *)
(* written, and of every row, as it is restored.                           *)

\* A leaf has the shape of its kind.  Tidy documents give a script one body,
\* and hold no string that looks like an expression once it is restored.
Items(s)   == s \in Seq(Range(s)) /\ \A i \in DOMAIN s : IsItem(s[i])
NoShown(s) == \A i \in DOMAIN s : s[i].kind # "shown"
NoCel(s)   == \A i \in DOMAIN s : s[i].kind # "cel"
CleanLeaf(q, l) ==
    /\ l.kind = "cel" => l = Cel(l.items[1])
    /\ l.kind = "seq" => l = List(l.items) /\ Items(l.items)
    /\ Tidy => /\ l.kind # "shown" /\ (l.kind = "seq" => NoShown(l.items))
               /\ IsScripts(q, l) => NamesOnce(l.items)
Clean(d) == \A q \in DOMAIN d : q \in Seq(STRING) /\ CleanLeaf(q, d[q])

FileOK(d) == d = None \/ (Clean(d) /\ TemplateIn(d))
RowOK(d)  == d = None \/ (Clean(Restore(d)) /\ TemplateIn(Restore(d)))

LEMMA Kinds ==
    /\ \A x : Str(x).kind = "str" /\ Cel(x).kind = "cel" /\ Shown(x).kind = "shown" /\ List(x).kind = "seq"
    /\ \A x : Cel(x).items[1] = x /\ Shown(x).items[1] = x /\ List(x).items = x
  BY DEF Str, Cel, Shown, List

LEMMA SeqOverRange ==
    ASSUME NEW A, NEW s \in Seq(A)
    PROVE  s \in Seq(Range(s))
  <1>1. PICK n \in Nat : n = Len(s) /\ DOMAIN s = 1..n
    OBVIOUS
  <1>2. \A i \in 1..n : s[i] \in Range(s)
    BY <1>1 DEF Range
  <1>3. s = [i \in 1..n |-> s[i]]
    BY <1>1
  <1>4. s \in [1..n -> Range(s)]
    BY <1>2, <1>3
  <1> QED
    BY <1>4

LEMMA SeqInUnion ==
    ASSUME NEW A, NEW B, NEW s \in Seq(A)
    PROVE  s \in Seq(A \union B) /\ s \in Seq(B \union A)
  <1>1. PICK n \in Nat : n = Len(s) /\ DOMAIN s = 1..n
    OBVIOUS
  <1>2. \A i \in 1..n : s[i] \in A
    BY <1>1
  <1>3. s = [i \in 1..n |-> s[i]]
    BY <1>1
  <1>4. s \in [1..n -> A \union B] /\ s \in [1..n -> B \union A]
    BY <1>2, <1>3
  <1> QED
    BY <1>4

\* Lists whose items are given another kind.
LEMMA RetagItems ==
    ASSUME NEW s, Items(s), NEW from, NEW to \in {"str", "cel", "shown"}
    PROVE  /\ Items(Retag(s, from, to))
           /\ NamesOnce(s) => NamesOnce(Retag(s, from, to))
           /\ (\A i \in DOMAIN s : s[i].kind # from) => Retag(s, from, to) = s
  <1> DEFINE r == Retag(s, from, to)
  <1>1. PICK n \in Nat : DOMAIN s = 1..n /\ s = [i \in 1..n |-> s[i]]
    <2>1. s \in Seq(Range(s))
      BY DEF Items
    <2> HIDE DEF Items
    <2> QED
      BY <2>1
  <1>2. DOMAIN r = 1..n /\ r = [i \in 1..n |-> r[i]]
    BY <1>1 DEF Retag
  <1>3. /\ \A i \in 1..n : s[i].kind = from => r[i] = Item(s[i].name, to, s[i].body)
        /\ \A i \in 1..n : s[i].kind # from => r[i] = s[i]
        /\ \A i \in 1..n : r[i].name = s[i].name
    BY <1>1, RetagParts
  <1>4. \A i \in 1..n : IsItem(s[i])
    BY <1>1 DEF Items
  <1>5. (\A i \in DOMAIN s : s[i].kind # from) => r = s
    BY <1>1, RetagNothing
  <1> HIDE DEF r
  <1>6. r \in Seq(Range(r))
    <2>1. \A i \in 1..n : r[i] \in Range(r)
      BY <1>2 DEF Range
    <2>2. r \in [1..n -> Range(r)]
      BY <1>2, <2>1
    <2> QED
      BY <2>2
  <1>7. \A x, y : IsItem(Item(x, to, y))
    BY DEF IsItem, Item
  <1>8. \A i \in 1..n : IsItem(r[i])
    BY <1>3, <1>4, <1>7
  <1>9. NamesOnce(s) => NamesOnce(r)
    BY <1>1, <1>2, <1>3 DEF NamesOnce
  <1>10. Items(r)
    BY <1>2, <1>6, <1>8 DEF Items
  <1> QED
    BY <1>5, <1>9, <1>10 DEF r

\* Expressions shown to a client and restored.
LEMMA RetagBack ==
    ASSUME NEW s, Items(s), NoShown(s)
    PROVE  Retag(Retag(s, "cel", "shown"), "shown", "cel") = s
  <1> DEFINE r == Retag(s, "cel", "shown")
             u == Retag(r, "shown", "cel")
  <1>1. PICK n \in Nat : DOMAIN s = 1..n /\ s = [i \in 1..n |-> s[i]]
    <2>1. s \in Seq(Range(s))
      BY DEF Items
    <2> QED
      BY <2>1
  <1>2. DOMAIN r = 1..n
    BY <1>1, RetagParts
  <1>3. \A x, y, z : Item(x, y, z).name = x /\ Item(x, y, z).kind = y /\ Item(x, y, z).body = z
    BY DEF Item
  <1>4. ASSUME NEW i \in 1..n PROVE u[i] = s[i]
    <2>1. IsItem(s[i]) /\ s[i].kind # "shown"
      BY <1>1, <1>4 DEF Items, NoShown
    <2>2. CASE s[i].kind = "cel"
      <3>1. r[i] = Item(s[i].name, "shown", s[i].body)
        BY <1>1, <1>4, <2>2, RetagParts
      <3> HIDE DEF r
      <3>2. u[i] = Item(r[i].name, "cel", r[i].body)
        BY <1>2, <1>3, <1>4, <3>1, RetagParts
      <3>3. u[i] = Item(s[i].name, "cel", s[i].body)
        BY <1>3, <3>1, <3>2
      <3>4. s[i] = Item(s[i].name, s[i].kind, s[i].body)
        BY <2>1 DEF IsItem
      <3> HIDE DEF u
      <3> QED
        BY <2>2, <3>3, <3>4
    <2>3. CASE s[i].kind # "cel"
      <3>1. r[i] = s[i]
        BY <1>1, <1>4, <2>3, RetagParts
      <3> HIDE DEF r
      <3>2. u[i] = r[i]
        BY <1>2, <1>4, <2>1, <3>1, RetagParts
      <3> QED
        BY <3>1, <3>2
    <2> QED
      BY <2>2, <2>3
  <1>5. u = [i \in 1..n |-> u[i]]
    BY <1>2 DEF Retag
  <1> HIDE DEF u
  <1>6. u = s
    BY <1>1, <1>4, <1>5
  <1> QED
    BY <1>6 DEF u, r

\* What merging by name starts from, and what it gives.
LEMMA DecodedItems ==
    ASSUME NEW s, Items(s)
    PROVE  /\ Items(Decoded(s)) /\ NoCel(Decoded(s))
           /\ NamesOnce(s) => NamesOnce(Decoded(s))
           /\ NoShown(s) => NoShown(Decoded(s))
           /\ NoCel(s) => Decoded(s) = s
  <1>1. /\ Items(Decoded(s)) /\ (NamesOnce(s) => NamesOnce(Decoded(s)))
        /\ NoCel(s) => Decoded(s) = s
    BY RetagItems DEF Decoded, NoCel
  <1>2. NoCel(Decoded(s))
    BY RetagParts DEF Decoded, NoCel
  <1>3. \A x, y, z : Item(x, y, z).kind = y
    BY DEF Item
  <1>4. NoShown(s) => NoShown(Decoded(s))
    BY <1>3, RetagParts DEF Decoded, NoShown
  <1> QED
    BY <1>1, <1>2, <1>4

LEMMA OverItems ==
    ASSUME NEW s, NEW t, NEW u, Items(s), Items(t), u \in Seq(Range(s) \union Range(t))
    PROVE  /\ Items(u)
           /\ NoCel(s) /\ NoCel(t) => NoCel(u)
           /\ NoShown(s) /\ NoShown(t) => NoShown(u)
  <1>1. u \in Seq(Range(u))
    BY SeqOverRange
  <1>2. \A i \in DOMAIN u : \/ \E j \in DOMAIN s : u[i] = s[j]
                            \/ \E j \in DOMAIN t : u[i] = t[j]
    <2>1. \A i \in DOMAIN u : u[i] \in Range(s) \union Range(t)
      OBVIOUS
    <2> QED
      BY <2>1 DEF Range
  <1>3. Items(u)
    BY <1>1, <1>2 DEF Items
  <1>4. NoCel(s) /\ NoCel(t) => NoCel(u)
    BY <1>2 DEF NoCel
  <1>5. NoShown(s) /\ NoShown(t) => NoShown(u)
    BY <1>2 DEF NoShown
  <1> QED
    BY <1>3, <1>4, <1>5

LEMMA LeafOfDoc ==
    ASSUME NEW l, IsLeaf(l)
    PROVE  /\ l.kind = "cel" => l = Cel(l.items[1])
           /\ l.kind = "seq" => l = List(l.items) /\ Items(l.items)
  <1>1. CASE /\ l = List(l.items) /\ l.items \in Seq(Range(l.items))
             /\ \A i \in Range(l.items) : IsItem(i)
    <2>1. l.kind = "seq"
      BY <1>1, Kinds
    <2>2. \A i \in DOMAIN l.items : l.items[i] \in Range(l.items)
      BY DEF Range
    <2>3. Items(l.items)
      BY <1>1, <2>2 DEF Items
    <2> QED
      BY <1>1, <2>1, <2>3
  <1>2. CASE l = Str(l.items[1])
    <2>1. l.kind = "str"
      BY <1>2, Kinds
    <2> QED
      BY <2>1
  <1>3. CASE l = Cel(l.items[1])
    <2>1. l.kind = "cel"
      BY <1>3, Kinds
    <2> QED
      BY <1>3, <2>1
  <1>4. CASE l = Shown(l.items[1])
    <2>1. l.kind = "shown"
      BY <1>4, Kinds
    <2> QED
      BY <2>1
  <1> QED
    BY <1>1, <1>2, <1>3, <1>4, Zenon DEF IsLeaf

LEMMA RestoreLeaf ==
    ASSUME NEW d
    PROVE  /\ DOMAIN Restore(d) = DOMAIN d
           /\ \A q \in DOMAIN d :
                /\ d[q].kind = "shown" => Restore(d)[q] = Cel(d[q].items[1])
                /\ d[q].kind = "seq" => Restore(d)[q] = List(Retag(d[q].items, "shown", "cel"))
                /\ d[q].kind \notin {"shown", "seq"} => Restore(d)[q] = d[q]
  BY DEF Restore

\* Documents as they come: of a file, and of a client.
LEMMA FileClean ==
    ASSUME NEW d, IsDoc(d), Tidy => OnceNamed(d) /\ Tagged(d)
    PROVE  Clean(d)
  <1> SUFFICES ASSUME NEW q \in DOMAIN d PROVE q \in Seq(STRING) /\ CleanLeaf(q, d[q])
    BY DEF Clean
  <1>1. q \in Seq(STRING) /\ IsLeaf(d[q])
    BY DEF IsDoc
  <1>2. /\ d[q].kind = "cel" => d[q] = Cel(d[q].items[1])
        /\ d[q].kind = "seq" => d[q] = List(d[q].items) /\ Items(d[q].items)
    BY <1>1, LeafOfDoc
  <1> QED
    BY <1>1, <1>2, Zenon DEF CleanLeaf, OnceNamed, Tagged, NoShown

LEMMA RowClean ==
    ASSUME NEW d, IsDoc(d), Tidy => OnceNamed(d)
    PROVE  Clean(Restore(d))
  <1> SUFFICES ASSUME NEW q \in DOMAIN d
               PROVE  q \in Seq(STRING) /\ CleanLeaf(q, Restore(d)[q])
    BY RestoreLeaf DEF Clean
  <1>1. q \in Seq(STRING) /\ IsLeaf(d[q])
    BY DEF IsDoc
  <1>2. CASE d[q].kind = "shown"
    <2> DEFINE l == Cel(d[q].items[1])
    <2>1. l.kind = "cel" /\ l.items[1] = d[q].items[1]
      BY Kinds
    <2>2. Restore(d)[q] = l /\ l = Cel(l.items[1])
      BY <1>2, <2>1, RestoreLeaf
    <2> HIDE DEF l
    <2>3. ~IsScripts(q, l)
      BY <2>1 DEF IsScripts
    <2> QED
      BY <1>1, <2>1, <2>2, <2>3 DEF CleanLeaf
  <1>3. CASE d[q].kind = "seq"
    <2> DEFINE s == d[q].items
               r == Retag(s, "shown", "cel")
    <2>1. Restore(d)[q] = List(r) /\ List(r).kind = "seq" /\ List(r).items = r
      BY <1>3, RestoreLeaf, Kinds
    <2>2. Items(s)
      BY <1>1, <1>3, LeafOfDoc
    <2>3. Tidy /\ Last(q) = "initScripts" => NamesOnce(s)
      BY <1>3 DEF OnceNamed, IsScripts
    <2> HIDE DEF s
    <2>4. Items(r) /\ (NamesOnce(s) => NamesOnce(r))
      BY <2>2, RetagItems
    <2>5. NoShown(r)
      BY RetagParts DEF NoShown
    <2> HIDE DEF r
    <2>6. IsScripts(q, List(r)) => Last(q) = "initScripts"
      BY DEF IsScripts
    <2> QED
      BY <1>1, <2>1, <2>3, <2>4, <2>5, <2>6 DEF CleanLeaf
  <1>4. CASE d[q].kind \notin {"shown", "seq"}
    <2>1. Restore(d)[q] = d[q]
      BY <1>4, RestoreLeaf
    <2>2. d[q].kind = "cel" => d[q] = Cel(d[q].items[1])
      BY <1>1, LeafOfDoc
    <2> QED
      BY <1>1, <1>4, <2>1, <2>2 DEF CleanLeaf, IsScripts
  <1> QED
    BY <1>2, <1>3, <1>4

LEMMA RestoreTwice ==
    ASSUME NEW d
    PROVE  Restore(Restore(d)) = Restore(d)
  <1> DEFINE e == Restore(d)
             f == Restore(e)
  <1>1. DOMAIN e = DOMAIN d /\ DOMAIN f = DOMAIN d
    BY RestoreLeaf
  <1>2. e = [q \in DOMAIN d |-> e[q]] /\ f = [q \in DOMAIN e |-> f[q]]
    BY DEF Restore
  <1>3. ASSUME NEW q \in DOMAIN d PROVE f[q] = e[q]
    <2>1. CASE d[q].kind = "shown"
      <3>1. e[q].kind = "cel"
        BY <2>1, RestoreLeaf, Kinds
      <3> HIDE DEF e
      <3> QED
        BY <1>1, <3>1, RestoreLeaf
    <2>2. CASE d[q].kind = "seq"
      <3> DEFINE r == Retag(d[q].items, "shown", "cel")
      <3>1. e[q] = List(r) /\ Retag(r, "shown", "cel") = r
        BY <2>2, RestoreLeaf, RetagTwice
      <3> HIDE DEF r
      <3>2. e[q].kind = "seq" /\ e[q].items = r
        BY <3>1, Kinds
      <3> HIDE DEF e
      <3>3. f[q] = List(Retag(r, "shown", "cel"))
        BY <1>1, <3>2, RestoreLeaf
      <3> QED
        BY <3>1, <3>3
    <2>3. CASE d[q].kind \notin {"shown", "seq"}
      <3>1. e[q] = d[q]
        BY <2>3, RestoreLeaf
      <3> HIDE DEF e
      <3> QED
        BY <1>1, <2>3, <3>1, RestoreLeaf
    <2> QED
      BY <2>1, <2>2, <2>3
  <1> HIDE DEF f
  <1>4. f = e
    <2> HIDE DEF e
    <2> QED
      BY <1>1, <1>2, <1>3
  <1> QED
    BY <1>4 DEF f

\* A client is shown what it may send back.
LEMMA RestoreShown ==
    ASSUME NEW d, NEW S, d = [q \in S |-> d[q]], Clean(d), Tidy
    PROVE  Restore(Show(d)) = d
  <1> DEFINE e == Show(d)
             f == Restore(e)
  <1>1. DOMAIN d = S
    OBVIOUS
  <1>2. DOMAIN e = S
    BY <1>1 DEF Show
  <1>3. f = [q \in S |-> f[q]]
    BY <1>2 DEF Restore
  <1>4. ASSUME NEW q \in S PROVE f[q] = d[q]
    <2>1. CleanLeaf(q, d[q])
      BY <1>1 DEF Clean
    <2>2. CASE d[q].kind = "cel"
      <3>1. e[q] = Shown(d[q].items[1])
        BY <1>1, <2>2 DEF Show
      <3>2. d[q] = Cel(d[q].items[1])
        BY <2>1, <2>2 DEF CleanLeaf
      <3> HIDE DEF e
      <3>3. e[q].kind = "shown" /\ e[q].items[1] = d[q].items[1]
        BY <3>1, Kinds
      <3>4. f[q] = Cel(e[q].items[1])
        BY <1>2, <3>3, RestoreLeaf
      <3> HIDE DEF f
      <3> QED
        BY <3>2, <3>3, <3>4
    <2>3. CASE d[q].kind = "seq"
      <3> DEFINE s == d[q].items
                 r == Retag(s, "cel", "shown")
      <3>1. e[q] = List(r)
        BY <1>1, <2>3 DEF Show
      <3>2. d[q] = List(s) /\ Items(s) /\ NoShown(s)
        BY <2>1, <2>3 DEF CleanLeaf
      <3> HIDE DEF s
      <3>3. Retag(r, "shown", "cel") = s
        BY <3>2, RetagBack
      <3> HIDE DEF e, r
      <3>4. e[q].kind = "seq" /\ e[q].items = r
        BY <3>1, Kinds
      <3>5. f[q] = List(Retag(r, "shown", "cel"))
        BY <1>2, <3>4, RestoreLeaf
      <3> HIDE DEF f
      <3> QED
        BY <3>2, <3>3, <3>5
    <2>4. CASE d[q].kind \notin {"cel", "seq"}
      <3>1. e[q] = d[q]
        BY <1>1, <2>4 DEF Show
      <3>2. d[q].kind # "shown"
        BY <2>1 DEF CleanLeaf
      <3> HIDE DEF e
      <3> QED
        BY <1>2, <2>4, <3>1, <3>2, RestoreLeaf
    <2> QED
      BY <2>2, <2>3, <2>4
  <1> HIDE DEF f
  <1>5. f = d
    BY <1>3, <1>4
  <1> QED
    BY <1>5 DEF f

-----------------------------------------------------------------------------
(* Merged documents.                                                       *)

IsMergeOf(m, parent, child) ==
    /\ DOMAIN m = DOMAIN child \union {p \in DOMAIN parent : Inherits(child, p)}
    /\ \A q \in DOMAIN m :
         /\ q \notin DOMAIN child => m[q] = parent[q]
         /\ q \in DOMAIN child /\ q \in DOMAIN parent => m[q] = MergeValues(q, parent[q], child[q])
         /\ q \in DOMAIN child /\ q \notin DOMAIN parent => m[q] = child[q]

LEMMA MergeLeaf ==
    ASSUME NEW parent, NEW child
    PROVE  IsMergeOf(Merge(parent, child), parent, child)
  BY DEF Merge, IsMergeOf

\* Two lists of scripts, as sequences over one set.
LEMMA BothOver ==
    ASSUME NEW s, NEW t, s \in Seq(Range(s)), t \in Seq(Range(t))
    PROVE  /\ s \in Seq(Range(s) \union Range(t))
           /\ t \in Seq(Range(s) \union Range(t))
  BY SeqInUnion

\* The three ways in which two values are merged.
LEMMA MergeValuesCases ==
    ASSUME NEW q, NEW a, NEW b
    PROVE  LET both == a.kind = "seq" /\ b.kind = "seq" /\ Strategic(q) IN
           /\ ~both => MergeValues(q, a, b) = b
           /\ both /\ Last(q) # "initScripts" => MergeValues(q, a, b) = List(Decoded(b.items))
           /\ both /\ Last(q) = "initScripts" =>
                MergeValues(q, a, b) = List(ByName(Decoded(a.items), Decoded(b.items)))
  BY DEF MergeValues

\* Scripts merged by name: a list of items without expressions.
LEMMA ScriptsMerged ==
    ASSUME NEW s, NEW t, Items(s), Items(t)
    PROVE  LET p == Decoded(s)
               c == Decoded(t)
               u == ByName(p, c)
               A == Range(p) \union Range(c)
           IN /\ p \in Seq(A) /\ c \in Seq(A) /\ u \in Seq(A)
              /\ Items(u) /\ NoCel(u) /\ Decoded(u) = u
              /\ NamesOnce(s) => NamesOnce(p)
              /\ NamesOnce(s) /\ NamesOnce(t) => NamesOnce(u)
              /\ NoShown(s) /\ NoShown(t) => NoShown(u)
  <1> DEFINE p == Decoded(s)
             c == Decoded(t)
             u == ByName(p, c)
             A == Range(p) \union Range(c)
  <1>1. /\ Items(p) /\ NoCel(p) /\ (NamesOnce(s) => NamesOnce(p)) /\ (NoShown(s) => NoShown(p))
        /\ Items(c) /\ NoCel(c) /\ (NamesOnce(t) => NamesOnce(c)) /\ (NoShown(t) => NoShown(c))
    BY DecodedItems
  <1> HIDE DEF p, c
  <1>2. p \in Seq(A) /\ c \in Seq(A)
    BY <1>1, BothOver DEF Items
  <1>3. u \in Seq(A)
    <2> HIDE DEF A
    <2> QED
      BY <1>2, ByNameParts
  <1>4. NamesOnce(p) /\ NamesOnce(c) => NamesOnce(u)
    <2> HIDE DEF A
    <2> QED
      BY <1>2, ByNameOnce
  <1> HIDE DEF u
  <1>5. Items(u) /\ NoCel(u) /\ (NoShown(p) /\ NoShown(c) => NoShown(u))
    BY <1>1, <1>3, OverItems
  <1>6. Decoded(u) = u
    BY <1>5, DecodedItems
  <1> QED
    BY <1>1, <1>2, <1>3, <1>4, <1>5, <1>6 DEF p, c, u

LEMMA MergeValuesClean ==
    ASSUME NEW q, NEW a, NEW b, CleanLeaf(q, a), CleanLeaf(q, b)
    PROVE  CleanLeaf(q, MergeValues(q, a, b))
  <1> DEFINE both == a.kind = "seq" /\ b.kind = "seq" /\ Strategic(q)
  <1>1. ASSUME NEW u, Items(u), Tidy => NoShown(u),
               Tidy /\ Last(q) = "initScripts" => NamesOnce(u)
        PROVE  CleanLeaf(q, List(u))
    <2>1. List(u).kind = "seq" /\ List(u).items = u
      BY Kinds
    <2> QED
      BY <1>1, <2>1 DEF CleanLeaf, IsScripts
  <1>2. CASE ~both
    BY <1>2, MergeValuesCases
  <1>3. CASE both /\ Last(q) # "initScripts"
    <2>1. Items(b.items) /\ (Tidy => NoShown(b.items))
      BY <1>3 DEF CleanLeaf
    <2>2. Items(Decoded(b.items)) /\ (Tidy => NoShown(Decoded(b.items)))
      BY <2>1, DecodedItems
    <2> QED
      BY <1>1, <1>3, <2>2, MergeValuesCases
  <1>4. CASE both /\ Last(q) = "initScripts"
    <2> DEFINE u == ByName(Decoded(a.items), Decoded(b.items))
    <2>1. /\ Items(a.items) /\ (Tidy => NoShown(a.items) /\ NamesOnce(a.items))
          /\ Items(b.items) /\ (Tidy => NoShown(b.items) /\ NamesOnce(b.items))
      BY <1>4 DEF CleanLeaf, IsScripts
    <2>2. Items(u) /\ (Tidy => NoShown(u) /\ NamesOnce(u))
      BY <2>1, ScriptsMerged
    <2>3. MergeValues(q, a, b) = List(u)
      BY <1>4, MergeValuesCases
    <2> HIDE DEF u
    <2> QED
      BY <1>1, <2>2, <2>3
  <1> QED
    BY <1>2, <1>3, <1>4

LEMMA MergeClean ==
    ASSUME NEW parent, NEW child, Clean(parent), Clean(child)
    PROVE  Clean(Merge(parent, child))
  <1> DEFINE m == Merge(parent, child)
  <1> SUFFICES ASSUME NEW q \in DOMAIN m PROVE q \in Seq(STRING) /\ CleanLeaf(q, m[q])
    BY DEF Clean
  <1>1. /\ q \in DOMAIN child \/ q \in DOMAIN parent
        /\ q \notin DOMAIN child => m[q] = parent[q]
        /\ q \in DOMAIN child /\ q \in DOMAIN parent => m[q] = MergeValues(q, parent[q], child[q])
        /\ q \in DOMAIN child /\ q \notin DOMAIN parent => m[q] = child[q]
    <2>1. IsMergeOf(m, parent, child)
      BY MergeLeaf
    <2> HIDE DEF m
    <2> QED
      BY <2>1 DEF IsMergeOf
  <1> HIDE DEF m
  <1>2. /\ q \in DOMAIN child => q \in Seq(STRING) /\ CleanLeaf(q, child[q])
        /\ q \in DOMAIN parent => q \in Seq(STRING) /\ CleanLeaf(q, parent[q])
    BY DEF Clean
  <1>3. q \in DOMAIN child /\ q \in DOMAIN parent =>
          CleanLeaf(q, MergeValues(q, parent[q], child[q]))
    BY <1>2, MergeValuesClean
  <1> QED
    BY <1>1, <1>2, <1>3, Zenon

\* Resolving clean documents gives clean documents.
CleanMap(m) == \A q \in Key : m[q] # None => Clean(m[q].node)
CleanRow(r) == \A q \in Key : r[q] = None \/ Clean(r[q])

LEMMA MergedClean ==
    ASSUME NEW m, KnownTemplates(m), CleanMap(m), NEW k \in Key
    PROVE  Merged(m, k) = None \/ Clean(Merged(m, k))
  <1>1. PICK f : IsMerged(m, f) /\ \A q : Merged(m, q) = f[Depth][q]
    BY MergedIsRow
  <1>2. Depth \in Nat
    BY DepthIsNat
  <1> DEFINE T == {d \in Nat : d <= Depth => CleanRow(f[d])}
  <1>3. 0 \in T
    <2>1. f[0] = MergedRow(m, 0, f[0 - 1])
      BY <1>1, <1>2 DEF IsMerged
    <2>2. \A q \in Key : f[0][q] = None
      BY <2>1 DEF MergedRow, MergedEntry
    <2> QED
      BY <2>2 DEF CleanRow
  <1>4. ASSUME NEW d \in Nat, d \in T PROVE d + 1 \in T
    <2> SUFFICES ASSUME d + 1 <= Depth, NEW q \in Key
                 PROVE  f[d + 1][q] = None \/ Clean(f[d + 1][q])
      BY DEF CleanRow
    <2>1. CleanRow(f[d]) /\ d + 1 \in 1..Depth /\ (d + 1) - 1 = d
      BY <1>2, <1>4
    <2>2. f[d + 1][q] = IF m[q] = None THEN None
                        ELSE IF m[q].tmpl = None THEN m[q].node
                        ELSE IF f[d][ParentOf(m, q)] = None THEN None
                        ELSE Merge(f[d][ParentOf(m, q)], m[q].node)
      BY <1>1, <2>1, MergedStep
    <2>3. CASE m[q] # None /\ m[q].tmpl # None
      <3>1. ParentOf(m, q) \in Key
        BY <2>3, ParentIsKey
      <3>2. f[d][ParentOf(m, q)] = None \/ Clean(f[d][ParentOf(m, q)])
        BY <2>1, <3>1 DEF CleanRow
      <3>3. Clean(m[q].node)
        BY <2>3 DEF CleanMap
      <3> QED
        BY <2>2, <2>3, <3>2, <3>3, MergeClean
    <2>4. CASE ~(m[q] # None /\ m[q].tmpl # None)
      BY <2>2, <2>4 DEF CleanMap
    <2> QED
      BY <2>3, <2>4
  <1> HIDE DEF T
  <1>5. Nat \subseteq T
    BY <1>3, <1>4, SetInduction
  <1>6. CleanRow(f[Depth])
    BY <1>2, <1>5 DEF T
  <1> QED
    BY <1>1, <1>6 DEF CleanRow

-----------------------------------------------------------------------------
(* What is accepted loads.                                                 *)

LEMMA UnsetIsNoJunk ==
    ASSUME NEW b, NEW q, q \notin DOMAIN b
    PROVE  Text(b, q) \notin {Junk, Fraction}
  <1>1. Text(b, q) = ""
    BY Zenon DEF Text
  <1>2. "" \notin {Junk, Fraction}
    BY DEF Junk, Fraction
  <1> QED
    BY <1>1, <1>2, Zenon

LEMMA LastAppended ==
    ASSUME NEW A, NEW s \in Seq(A), NEW k
    PROVE  Last(Append(s, k)) = k
  <1> DEFINE B == A \union {k}
  <1>1. s \in Seq(B) /\ k \in B
    BY SeqInUnion
  <1> HIDE DEF B
  <1>2. Len(Append(s, k)) = Len(s) + 1 /\ Append(s, k)[Len(s) + 1] = k
    BY <1>1, AppendProperties
  <1> QED
    BY <1>2 DEF Last

\* A decoder that refuses every number that is none refuses those of storages;
\* the ones it truncates are left.
LEMMA OwnerIDsDecode ==
    ASSUME NEW b, \A q \in DOMAIN b : q \in Seq(STRING), Decodes(b), Whole(b)
    PROVE  ValidateStorageOwnerIDs(b)
  <1> SUFFICES ASSUME NEW s \in Storages(b), NEW k \in OwnerIDs
               PROVE  Text(b, Append(s, k)) \notin {Junk, Fraction}
    BY DEF ValidateStorageOwnerIDs
  <1>2. s \in Seq(STRING)
    <2>1. PICK q \in DOMAIN b : \/ Len(q) > 2 /\ s = SubSeq(q, 1, 2)
                                \/ Len(q) > 3 /\ s = SubSeq(q, 1, 3)
      BY DEF Storages
    <2>2. q \in Seq(STRING)
      OBVIOUS
    <2>3. Len(q) > 2 => SubSeq(q, 1, 2) \in Seq(STRING)
      BY <2>2
    <2>4. Len(q) > 3 => SubSeq(q, 1, 3) \in Seq(STRING)
      BY <2>2
    <2> QED
      BY <2>1, <2>3, <2>4, Zenon
  <1>3. Last(Append(s, k)) = k
    BY <1>2, LastAppended
  <1>4. CASE Append(s, k) \in DOMAIN b
    BY <1>3, <1>4 DEF Decodes, Whole
  <1>5. CASE Append(s, k) \notin DOMAIN b
    BY <1>5, UnsetIsNoJunk
  <1> QED
    BY <1>4, <1>5

Paths(d) == \A q \in DOMAIN d : q \in Seq(STRING)

LEMMA MergePaths ==
    ASSUME NEW parent, NEW child, Paths(parent), Paths(child)
    PROVE  Paths(Merge(parent, child))
  BY DEF Merge, Paths

LEMMA ChecksAgree ==
    ASSUME NEW d, Paths(d)
    PROVE  /\ SubmitChecks(Eval(d)) => LoadChecks(Eval(d))
           /\ LoadChecks(Eval(d)) /\ Whole(Eval(d)) => SubmitChecks(Eval(d))
  <1> DEFINE b == Eval(d)
  <1>1. \A q \in DOMAIN b : q \in Seq(STRING)
    BY DEF Paths, Eval
  <1> HIDE DEF b
  <1>2. Decodes(b) /\ Whole(b) => ValidateStorageOwnerIDs(b)
    BY <1>1, OwnerIDsDecode
  <1>3. /\ SubmitChecks(b) => LoadChecks(b)
        /\ LoadChecks(b) /\ Whole(b) => SubmitChecks(b)
    BY <1>2, Zenon DEF SubmitChecks, LoadChecks
  <1> QED
    BY <1>3 DEF b

LEMMA MergedAbsent ==
    ASSUME NEW m, NEW k \in Key, m[k] = None
    PROVE  Merged(m, k) = None
  <1>1. PICK f : IsMerged(m, f) /\ \A q : Merged(m, q) = f[Depth][q]
    BY MergedIsRow
  <1>2. Depth \in 0..Depth
    BY DepthIsNat
  <1>3. f[Depth] = MergedRow(m, Depth, f[Depth - 1])
    BY <1>1, <1>2 DEF IsMerged
  <1>4. f[Depth][k] = None
    BY <1>3 DEF MergedRow, MergedEntry
  <1> QED
    BY <1>1, <1>4

\* A map that is in step with files and rows.
LEMMA InStep ==
    ASSUME NoneIsNoEntry, NEW a, NEW c, c = Resolved(a), Resolvable(a), NEW k \in Key
    PROVE  /\ c[k] = None <=> a[k] = None
           /\ c[k] = None <=> Merged(a, k) = None
           /\ c[k] # None => c[k].node = Merged(a, k)
  <1>1. c[k] = IF a[k] = None THEN None ELSE Resolution(a[k].tmpl, a[k].node, Merged(a, k))
    BY DEF Resolved
  <1>2. \A x, y, z : Resolution(x, y, z) # None /\ Resolution(x, y, z).node = z
    BY DEF NoneIsNoEntry, Resolution
  <1>3. a[k] = None => Merged(a, k) = None
    BY MergedAbsent
  <1>4. a[k] # None => Merged(a, k) # None
    BY DEF Resolvable
  <1> QED
    BY <1>1, <1>2, <1>3, <1>4

\* Files and rows hold clean documents.
StoredOK == \A n \in Names : FileOK(files[n]) /\ RowOK(rows[n])

LEMMA RawParts ==
    ASSUME NoneIsNoEntry, NEW d
    PROVE  Raw(d) # None /\ Raw(d).tmpl = Template(d) /\ Raw(d).node = d
  BY DEF NoneIsNoEntry, Raw

LEMMA AllRawClean ==
    ASSUME NoneIsNoEntry, StoredOK
    PROVE  /\ DOMAIN AllRaw = Key
           /\ \A k \in Key : AllRaw[k] # None => /\ Clean(AllRaw[k].node)
                                                 /\ AllRaw[k].tmpl \in Names \union {None}
  <1>1. DOMAIN AllRaw = Key
    BY DEF AllRaw
  <1>2. ASSUME NEW k \in Key, AllRaw[k] # None
        PROVE  Clean(AllRaw[k].node) /\ AllRaw[k].tmpl \in Names \union {None}
    <2>1. k.name \in Names /\ k.org \in BOOLEAN
      BY KeyTypes
    <2>2. PICK d : AllRaw[k] = Raw(d) /\ Clean(d) /\ TemplateIn(d)
      <3>1. CASE k.org
        <4>1. rows[k.name] # None /\ AllRaw[k] = Raw(Restore(rows[k.name]))
          BY <1>2, <3>1 DEF AllRaw
        <4> QED
          BY <2>1, <4>1 DEF StoredOK, RowOK
      <3>2. CASE ~k.org
        <4>1. files[k.name] # None /\ AllRaw[k] = Raw(files[k.name])
          BY <1>2, <3>2 DEF AllRaw
        <4> QED
          BY <2>1, <4>1 DEF StoredOK, FileOK
      <3> QED
        BY <3>1, <3>2
    <2> QED
      BY <2>2, RawParts DEF TemplateIn
  <1> QED
    BY <1>1, <1>2

\* What Build makes of a document whose map is in step.
LEMMA BuildParts ==
    ASSUME NoneIsNoEntry, NEW d
    PROVE  LET e == Restore(d)
               P == ResolveTemplateParent(cache, Template(e))
           IN /\ Template(e) = None => Build(d) # None /\ Build(d).node = e
              /\ Template(e) # None /\ cache[P] = None => Build(d) = None
              /\ Template(e) # None /\ cache[P] # None =>
                   Build(d) # None /\ Build(d).node = Merge(cache[P].node, e)
  <1>1. \A x, y, z : Resolution(x, y, z) # None /\ Resolution(x, y, z).node = z
    BY DEF NoneIsNoEntry, Resolution
  <1> QED
    BY <1>1 DEF Build

LEMMA AcceptedLoadsHere ==
    ASSUME NoneIsNoEntry, NoneIsNoDocument, StoredOK
    PROVE  AcceptedLoads
  <1> SUFFICES ASSUME InSync, NEW n \in Names, NEW d \in Docs \union Probes,
                      NEW m, m = [AllRaw EXCEPT ![OrgKey(n)] = Raw(Restore(d))],
                      ~Circular(m, OrgKey(n))
               PROVE  LET b == Merged(m, OrgKey(n)) IN
                      /\ Accepts(d) => b # None /\ Valid(b)
                      /\ b # None /\ Valid(b) /\ Whole(Eval(b)) => Accepts(d)
    BY DEF AcceptedLoads
  <1> DEFINE e == Restore(d)
             a == AllRaw
             k == OrgKey(n)
             node == Merged(m, k)
  <1>1. /\ DOMAIN a = Key
        /\ \A q \in Key : a[q] # None => Clean(a[q].node) /\ a[q].tmpl \in Names \union {None}
    BY AllRawClean
  <1>2. cache = Resolved(a) /\ Resolvable(a)
    BY DEF InSync
  <1>3. k \in Key
    BY KeyTypes
  <1>4. Paths(e) /\ TemplateIn(e)
    <2>1. IsDoc(d) /\ TemplateIn(Restore(d))
      BY StoreConstants
    <2>2. Paths(d)
      BY <2>1 DEF IsDoc, Paths
    <2> QED
      BY <2>1, <2>2, RestoreLeaf DEF Paths
  <1>5. /\ m[k] = Raw(e) /\ m[k] # None /\ m[k].tmpl = Template(e) /\ m[k].node = e
        /\ \A q \in Key : q # k => m[q] = a[q]
    BY <1>1, <1>3, RawParts
  <1> HIDE DEF a, e, k
  <1>6. e # None /\ \A p : Merge(p, e) # None
    BY DEF NoneIsNoDocument, e
  <1>7. /\ node # None => Paths(node)
        /\ node # None => Build(d) # None /\ Build(d).node = node
        /\ node = None => Build(d) = None
    <2>1. CASE Template(e) = None
      <3>1. node = e
        BY <1>3, <1>5, <2>1, MergedRoot
      <3>2. Build(d) # None /\ Build(d).node = e
        BY <2>1, BuildParts DEF e
      <3> QED
        BY <1>4, <1>6, <3>1, <3>2
    <2>2. CASE Template(e) # None
      <3> DEFINE t == Template(e)
                 P == ResolveTemplateParent(a, t)
      <3>1. t \in Names
        BY <1>4, <2>2 DEF TemplateIn
      <3>2. Differ(m, a, n) /\ KnownTemplates(m)
        BY <1>1, <1>4, <1>5 DEF Differ, KnownTemplates, TemplateIn, k
      <3>3. /\ P \in Key
            /\ node = IF Merged(a, P) = None THEN None ELSE Merge(Merged(a, P), e)
        <4>1. MergedOnto(m, a, n)
          BY <1>5, <2>2, <3>2, MergedChild DEF k
        <4> QED
          BY <1>5, <4>1 DEF MergedOnto, k
      <3>4. ResolveTemplateParent(cache, t) = P
        <4>1. OrgKey(t) \in Key
          BY <3>1, KeyTypes
        <4>2. cache[OrgKey(t)] = None <=> a[OrgKey(t)] = None
          BY <1>2, <4>1, InStep
        <4> QED
          BY <4>2 DEF ResolveTemplateParent
      <3>5. /\ cache[P] = None => Build(d) = None
            /\ cache[P] # None => Build(d) # None /\ Build(d).node = Merge(cache[P].node, e)
        BY <2>2, <3>4, BuildParts DEF e
      <3> HIDE DEF P, t
      <3>6. /\ cache[P] = None <=> Merged(a, P) = None
            /\ cache[P] # None => cache[P].node = Merged(a, P)
        BY <1>2, <3>3, InStep
      <3>7. Merged(a, P) # None => Paths(Merge(Merged(a, P), e))
        <4>1. KnownTemplates(a) /\ CleanMap(a)
          BY <1>1 DEF KnownTemplates, CleanMap
        <4>2. Merged(a, P) # None => Clean(Merged(a, P))
          BY <3>3, <4>1, MergedClean
        <4>3. Merged(a, P) # None => Paths(Merged(a, P))
          BY <4>2 DEF Clean, Paths
        <4> QED
          BY <1>4, <4>3, MergePaths
      <3> QED
        BY <1>6, <3>3, <3>5, <3>6, <3>7
    <2> QED
      BY <2>1, <2>2
  <1>8. CASE node = None
    BY <1>7, <1>8 DEF Accepts, k
  <1>9. CASE node # None
    <2>1. /\ SubmitChecks(Eval(node)) => LoadChecks(Eval(node))
          /\ LoadChecks(Eval(node)) /\ Whole(Eval(node)) => SubmitChecks(Eval(node))
      BY <1>7, <1>9, ChecksAgree
    <2>2. Accepts(d) <=> Evaluates(node) /\ SubmitChecks(Eval(node))
      BY <1>7, <1>9 DEF Accepts
    <2> QED
      BY <1>9, <2>1, <2>2 DEF Valid, k
  <1> QED
    BY <1>8, <1>9

-----------------------------------------------------------------------------
(* A merged document merged again.                                         *)

\* A path that begins like another one.
LEMMA BeginsAlike ==
    ASSUME NEW A, NEW q \in Seq(A), NEW x \in Seq(A), NEW i \in DOMAIN q,
           IsPrefix(SubSeq(q, 1, i), x)
    PROVE  /\ i \in DOMAIN x /\ x[i] = q[i]
           /\ SubSeq(x, 1, i) = SubSeq(q, 1, i)
           /\ SubSeq(x, 1, i - 1) = SubSeq(q, 1, i - 1)
  <1>1. PICK n \in Nat : n = Len(q) /\ DOMAIN q = 1..n
    OBVIOUS
  <1>2. PICK k \in Nat : k = Len(x) /\ DOMAIN x = 1..k
    OBVIOUS
  <1> DEFINE s == SubSeq(q, 1, i)
  <1>3. /\ s \in Seq(A) /\ Len(s) = i /\ \A j \in 1..i : s[j] = q[j]
    BY <1>1
  <1> HIDE DEF s
  <1>4. i <= k /\ SubSeq(s, 1, i) = SubSeq(x, 1, i)
    BY <1>2, <1>3 DEF IsPrefix, s
  <1>5. \A j \in 1..i : SubSeq(s, 1, i)[j] = s[j] /\ SubSeq(x, 1, i)[j] = x[j]
    BY <1>2, <1>3, <1>4
  <1>6. \A j \in 1..i : x[j] = q[j]
    BY <1>3, <1>4, <1>5
  <1>7. i \in 1..k /\ i \in Nat
    BY <1>1, <1>4
  <1>8. SubSeq(x, 1, i) = SubSeq(q, 1, i)
    <2>1. SubSeq(x, 1, i) = [j \in 1..i |-> x[j]] /\ SubSeq(q, 1, i) = [j \in 1..i |-> q[j]]
      BY <1>1, <1>2, <1>7
    <2> QED
      BY <1>6, <2>1
  <1>9. SubSeq(x, 1, i - 1) = SubSeq(q, 1, i - 1)
    <2>1. PICK l \in Nat : l = i - 1 /\ l <= n /\ l <= k
      BY <1>1, <1>7
    <2>2. SubSeq(x, 1, l) = [j \in 1..l |-> x[j]] /\ SubSeq(q, 1, l) = [j \in 1..l |-> q[j]]
      BY <1>1, <1>2, <2>1
    <2>3. \A j \in 1..l : x[j] = q[j]
      BY <1>6, <1>7, <2>1
    <2> QED
      BY <2>1, <2>2, <2>3
  <1>10. x[i] = q[i]
    BY <1>6, <1>7
  <1>11. i \in DOMAIN x
    BY <1>2, <1>7
  <1> QED
    BY <1>8, <1>9, <1>10, <1>11, Zenon

\* What a child does not inherit, its merged document does not inherit either.
LEMMA InheritsOnce ==
    ASSUME NEW p, NEW d, NEW m, IsMergeOf(m, p, d), Paths(p), Paths(d),
           NEW q \in DOMAIN p, Inherits(m, q)
    PROVE  q \in DOMAIN m
  <1> SUFFICES ASSUME q \notin DOMAIN m PROVE FALSE
    OBVIOUS
  <1>1. DOMAIN m = DOMAIN d \union {x \in DOMAIN p : Inherits(d, x)}
    BY DEF IsMergeOf
  <1>2. ~Inherits(d, q)
    BY <1>1
  <1>3. ~\E x \in DOMAIN d : IsPrefix(x, q) \/ IsPrefix(q, x)
    BY <1>1 DEF Inherits
  <1>4. PICK i \in DOMAIN q :
          /\ q[i] \in {"isTemplate", "description"} /\ ~Sets(d, SubSeq(q, 1, i))
          /\ ~(i > 1 /\ ~Sets(d, SubSeq(q, 1, i - 1)))
    BY <1>2, <1>3, Zenon DEF Inherits
  <1>5. \A s : Sets(d, s) => Sets(m, s)
    BY <1>1 DEF Sets
  <1>6. Sets(m, SubSeq(q, 1, i))
    BY <1>4, <1>5, Zenon DEF Inherits
  <1>7. PICK x \in DOMAIN m : IsPrefix(SubSeq(q, 1, i), x)
    BY <1>6 DEF Sets
  <1>8. x \notin DOMAIN d
    BY <1>4, <1>7 DEF Sets
  <1>9. x \in DOMAIN p /\ Inherits(d, x)
    BY <1>1, <1>8
  <1>10. q \in Seq(STRING) /\ x \in Seq(STRING)
    BY <1>9 DEF Paths
  <1>11. /\ i \in DOMAIN x /\ x[i] = q[i]
         /\ SubSeq(x, 1, i) = SubSeq(q, 1, i)
         /\ SubSeq(x, 1, i - 1) = SubSeq(q, 1, i - 1)
    BY <1>7, <1>10, BeginsAlike
  <1> QED
    BY <1>4, <1>9, <1>11, Zenon DEF Inherits

LEMMA OverlaysItself ==
    ASSUME NEW A, NEW s \in Seq(A)
    PROVE  Overlay(A, s, s, s)
  <1>1. PICK n \in Nat : n = Len(s)
    OBVIOUS
  <1>2. \A i \in n + 1..n : FALSE
    OBVIOUS
  <1> QED
    BY <1>1, <1>2 DEF Overlay

LEMMA MergeValuesAgain ==
    ASSUME NEW q, NEW a, NEW b, CleanLeaf(q, a), CleanLeaf(q, b), Tidy
    PROVE  /\ MergeValues(q, a, MergeValues(q, a, b)) = MergeValues(q, a, b)
           /\ (Strategic(q) /\ a.kind = "seq" => NoCel(a.items)) => MergeValues(q, a, a) = a
  <1> DEFINE both(c) == a.kind = "seq" /\ c.kind = "seq" /\ Strategic(q)
  <1>1. ASSUME both(b), Last(q) = "initScripts"
        PROVE  MergeValues(q, a, MergeValues(q, a, b)) = MergeValues(q, a, b)
    <2> DEFINE p == Decoded(a.items)
               c == Decoded(b.items)
               u == ByName(p, c)
               A == Range(p) \union Range(c)
    <2>1. Items(a.items) /\ Items(b.items) /\ NamesOnce(a.items)
      BY <1>1 DEF CleanLeaf, IsScripts
    <2>2. p \in Seq(A) /\ c \in Seq(A) /\ Decoded(u) = u /\ NamesOnce(p)
      BY <2>1, ScriptsMerged
    <2>3. MergeValues(q, a, b) = List(u)
      BY <1>1, MergeValuesCases
    <2>4. List(u).kind = "seq" /\ List(u).items = u
      BY Kinds
    <2>5. MergeValues(q, a, List(u)) = List(ByName(p, Decoded(u)))
      BY <1>1, <2>4, MergeValuesCases
    <2> HIDE DEF p, c, A, u
    <2>6. Overlay(A, p, c, u)
      BY <2>2, ByNameOverlays DEF u
    <2>7. ByName(p, u) = u
      BY <2>2, <2>6, ByNameFixed
    <2> QED
      BY <2>2, <2>3, <2>5, <2>7
  <1>2. ASSUME both(b), Last(q) # "initScripts"
        PROVE  MergeValues(q, a, MergeValues(q, a, b)) = MergeValues(q, a, b)
    <2> DEFINE c == Decoded(b.items)
    <2>1. MergeValues(q, a, b) = List(c) /\ Decoded(c) = c
      BY <1>2, MergeValuesCases, UntaggedTwice
    <2> HIDE DEF c
    <2>2. List(c).kind = "seq" /\ List(c).items = c
      BY Kinds
    <2>3. MergeValues(q, a, List(c)) = List(Decoded(c))
      BY <1>2, <2>2, MergeValuesCases
    <2> QED
      BY <2>1, <2>3
  <1>3. ASSUME ~both(b)
        PROVE  MergeValues(q, a, MergeValues(q, a, b)) = MergeValues(q, a, b)
    BY <1>3, MergeValuesCases
  <1>4. ASSUME Strategic(q) /\ a.kind = "seq" => NoCel(a.items)
        PROVE  MergeValues(q, a, a) = a
    <2>1. CASE ~both(a)
      BY <2>1, MergeValuesCases
    <2>2. CASE both(a)
      <3> DEFINE s == a.items
                 A == Range(s)
      <3>1. s \in Seq(A) /\ a = List(s) /\ Items(s) /\ NoCel(s)
        BY <1>4, <2>2 DEF CleanLeaf, Items
      <3>2. Last(q) = "initScripts" => NamesOnce(s)
        BY <2>2 DEF CleanLeaf, IsScripts
      <3>3. /\ Last(q) # "initScripts" => MergeValues(q, a, a) = List(Decoded(s))
            /\ Last(q) = "initScripts" => MergeValues(q, a, a) = List(ByName(Decoded(s), Decoded(s)))
        BY <2>2, MergeValuesCases
      <3> HIDE DEF s, A
      <3>4. Decoded(s) = s
        BY <3>1, DecodedItems
      <3>5. Overlay(A, s, s, s)
        BY <3>1, OverlaysItself
      <3>6. NamesOnce(s) => ByName(s, s) = s
        BY <3>1, <3>5, ByNameFixed
      <3> QED
        BY <3>1, <3>2, <3>3, <3>4, <3>6
    <2> QED
      BY <2>1, <2>2
  <1>5. MergeValues(q, a, MergeValues(q, a, b)) = MergeValues(q, a, b)
    BY <1>1, <1>2, <1>3
  <1> QED
    BY <1>4, <1>5

\* No list with a strategy that d has from p alone holds an expression.
PlainFrom(p, d) == \A q \in DOMAIN Merge(p, d) \ DOMAIN d :
    Strategic(q) /\ Merge(p, d)[q].kind = "seq" => Expressions(Merge(p, d)[q]) = {}

LEMMA NoExpressions ==
    ASSUME NEW l, l.kind = "seq", Expressions(l) = {}
    PROVE  NoCel(l.items)
  <1>1. Expressions(l) = {i.body : i \in {x \in Range(l.items) : x.kind = "cel"}}
    BY Zenon DEF Expressions
  <1>2. \A i \in DOMAIN l.items : l.items[i] \in Range(l.items)
    BY DEF Range
  <1>3. \A x \in Range(l.items) : x.kind # "cel"
    BY <1>1
  <1> QED
    BY <1>2, <1>3 DEF NoCel

LEMMA MergeAgain ==
    ASSUME NEW p, NEW d, Clean(p), Clean(d), Tidy, PlainFrom(p, d)
    PROVE  Merge(p, Merge(p, d)) = Merge(p, d)
  <1> DEFINE m == Merge(p, d)
             S == DOMAIN d \union {x \in DOMAIN p : Inherits(d, x)}
  <1>1. m = [q \in S |-> m[q]]
    BY DEF Merge
  <1>2. IsMergeOf(m, p, d)
    BY MergeLeaf
  <1>3. DOMAIN m = S
    BY <1>1
  <1>9. \A q \in DOMAIN m \ DOMAIN d :
          Strategic(q) /\ m[q].kind = "seq" => Expressions(m[q]) = {}
    BY Zenon DEF PlainFrom
  <1> HIDE DEF m, S
  <1>4. Paths(p) /\ Paths(d)
    BY DEF Clean, Paths
  <1>5. DOMAIN m \union {x \in DOMAIN p : Inherits(m, x)} = DOMAIN m
    BY <1>2, <1>4, InheritsOnce
  <1>6. Merge(p, m) = [q \in DOMAIN m |-> IF q \in DOMAIN p THEN MergeValues(q, p[q], m[q]) ELSE m[q]]
    BY <1>5 DEF Merge
  <1>7. ASSUME NEW q \in DOMAIN m, q \in DOMAIN p
        PROVE  MergeValues(q, p[q], m[q]) = m[q]
    <2>1. CleanLeaf(q, p[q])
      BY <1>7 DEF Clean
    <2>2. CASE q \in DOMAIN d
      <3>1. m[q] = MergeValues(q, p[q], d[q]) /\ CleanLeaf(q, d[q])
        BY <1>2, <1>7, <2>2 DEF IsMergeOf, Clean
      <3> QED
        BY <2>1, <3>1, MergeValuesAgain
    <2>3. CASE q \notin DOMAIN d
      <3>1. m[q] = p[q]
        BY <1>2, <1>7, <2>3 DEF IsMergeOf
      <3>2. Strategic(q) /\ p[q].kind = "seq" => NoCel(p[q].items)
        BY <1>7, <1>9, <2>3, <3>1, NoExpressions
      <3> QED
        BY <2>1, <3>1, <3>2, MergeValuesAgain
    <2> QED
      BY <2>2, <2>3
  <1>8. Merge(p, m) = [q \in S |-> m[q]]
    BY <1>3, <1>6, <1>7
  <1> QED
    BY <1>1, <1>8 DEF m

-----------------------------------------------------------------------------
(* The merged view of a row.                                               *)

\* A map of clean documents, merged or not.
MapOK(m) == KnownTemplates(m) /\ CleanMap(m)

LEMMA TemplateIsKey ==
    ASSUME NEW m, NEW t \in Names
    PROVE  ResolveTemplateParent(m, t) \in Key
  BY KeyTypes DEF ResolveTemplateParent

LEMMA RoundTripHere ==
    ASSUME NoneIsNoEntry, Tidy, StoredOK, MapOK(cache)
    PROVE  RoundTrip
  <1> SUFFICES ASSUME NEW n \in Names, rows[n] # None, Build(rows[n]) # None,
                      ~InheritsExpressions(rows[n])
               PROVE  Build(Show(Build(rows[n]).node)).node = Build(rows[n]).node
    BY DEF RoundTrip
  <1> DEFINE e == Restore(rows[n])
             m == Build(rows[n]).node
             t == Template(e)
             P == ResolveTemplateParent(cache, t)
  <1>1. Clean(e) /\ t \in Names \union {None}
    BY DEF StoredOK, RowOK, TemplateIn
  <1>2. CASE t = None
    <2>1. m = e
      BY <1>2, BuildParts
    <2>2. e = [q \in DOMAIN e |-> e[q]]
      BY DEF Restore
    <2>3. Restore(Show(e)) = e
      <3> HIDE DEF e
      <3> QED
        BY <1>1, <2>2, RestoreShown
    <2>4. Build(Show(e)).node = e
      BY <1>2, <2>3, BuildParts
    <2> QED
      BY <2>1, <2>4
  <1>3. CASE t # None
    <2>1. P \in Key
      BY <1>1, <1>3, TemplateIsKey
    <2>2. cache[P] # None /\ m = Merge(cache[P].node, e)
      BY <1>3, BuildParts
    <2>3. Clean(cache[P].node)
      BY <2>1, <2>2 DEF MapOK, CleanMap
    <2> DEFINE p == cache[P].node
    <2>11. PlainFrom(p, e)
      <3>1. DOMAIN e = DOMAIN rows[n] /\ m = Merge(p, e)
        BY <2>2, RestoreLeaf
      <3>2. \A q \in DOMAIN m \ DOMAIN rows[n] :
              Strategic(q) /\ m[q].kind = "seq" => Expressions(m[q]) = {}
        BY Zenon DEF InheritsExpressions
      <3> HIDE DEF m, e, p
      <3> QED
        BY <3>1, <3>2 DEF PlainFrom
    <2>4. Merge(p, m) = m /\ Clean(m)
      <3> HIDE DEF e, p
      <3>1. Clean(p) /\ m = Merge(p, e)
        BY <2>2, <2>3 DEF p
      <3> HIDE DEF m
      <3> QED
        BY <1>1, <2>11, <3>1, MergeAgain, MergeClean
    <2>5. \A x, y : Merge(x, y) = [q \in DOMAIN Merge(x, y) |-> Merge(x, y)[q]]
      BY DEF Merge
    <2>6. m = [q \in DOMAIN m |-> m[q]]
      BY <2>2, <2>5
    <2>7. Template(m) = t
      BY <1>3, <2>2, MergeKeeps
    <2>8. Restore(Show(m)) = m
      <3> HIDE DEF m
      <3> QED
        BY <2>4, <2>6, RestoreShown
    <2> HIDE DEF m, P, e
    <2>9. Build(Show(m)).node = Merge(cache[ResolveTemplateParent(cache, t)].node, m)
      BY <1>3, <2>2, <2>7, <2>8, BuildParts DEF P
    <2>10. Build(Show(m)).node = m
      BY <2>4, <2>9 DEF P
    <2> QED
      BY <2>10 DEF m
  <1> QED
    BY <1>2, <1>3

-----------------------------------------------------------------------------
(* Scripts that a revision covers.                                         *)

\* A leaf that carries the scripts of another one, tags aside.
LeafCarries(q, a, b) ==
    /\ IsScripts(q, a) /\ Decoded(a.items) \in Seq(Range(Decoded(a.items)))
    /\ Carries(Decoded(a.items), Decoded(b.items))

ScriptsIn(rev, d) ==
    \A q \in DOMAIN Content(d) : IsScripts(q, d[q]) => LeafCarries(q, rev[q], d[q])

LEMMA LeafCarriesItself ==
    ASSUME NEW q, NEW b, CleanLeaf(q, b), IsScripts(q, b)
    PROVE  LeafCarries(q, b, b)
  <1>1. Items(b.items)
    BY DEF CleanLeaf, IsScripts
  <1>2. Decoded(b.items) \in Seq(Range(Decoded(b.items)))
    BY <1>1, DecodedItems DEF Items
  <1> QED
    BY <1>2, CarriesItself DEF LeafCarries

LEMMA MergeCarries ==
    ASSUME NEW q, NEW a, NEW b, CleanLeaf(q, a), CleanLeaf(q, b), IsScripts(q, b)
    PROVE  LeafCarries(q, MergeValues(q, a, b), b)
  <1>1. CASE a.kind = "seq"
    <2> DEFINE p == Decoded(a.items)
               c == Decoded(b.items)
               u == ByName(p, c)
               A == Range(p) \union Range(c)
    <2>1. Items(a.items) /\ Items(b.items)
      BY <1>1 DEF CleanLeaf, IsScripts
    <2>2. p \in Seq(A) /\ c \in Seq(A) /\ Items(u) /\ Decoded(u) = u
      BY <2>1, ScriptsMerged
    <2>3. MergeValues(q, a, b) = List(u)
      <3>1. a.kind = "seq" /\ b.kind = "seq" /\ Strategic(q) /\ Last(q) = "initScripts"
        BY <1>1 DEF IsScripts, Strategic
      <3> QED
        BY <3>1, MergeValuesCases
    <2>4. List(u).kind = "seq" /\ List(u).items = u
      BY Kinds
    <2>5. Carries(u, c)
      <3> HIDE DEF p, c, A
      <3> QED
        BY <2>2, ByNameCarries
    <2>6. IsScripts(q, List(u))
      BY <2>4 DEF IsScripts
    <2> HIDE DEF u
    <2>7. u \in Seq(Range(u))
      BY <2>2 DEF Items
    <2> QED
      BY <2>2, <2>3, <2>4, <2>5, <2>6, <2>7 DEF LeafCarries
  <1>2. CASE a.kind # "seq"
    <2>1. MergeValues(q, a, b) = b
      BY <1>2 DEF MergeValues
    <2> QED
      BY <2>1, LeafCarriesItself
  <1> QED
    BY <1>1, <1>2

LEMMA BuildCarries ==
    ASSUME NoneIsNoEntry, MapOK(cache), NEW row, Build(row) # None,
           Clean(Restore(row)), TemplateIn(Restore(row))
    PROVE  ScriptsIn(Build(row).rev, Restore(row))
  <1> DEFINE d == Restore(row)
             rev == Build(row).rev
             t == Template(d)
             P == ResolveTemplateParent(cache, t)
  <1>1. \A a, b, c : Resolution(a, b, c).rev = Content(c)
    BY DEF Resolution
  <1>2. \/ rev = Content(d)
        \/ \E p : Clean(p) /\ rev = Content(Merge(p, d))
    <2>1. CASE t = None
      BY <1>1, <2>1 DEF Build
    <2>2. CASE t # None
      <3>1. P \in Key
        BY <2>2, TemplateIsKey DEF TemplateIn
      <3>2. cache[P] # None /\ rev = Content(Merge(cache[P].node, d))
        BY <1>1, <2>2 DEF Build
      <3>3. Clean(cache[P].node)
        BY <3>1, <3>2 DEF MapOK, CleanMap
      <3> QED
        BY <3>2, <3>3
    <2> QED
      BY <2>1, <2>2
  <1>3. Clean(d)
    OBVIOUS
  <1> HIDE DEF d, rev
  <1> SUFFICES ASSUME NEW q \in DOMAIN Content(d), IsScripts(q, d[q])
               PROVE  LeafCarries(q, rev[q], d[q])
    BY DEF ScriptsIn, LeafCarries, d, rev
  <1>4. q \in DOMAIN d /\ q[1] \notin {"description", "isTemplate"}
    BY DEF Content
  <1>5. CleanLeaf(q, d[q])
    BY <1>3, <1>4 DEF Clean
  <1>6. CASE rev = Content(d)
    <2>1. rev[q] = d[q]
      BY <1>4, <1>6, ContentHas
    <2> QED
      BY <1>5, <2>1, LeafCarriesItself
  <1>7. CASE \E p : Clean(p) /\ rev = Content(Merge(p, d))
    <2>1. PICK p : Clean(p) /\ rev = Content(Merge(p, d))
      BY <1>7
    <2> DEFINE m == Merge(p, d)
    <2>2. IsMergeOf(m, p, d)
      BY MergeLeaf
    <2>3. rev = Content(m)
      BY <2>1
    <2> HIDE DEF m
    <2>4. q \in DOMAIN m
      BY <1>4, <2>2 DEF IsMergeOf
    <2>5. rev[q] = m[q]
      BY <1>4, <2>3, <2>4, ContentHas
    <2>6. CASE q \in DOMAIN p
      <3>1. m[q] = MergeValues(q, p[q], d[q])
        BY <1>4, <2>2, <2>4, <2>6 DEF IsMergeOf
      <3>2. CleanLeaf(q, p[q])
        BY <2>1, <2>6 DEF Clean
      <3> QED
        BY <1>5, <2>5, <3>1, <3>2, MergeCarries
    <2>7. CASE q \notin DOMAIN p
      <3>1. m[q] = d[q]
        BY <1>4, <2>2, <2>4, <2>7 DEF IsMergeOf
      <3> QED
        BY <1>5, <2>5, <3>1, LeafCarriesItself
    <2> QED
      BY <2>6, <2>7
  <1> QED
    BY <1>2, <1>6, <1>7

LEMMA ScriptsAgree ==
    ASSUME NEW rev, NEW d, NEW e, ScriptsIn(rev, d), ScriptsIn(rev, e),
           NEW q \in DOMAIN Content(d) \intersect DOMAIN Content(e),
           IsScripts(q, d[q]), IsScripts(q, e[q])
    PROVE  SameScripts(Decoded(d[q].items), Decoded(e[q].items))
  <1>1. LeafCarries(q, rev[q], d[q]) /\ LeafCarries(q, rev[q], e[q])
    BY DEF ScriptsIn
  <1>2. /\ Decoded(rev[q].items) \in Seq(Range(Decoded(rev[q].items)))
        /\ Carries(Decoded(rev[q].items), Decoded(d[q].items))
        /\ Carries(Decoded(rev[q].items), Decoded(e[q].items))
    BY <1>1 DEF LeafCarries
  <1> QED
    BY <1>2, CarriedAgree

-----------------------------------------------------------------------------
(* The documents in the store, in the map and under way.                   *)

\* A document as a client sends it.
Sent(d) == Clean(Restore(d)) /\ TemplateIn(Restore(d))

\* The rows a reload has yet to put into the map are rows it has read.
Todo(r) == r.todo \subseteq Names /\ (r.pc = "rows" => \A n \in r.todo : r.list[n] # None)

(***************************************************************************)
(* What a process holds: maps and rows of clean documents, the document it *)
(* was sent, and for an update a revision that carries the scripts of the  *)
(* row its client read and, once that is checked, of the row that is there.*)
(***************************************************************************)
ProcOK(r) ==
    /\ MapOK(r.saved) /\ Todo(r)
    /\ r.pc \in {"validate", "global", "check", "write"} => r.name \in Names
    /\ \A n \in Names : RowOK(r.list[n])
    /\ r.pc = "validate" => Sent(r.doc)
    /\ r.pc \in {"global", "check", "write"} => RowOK(r.doc)
    /\ r.op = "update" /\ r.pc \in {"validate", "check", "write"} =>
         ScriptsIn(r.want, Restore(r.base))
    /\ r.op = "update" /\ r.pc = "write" => ScriptsIn(r.want, Restore(r.seen))

DocInv ==
    /\ DOMAIN files = Names /\ StoredOK /\ MapOK(cache)
    /\ \A p \in Procs : ProcOK(proc[p])

LEMMA NoMapOK == MapOK(NoMap) /\ \A n \in Names : RowOK(NoRows[n])
  BY DEF NoMap, NoRows, MapOK, KnownTemplates, CleanMap, RowOK

LEMMA FreeOK ==
    ASSUME NEW r, r.saved = NoMap, r.list = NoRows, r.todo = {},
           r.pc \notin {"validate", "global", "check", "write"}
    PROVE  ProcOK(r)
  BY NoMapOK DEF ProcOK, Todo

LEMMA ResolvedOK ==
    ASSUME NoneIsNoEntry, NEW m, MapOK(m), Resolvable(m)
    PROVE  MapOK(Resolved(m))
  <1> DEFINE c == Resolved(m)
  <1>1. ASSUME NEW k \in Key, c[k] # None
        PROVE  Clean(c[k].node) /\ c[k].tmpl \in Names \union {None}
    <2>1. m[k] # None /\ c[k] = Resolution(m[k].tmpl, m[k].node, Merged(m, k))
      BY <1>1 DEF Resolved
    <2>2. c[k].node = Merged(m, k) /\ c[k].tmpl = m[k].tmpl
      BY <2>1 DEF Resolution
    <2>3. Merged(m, k) # None
      BY <2>1 DEF Resolvable
    <2>4. Clean(Merged(m, k))
      BY <2>3, MergedClean DEF MapOK
    <2> QED
      BY <2>1, <2>2, <2>4 DEF MapOK, KnownTemplates
  <1> HIDE DEF c
  <1>2. MapOK(c)
    BY <1>1 DEF MapOK, KnownTemplates, CleanMap
  <1> QED
    BY <1>2 DEF c

\* One entry put into the map.
LEMMA EntryAdded ==
    ASSUME NoneIsNoEntry, NEW m, DOMAIN m = Key, MapOK(m), NEW k \in Key,
           NEW d, Clean(d), TemplateIn(d)
    PROVE  MapOK([m EXCEPT ![k] = Raw(d)])
  <1>1. Raw(d).node = d /\ Raw(d).tmpl \in Names \union {None}
    BY RawParts DEF TemplateIn
  <1> QED
    BY <1>1 DEF MapOK, KnownTemplates, CleanMap

LEMMA DocsSent ==
    ASSUME NEW d \in Docs
    PROVE  Sent(d)
  <1>1. IsDoc(d) /\ TemplateIn(Restore(d)) /\ (Tidy => OnceNamed(d))
    BY StoreConstants DEF Tidy
  <1> QED
    BY <1>1, RowClean DEF Sent

LEMMA InitDocs ==
    ASSUME NoneIsNoEntry, Init
    PROVE  DocInv
  <1>1. ASSUME NEW n \in Names PROVE FileOK(Files0[n]) /\ RowOK(Rows0[n])
    <2>1. ASSUME Files0[n] # None PROVE FileOK(Files0[n])
      <3>1. IsDoc(Files0[n]) /\ TemplateIn(Files0[n])
        BY <2>1, StoreConstants
      <3>2. Tidy => OnceNamed(Files0[n]) /\ Tagged(Files0[n])
        BY <2>1 DEF Tidy
      <3> QED
        BY <3>1, <3>2, FileClean DEF FileOK
    <2>2. ASSUME Rows0[n] # None PROVE RowOK(Rows0[n])
      <3>1. IsDoc(Rows0[n]) /\ TemplateIn(Restore(Rows0[n]))
        BY <2>2, StoreConstants
      <3>2. Tidy => OnceNamed(Rows0[n])
        BY <2>2 DEF Tidy
      <3> QED
        BY <3>1, <3>2, RowClean DEF RowOK
    <2> QED
      BY <2>1, <2>2 DEF FileOK, RowOK
  <1>2. StoredOK
    BY <1>1 DEF StoredOK, Init
  <1>3. MapOK(AllRaw)
    BY <1>2, AllRawClean DEF MapOK, KnownTemplates, CleanMap
  <1>4. MapOK(cache)
    BY <1>3, ResolvedOK DEF Init, Loads
  <1>5. ProcOK(Free)
    BY FreeOK DEF Free
  <1>6. \A p \in Procs : ProcOK(proc[p])
    BY <1>5 DEF Init
  <1>7. DOMAIN files = Names
    BY StoreConstants DEF Init
  <1> QED
    BY <1>2, <1>4, <1>6, <1>7 DEF DocInv

\* A step of one process.
Steps(p, r) == Set(p, r) /\ DOMAIN r = Fields /\ DOMAIN r.saved = Key /\ ProcOK(r)

LEMMA StepDocs ==
    ASSUME Shaped, DocInv, NEW p \in Procs, \E r : Steps(p, r),
           MapOK(cache'), UNCHANGED files, \A n \in Names : RowOK(rows'[n])
    PROVE  DocInv'
  <1>1. PICK r : Steps(p, r)
    OBVIOUS
  <1>2. proc'[p] = r /\ \A q \in Procs : q # p => proc'[q] = proc[q]
    BY <1>1, SetShape DEF Steps
  <1>3. \A q \in Procs : ProcOK(proc'[q])
    BY <1>1, <1>2 DEF Steps, DocInv
  <1>4. StoredOK' /\ DOMAIN files' = Names
    BY DEF StoredOK, DocInv
  <1> QED
    BY <1>3, <1>4 DEF DocInv, ProcOK, MapOK, KnownTemplates, CleanMap, ScriptsIn, Sent, RowOK, TemplateIn

LEMMA EndSteps ==
    ASSUME NEW p \in Procs, NEW res, End(p, res)
    PROVE  \E r : Steps(p, r)
  <1> DEFINE r == EndRecord(p, res)
  <1>1. /\ DOMAIN r = Fields /\ r.saved = NoMap /\ r.list = NoRows /\ r.pc = "idle" /\ r.todo = {}
    BY DEF EndRecord, Free, Fields
  <1>2. Set(p, r)
    BY Zenon DEF End, EndRecord
  <1> HIDE DEF r
  <1>3. ProcOK(r) /\ DOMAIN r.saved = Key
    BY <1>1, FreeOK DEF NoMap
  <1> QED
    BY <1>1, <1>2, <1>3, Zenon DEF Steps

LEMMA GotoSteps ==
    ASSUME Shaped, DocInv, NEW p \in Procs, NEW l, Goto(p, l),
           l \notin {"validate", "global", "check", "write", "rows"}
    PROVE  \E r : Steps(p, r)
  <1> DEFINE r == [proc[p] EXCEPT !.pc = l]
  <1>1. /\ DOMAIN r = Fields /\ r.pc = l /\ r.saved = proc[p].saved /\ r.list = proc[p].list
        /\ r.todo = proc[p].todo
    BY DEF Shaped, Fields
  <1>2. Set(p, r)
    BY Zenon DEF Goto
  <1> HIDE DEF r
  <1>3. ProcOK(proc[p]) /\ DOMAIN proc[p].saved = Key
    BY DEF DocInv, Shaped
  <1>4. ProcOK(r) /\ DOMAIN r.saved = Key
    BY <1>1, <1>3 DEF ProcOK, Todo
  <1> QED
    BY <1>1, <1>2, <1>4, Zenon DEF Steps

\* A step that changes neither files, nor rows, nor the map.
LEMMA StepAlone ==
    ASSUME Shaped, DocInv, NEW p \in Procs, \E r : Steps(p, r), UNCHANGED <<store, cache>>
    PROVE  DocInv'
  <1>1. MapOK(cache') /\ UNCHANGED files /\ \A n \in Names : RowOK(rows'[n])
    BY DEF DocInv, StoredOK, store
  <1> QED
    BY <1>1, StepDocs

\* A step that changes the map.
LEMMA StepMap ==
    ASSUME Shaped, DocInv, NEW p \in Procs, \E r : Steps(p, r), MapOK(cache'), UNCHANGED store
    PROVE  DocInv'
  <1>1. UNCHANGED files /\ \A n \in Names : RowOK(rows'[n])
    BY DEF DocInv, StoredOK, store
  <1> QED
    BY <1>1, StepDocs

\* What a reload changes of its process leaves the process sound.
LEMMA ReloadOn ==
    ASSUME Shaped, DocInv, NEW p \in Procs, NEW r, Set(p, r), DOMAIN r = Fields,
           r.saved \in {cache, proc[p].saved}, r.list \in {rows, proc[p].list},
           Todo(r), r.pc \notin {"validate", "global", "check", "write"}
    PROVE  \E s : Steps(p, s)
  <1>1. /\ MapOK(proc[p].saved) /\ DOMAIN proc[p].saved = Key
        /\ \A n \in Names : RowOK(proc[p].list[n])
    BY DEF DocInv, ProcOK, Shaped
  <1>2. MapOK(cache) /\ DOMAIN cache = Key /\ \A n \in Names : RowOK(rows[n])
    BY DEF DocInv, StoredOK, Shaped
  <1>3. MapOK(r.saved) /\ DOMAIN r.saved = Key /\ \A n \in Names : RowOK(r.list[n])
    <2>1. MapOK(r.saved) /\ DOMAIN r.saved = Key
      BY <1>1, <1>2, Zenon
    <2>2. \A n \in Names : RowOK(r.list[n])
      BY <1>1, <1>2, Zenon
    <2> QED
      BY <2>1, <2>2
  <1>4. ProcOK(r)
    BY <1>3 DEF ProcOK
  <1> QED
    BY <1>3, <1>4, Zenon DEF Steps

LEMMA BeginDocs ==
    ASSUME Shaped, DocInv, NEW p \in Procs, Begin(p)
    PROVE  DocInv'
  <1> DEFINE r == [proc[p] EXCEPT !.pc = "files", !.saved = cache, !.todo = Names]
  <1>1. DOMAIN r = Fields /\ r.saved = cache /\ r.list = proc[p].list /\ r.pc = "files" /\ r.todo = Names
    BY DEF Shaped, Fields
  <1>2. Set(p, r) /\ cache' = NoMap /\ UNCHANGED store
    BY Zenon DEF Begin
  <1> HIDE DEF r
  <1>3. \E s : Steps(p, s)
    BY <1>1, <1>2, ReloadOn DEF Todo
  <1> QED
    BY <1>2, <1>3, NoMapOK, StepMap

LEMMA LoadFileDocs ==
    ASSUME NoneIsNoEntry, Shaped, DocInv, NEW p \in Procs, LoadFile(p)
    PROVE  DocInv'
  <1>0. UNCHANGED store
    BY DEF LoadFile
  <1>1. PICK n \in proc[p].todo :
          \/ Goto(p, "undo") /\ UNCHANGED cache
          \/ /\ cache' = IF files[n] = None THEN cache ELSE [cache EXCEPT ![Glob(n)] = Raw(files[n])]
             /\ Set(p, [proc[p] EXCEPT !.todo = @ \ {n},
                                       !.pc = IF proc[p].todo = {n} THEN "list" ELSE "files"])
    BY Zenon DEF LoadFile
  <1>2. CASE Goto(p, "undo") /\ UNCHANGED cache
    BY <1>0, <1>2, GotoSteps, StepAlone
  <1>3. CASE /\ cache' = IF files[n] = None THEN cache ELSE [cache EXCEPT ![Glob(n)] = Raw(files[n])]
             /\ Set(p, [proc[p] EXCEPT !.todo = @ \ {n},
                                       !.pc = IF proc[p].todo = {n} THEN "list" ELSE "files"])
    <2> DEFINE r == [proc[p] EXCEPT !.todo = @ \ {n},
                                    !.pc = IF proc[p].todo = {n} THEN "list" ELSE "files"]
    <2>1. /\ DOMAIN r = Fields /\ r.saved = proc[p].saved /\ r.list = proc[p].list
          /\ r.pc \in {"list", "files"} /\ r.todo = proc[p].todo \ {n}
      BY DEF Shaped, Fields
    <2>2. Set(p, r)
      BY <1>3
    <2> HIDE DEF r
    <2>3. proc[p].todo \subseteq Names
      BY DEF DocInv, ProcOK, Todo
    <2>4. Todo(r)
      BY <2>1, <2>3 DEF Todo
    <2>5. \E s : Steps(p, s)
      BY <2>1, <2>2, <2>4, ReloadOn
    <2>6. MapOK(cache')
      <3>1. CASE files[n] = None
        BY <1>3, <3>1 DEF DocInv
      <3>2. CASE files[n] # None
        <4>1. n \in Names /\ Glob(n) \in Key
          BY <2>3, KeyTypes
        <4>2. Clean(files[n]) /\ TemplateIn(files[n])
          BY <3>2, <4>1 DEF DocInv, StoredOK, FileOK
        <4>3. DOMAIN cache = Key /\ MapOK(cache)
          BY DEF Shaped, DocInv
        <4>4. MapOK([cache EXCEPT ![Glob(n)] = Raw(files[n])])
          BY <4>1, <4>2, <4>3, EntryAdded
        <4>5. cache' = [cache EXCEPT ![Glob(n)] = Raw(files[n])]
          BY <1>3, <3>2
        <4> QED
          BY <4>4, <4>5
      <3> QED
        BY <3>1, <3>2
    <2> QED
      BY <1>0, <2>5, <2>6, StepMap
  <1> QED
    BY <1>1, <1>2, <1>3

LEMMA ListRowsDocs ==
    ASSUME Shaped, DocInv, NEW p \in Procs, ListRows(p)
    PROVE  DocInv'
  <1> DEFINE there == {n \in Names : rows[n] # None}
             r == [proc[p] EXCEPT !.list = rows, !.todo = there,
                                  !.pc = IF there = {} THEN "resolve" ELSE "rows"]
  <1>1. /\ DOMAIN r = Fields /\ r.saved = proc[p].saved /\ r.list = rows
        /\ r.pc \in {"resolve", "rows"} /\ r.todo = there
    BY DEF Shaped, Fields
  <1>2. Set(p, r) /\ UNCHANGED <<store, cache>>
    BY Zenon DEF ListRows
  <1> HIDE DEF r
  <1>3. Todo(r)
    BY <1>1 DEF Todo
  <1>4. \E s : Steps(p, s)
    BY <1>1, <1>2, <1>3, ReloadOn
  <1> QED
    BY <1>2, <1>4, StepAlone

LEMMA LoadRowDocs ==
    ASSUME NoneIsNoEntry, Shaped, DocInv, NEW p \in Procs, LoadRow(p)
    PROVE  DocInv'
  <1>0. UNCHANGED store /\ proc[p].pc = "rows"
    BY DEF LoadRow
  <1>1. PICK n \in proc[p].todo :
          \/ Goto(p, "undo") /\ UNCHANGED cache
          \/ /\ cache' = [cache EXCEPT ![OrgKey(n)] = Raw(Restore(proc[p].list[n]))]
             /\ Set(p, [proc[p] EXCEPT !.todo = @ \ {n},
                                       !.pc = IF proc[p].todo = {n} THEN "resolve" ELSE "rows"])
    BY Zenon DEF LoadRow
  <1>2. CASE Goto(p, "undo") /\ UNCHANGED cache
    BY <1>0, <1>2, GotoSteps, StepAlone
  <1>3. CASE /\ cache' = [cache EXCEPT ![OrgKey(n)] = Raw(Restore(proc[p].list[n]))]
             /\ Set(p, [proc[p] EXCEPT !.todo = @ \ {n},
                                       !.pc = IF proc[p].todo = {n} THEN "resolve" ELSE "rows"])
    <2> DEFINE r == [proc[p] EXCEPT !.todo = @ \ {n},
                                    !.pc = IF proc[p].todo = {n} THEN "resolve" ELSE "rows"]
    <2>1. /\ DOMAIN r = Fields /\ r.saved = proc[p].saved /\ r.list = proc[p].list
          /\ r.pc \in {"resolve", "rows"} /\ r.todo = proc[p].todo \ {n}
      BY DEF Shaped, Fields
    <2>2. Set(p, r)
      BY <1>3
    <2> HIDE DEF r
    <2>3. proc[p].todo \subseteq Names /\ \A x \in proc[p].todo : proc[p].list[x] # None
      BY <1>0 DEF DocInv, ProcOK, Todo
    <2>4. Todo(r)
      BY <2>1, <2>3 DEF Todo
    <2>5. \E s : Steps(p, s)
      BY <2>1, <2>2, <2>4, ReloadOn
    <2>6. n \in Names /\ OrgKey(n) \in Key
      BY <2>3, KeyTypes
    <2>7. Clean(Restore(proc[p].list[n])) /\ TemplateIn(Restore(proc[p].list[n]))
      BY <2>3, <2>6 DEF DocInv, ProcOK, RowOK
    <2>8. DOMAIN cache = Key /\ MapOK(cache)
      BY DEF Shaped, DocInv
    <2>9. MapOK(cache')
      BY <1>3, <2>6, <2>7, <2>8, EntryAdded
    <2> QED
      BY <1>0, <2>5, <2>9, StepMap
  <1> QED
    BY <1>1, <1>2, <1>3

LEMMA ResolveDocs ==
    ASSUME NoneIsNoEntry, Shaped, DocInv, NEW p \in Procs, Resolve(p)
    PROVE  DocInv'
  <1>1. UNCHANGED store /\ (Goto(p, "verify") \/ Goto(p, "undo"))
    BY DEF Resolve
  <1>2. \E r : Steps(p, r)
    BY <1>1, GotoSteps
  <1>3. MapOK(cache')
    BY ResolvedOK DEF Resolve, DocInv
  <1> QED
    BY <1>1, <1>2, <1>3, StepMap

LEMMA EndDocs ==
    ASSUME Shaped, DocInv, NEW p \in Procs, Verify(p) \/ Undo(p)
    PROVE  DocInv'
  <1>1. CASE Verify(p)
    <2>1. UNCHANGED <<store, cache>> /\ (End(p, "ok") \/ Goto(p, "undo"))
      BY <1>1 DEF Verify
    <2> QED
      BY <2>1, EndSteps, GotoSteps, StepAlone
  <1>2. CASE Undo(p)
    <2>1. UNCHANGED store /\ cache' = proc[p].saved /\ End(p, "stale")
      BY <1>2 DEF Undo
    <2>2. MapOK(cache')
      BY <2>1 DEF DocInv, ProcOK
    <2> QED
      BY <2>1, <2>2, EndSteps, StepMap
  <1> QED
    BY <1>1, <1>2

\* A request or a reload that begins, or a provision that ends.
LEMMA FreshSteps ==
    ASSUME NEW p \in Procs, NEW r, Set(p, r), DOMAIN r = Fields,
           r.saved = NoMap, r.list = NoRows, r.todo = {},
           r.pc = "validate" => Sent(r.doc),
           r.pc = "write" => r.doc = None /\ r.op # "update",
           r.pc \notin {"global", "check"}, r.pc \in {"validate", "write"} => r.name \in Names,
           r.op = "update" /\ r.pc = "validate" => ScriptsIn(r.want, Restore(r.base))
    PROVE  \E s : Steps(p, s)
  <1>1. DOMAIN r.saved = Key /\ MapOK(r.saved) /\ \A n \in Names : RowOK(r.list[n])
    BY NoMapOK DEF NoMap
  <1>2. Todo(r) /\ RowOK(None)
    BY DEF Todo, RowOK
  <1>3. ProcOK(r)
    BY <1>1, <1>2 DEF ProcOK
  <1> QED
    BY <1>1, <1>3, Zenon DEF Steps

LEMMA AskDocs ==
    ASSUME NoneIsNoEntry, Shaped, DocInv, NEW h \in Procs, Ask(h)
    PROVE  DocInv'
  <1>0. UNCHANGED <<store, cache>>
    BY DEF Ask
  <1>1. PICK op \in Operations, n \in Names :
           \/ /\ op \in {"delete", "explicit", "default"}
              /\ Set(h, [Free EXCEPT !.pc = IF op = "delete" THEN "write" ELSE "read",
                                     !.op = op, !.name = n])
           \/ /\ op \in {"create", "replace"}
              /\ \E d \in Docs : Set(h, [Free EXCEPT !.pc = "validate", !.op = op, !.name = n, !.doc = d])
           \/ /\ rows[n] # None /\ Build(rows[n]) # None
              /\ \E d \in Docs :
                   Set(h, [Free EXCEPT !.pc = "validate", !.op = op, !.name = n, !.doc = d,
                                       !.base = rows[n], !.want = Build(rows[n]).rev])
           \/ op = "implicit" /\ Set(h, [Free EXCEPT !.pc = "pick", !.op = op])
           \/ /\ op = "custom"
              /\ \E d \in Repos : Set(h, [Free EXCEPT !.pc = "read", !.op = op, !.doc = d,
                                                      !.name = Template(d)])
    BY Zenon DEF Ask
  <1>2. CASE /\ op \in {"delete", "explicit", "default"}
             /\ Set(h, [Free EXCEPT !.pc = IF op = "delete" THEN "write" ELSE "read",
                                    !.op = op, !.name = n])
    <2> DEFINE r == [Free EXCEPT !.pc = IF op = "delete" THEN "write" ELSE "read",
                                !.op = op, !.name = n]
    <2>1. /\ DOMAIN r = Fields /\ r.saved = NoMap /\ r.list = NoRows /\ r.todo = {}
          /\ r.pc \in {"write", "read"} /\ r.doc = None /\ r.op # "update" /\ r.name = n
      BY <1>2 DEF Free, Fields
    <2>2. Set(h, r)
      BY <1>2
    <2> HIDE DEF r
    <2> QED
      BY <1>0, <2>1, <2>2, FreshSteps, StepAlone
  <1>3. CASE /\ op \in {"create", "replace"}
             /\ \E d \in Docs : Set(h, [Free EXCEPT !.pc = "validate", !.op = op, !.name = n, !.doc = d])
    <2>0. PICK d \in Docs : Set(h, [Free EXCEPT !.pc = "validate", !.op = op, !.name = n, !.doc = d])
      BY <1>3
    <2> DEFINE r == [Free EXCEPT !.pc = "validate", !.op = op, !.name = n, !.doc = d]
    <2>1. /\ DOMAIN r = Fields /\ r.saved = NoMap /\ r.list = NoRows /\ r.todo = {}
          /\ r.pc = "validate" /\ r.doc = d /\ r.op # "update" /\ r.name = n
      BY <1>3 DEF Free, Fields
    <2>2. Set(h, r) /\ Sent(d)
      BY <2>0, DocsSent
    <2> HIDE DEF r
    <2> QED
      BY <1>0, <2>1, <2>2, FreshSteps, StepAlone
  <1>4. CASE /\ rows[n] # None /\ Build(rows[n]) # None
             /\ \E d \in Docs :
                  Set(h, [Free EXCEPT !.pc = "validate", !.op = op, !.name = n, !.doc = d,
                                      !.base = rows[n], !.want = Build(rows[n]).rev])
    <2>0. PICK d \in Docs :
            Set(h, [Free EXCEPT !.pc = "validate", !.op = op, !.name = n, !.doc = d,
                                !.base = rows[n], !.want = Build(rows[n]).rev])
      BY <1>4
    <2> DEFINE r == [Free EXCEPT !.pc = "validate", !.op = op, !.name = n, !.doc = d,
                                 !.base = rows[n], !.want = Build(rows[n]).rev]
    <2>1. /\ DOMAIN r = Fields /\ r.saved = NoMap /\ r.list = NoRows /\ r.todo = {}
          /\ r.pc = "validate" /\ r.doc = d /\ r.base = rows[n] /\ r.want = Build(rows[n]).rev
          /\ r.name = n
      BY DEF Free, Fields
    <2>2. Set(h, r) /\ Sent(d)
      BY <2>0, DocsSent
    <2>3. Clean(Restore(rows[n])) /\ TemplateIn(Restore(rows[n]))
      BY <1>4 DEF DocInv, StoredOK, RowOK
    <2>4. ScriptsIn(Build(rows[n]).rev, Restore(rows[n]))
      BY <1>4, <2>3, BuildCarries DEF DocInv
    <2> HIDE DEF r
    <2> QED
      BY <1>0, <2>1, <2>2, <2>4, FreshSteps, StepAlone
  <1>5. CASE op = "implicit" /\ Set(h, [Free EXCEPT !.pc = "pick", !.op = op])
    <2> DEFINE r == [Free EXCEPT !.pc = "pick", !.op = op]
    <2>1. /\ DOMAIN r = Fields /\ r.saved = NoMap /\ r.list = NoRows /\ r.todo = {}
          /\ r.pc = "pick"
      BY DEF Free, Fields
    <2>2. Set(h, r)
      BY <1>5
    <2> HIDE DEF r
    <2> QED
      BY <1>0, <2>1, <2>2, FreshSteps, StepAlone
  <1>6. CASE /\ op = "custom"
             /\ \E d \in Repos : Set(h, [Free EXCEPT !.pc = "read", !.op = op, !.doc = d,
                                                     !.name = Template(d)])
    <2>0. PICK d \in Repos : Set(h, [Free EXCEPT !.pc = "read", !.op = op, !.doc = d,
                                                 !.name = Template(d)])
      BY <1>6
    <2> DEFINE r == [Free EXCEPT !.pc = "read", !.op = op, !.doc = d, !.name = Template(d)]
    <2>1. /\ DOMAIN r = Fields /\ r.saved = NoMap /\ r.list = NoRows /\ r.todo = {}
          /\ r.pc = "read"
      BY DEF Free, Fields
    <2>2. Set(h, r)
      BY <2>0
    <2> HIDE DEF r
    <2> QED
      BY <1>0, <2>1, <2>2, FreshSteps, StepAlone
  <1> QED
    BY <1>1, <1>2, <1>3, <1>4, <1>5, <1>6, Zenon

\* A request that keeps what it found so far.
Goes(h, r) ==
    /\ Set(h, r) /\ DOMAIN r = Fields
    /\ r.saved = proc[h].saved /\ r.list = proc[h].list /\ r.todo = proc[h].todo
    /\ r.pc # "rows"

LEMMA GoesSteps ==
    ASSUME Shaped, DocInv, NEW h \in Procs, NEW r, Goes(h, r),
           r.pc # "validate", r.name \in Names, r.pc \in {"global", "check", "write"} => RowOK(r.doc),
           r.op = "update" /\ r.pc \in {"check", "write"} => ScriptsIn(r.want, Restore(r.base)),
           r.op = "update" /\ r.pc = "write" => ScriptsIn(r.want, Restore(r.seen))
    PROVE  \E s : Steps(h, s)
  <1>1. /\ MapOK(proc[h].saved) /\ DOMAIN proc[h].saved = Key /\ Todo(proc[h])
        /\ \A n \in Names : RowOK(proc[h].list[n])
    BY DEF DocInv, ProcOK, Shaped
  <1>2. MapOK(r.saved) /\ DOMAIN r.saved = Key /\ \A n \in Names : RowOK(r.list[n])
    BY <1>1, Zenon DEF Goes
  <1>3. Todo(r)
    BY <1>1 DEF Goes, Todo
  <1>4. ProcOK(r)
    BY <1>2, <1>3 DEF ProcOK
  <1> QED
    BY <1>2, <1>4, Zenon DEF Steps, Goes

LEMMA ValidateDocs ==
    ASSUME Shaped, DocInv, NEW h \in Procs, Validate(h)
    PROVE  DocInv'
  <1>0. UNCHANGED <<store, cache>> /\ proc[h].pc = "validate"
    BY DEF Validate
  <1>1. CASE End(h, "refused")
    BY <1>0, <1>1, EndSteps, StepAlone
  <1>2. CASE ~End(h, "refused")
    <2> DEFINE l == CASE proc[h].op = "create" -> "global"
                      [] proc[h].op = "update" -> "check"
                      [] OTHER                 -> "write"
               r == [proc[h] EXCEPT !.doc = Restore(@), !.pc = l]
    <2>1. Set(h, r)
      BY <1>2 DEF Validate
    <2>2. l \in {"global", "check", "write"} /\ (proc[h].op = "update" => l = "check")
      BY Zenon
    <2> HIDE DEF l
    <2>3. /\ DOMAIN r = Fields /\ r.saved = proc[h].saved /\ r.list = proc[h].list
          /\ r.todo = proc[h].todo /\ r.pc = l /\ r.doc = Restore(proc[h].doc)
          /\ r.op = proc[h].op /\ r.want = proc[h].want /\ r.base = proc[h].base
          /\ r.name = proc[h].name
      BY DEF Shaped, Fields
    <2> HIDE DEF r
    <2>4. ProcOK(proc[h])
      BY DEF DocInv
    <2>5. RowOK(r.doc) /\ r.name \in Names
      BY <1>0, <2>3, <2>4, RestoreTwice DEF ProcOK, Sent, RowOK
    <2>6. r.op = "update" => ScriptsIn(r.want, Restore(r.base))
      BY <1>0, <2>3, <2>4 DEF ProcOK
    <2>7. Goes(h, r)
      BY <2>1, <2>2, <2>3 DEF Goes
    <2>8. r.pc # "validate" /\ (r.op = "update" => r.pc # "write")
      BY <2>2, <2>3
    <2>9. \E s : Steps(h, s)
      BY <2>5, <2>6, <2>7, <2>8, GoesSteps
    <2> QED
      BY <1>0, <2>9, StepAlone
  <1> QED
    BY <1>1, <1>2

LEMMA CheckGlobalDocs ==
    ASSUME Shaped, RevisionInv, DocInv, NEW h \in Procs, CheckGlobal(h)
    PROVE  DocInv'
  <1>0. UNCHANGED <<store, cache>> /\ proc[h].pc = "global" /\ proc[h].op # "update"
    BY DEF CheckGlobal, RevisionInv, UpdateOK
  <1>1. CASE End(h, "refused")
    BY <1>0, <1>1, EndSteps, StepAlone
  <1>2. CASE Goto(h, "write")
    <2> DEFINE r == [proc[h] EXCEPT !.pc = "write"]
    <2>1. /\ DOMAIN r = Fields /\ r.saved = proc[h].saved /\ r.list = proc[h].list
          /\ r.todo = proc[h].todo /\ r.pc = "write" /\ r.doc = proc[h].doc /\ r.op = proc[h].op
          /\ r.name = proc[h].name
      BY DEF Shaped, Fields
    <2>2. Set(h, r)
      BY <1>2 DEF Goto
    <2> HIDE DEF r
    <2>3. RowOK(r.doc) /\ r.name \in Names
      BY <1>0, <2>1 DEF DocInv, ProcOK
    <2>4. Goes(h, r)
      BY <2>1, <2>2 DEF Goes
    <2>5. \E s : Steps(h, s)
      BY <1>0, <2>1, <2>3, <2>4, GoesSteps
    <2> QED
      BY <1>0, <2>5, StepAlone
  <1> QED
    BY <1>1, <1>2 DEF CheckGlobal

LEMMA CheckRevisionDocs ==
    ASSUME NoneIsNoEntry, Shaped, RevisionInv, DocInv, NEW h \in Procs, CheckRevision(h)
    PROVE  DocInv'
  <1>0. UNCHANGED <<store, cache>> /\ proc[h].pc = "check"
    BY DEF CheckRevision
  <1>1. CASE End(h, "refused")
    BY <1>0, <1>1, EndSteps, StepAlone
  <1>2. CASE ~End(h, "refused")
    <2> DEFINE d == rows[proc[h].name]
               r == [proc[h] EXCEPT !.seen = d, !.pc = "write"]
    <2>1. /\ d # None /\ Build(d) # None /\ Build(d).rev = proc[h].want
          /\ Set(h, r)
      BY <1>2 DEF CheckRevision
    <2>2. /\ DOMAIN r = Fields /\ r.saved = proc[h].saved /\ r.list = proc[h].list
          /\ r.todo = proc[h].todo /\ r.pc = "write" /\ r.doc = proc[h].doc /\ r.op = proc[h].op
          /\ r.name = proc[h].name
          /\ r.want = proc[h].want /\ r.base = proc[h].base /\ r.seen = d
      BY DEF Shaped, Fields
    <2> HIDE DEF r
    <2>3. ProcOK(proc[h])
      BY DEF DocInv
    <2>4. RowOK(r.doc) /\ r.name \in Names /\ (r.op = "update" => ScriptsIn(r.want, Restore(r.base)))
      BY <1>0, <2>2, <2>3 DEF ProcOK
    <2>5. Goes(h, r)
      BY <2>1, <2>2 DEF Goes
    <2>6. ScriptsIn(r.want, Restore(r.seen))
      <3>1. proc[h].name \in Names
        BY <2>2, <2>4
      <3>2. Clean(Restore(d)) /\ TemplateIn(Restore(d))
        BY <2>1, <3>1 DEF DocInv, StoredOK, RowOK
      <3>3. ScriptsIn(Build(d).rev, Restore(d))
        BY <2>1, <3>2, BuildCarries DEF DocInv
      <3> QED
        BY <2>1, <2>2, <3>3
    <2>7. \E s : Steps(h, s)
      BY <2>2, <2>4, <2>5, <2>6, GoesSteps
    <2> QED
      BY <1>0, <2>7, StepAlone
  <1> QED
    BY <1>1, <1>2

LEMMA WriteDocs ==
    ASSUME Shaped, DocInv, NEW h \in Procs, Write(h)
    PROVE  DocInv'
  <1>0. UNCHANGED <<files, cache>> /\ proc[h].pc = "write"
    BY DEF Write
  <1>1. CASE End(h, "refused") /\ UNCHANGED rows
    BY <1>0, <1>1, EndSteps, StepAlone DEF store
  <1>2. CASE rows' = [rows EXCEPT ![proc[h].name] = proc[h].doc] /\ Goto(h, "begin")
    <2>1. \E r : Steps(h, r)
      BY <1>2, GotoSteps
    <2>2. RowOK(proc[h].doc)
      BY <1>0 DEF DocInv, ProcOK
    <2>3. \A n \in Names : rows'[n] = proc[h].doc \/ rows'[n] = rows[n]
      BY <1>2 DEF Shaped
    <2>4. UNCHANGED files /\ \A n \in Names : RowOK(rows'[n])
      BY <1>0, <2>2, <2>3 DEF DocInv, StoredOK
    <2>5. MapOK(cache')
      BY <1>0 DEF DocInv
    <2> QED
      BY <2>1, <2>4, <2>5, StepDocs
  <1> QED
    BY <1>1, <1>2 DEF Write

\* The steps of a provision, which read documents.
LEMMA ProvisionDocs ==
    ASSUME Shaped, RevisionInv, DocInv, NEW h \in Procs,
           Pick(h) \/ Read(h) \/ Compose(h) \/ Stamp(h) \/ Deny(h)
    PROVE  DocInv'
  <1>1. UNCHANGED <<store, cache>>
    BY DEF Pick, Read, Compose, Stamp, Deny
  <1>2. ASSUME NEW r, Set(h, r), DOMAIN r = Fields, r.pc \in {"idle", "read", "stamp"},
               \/ r.saved = NoMap /\ r.list = NoRows /\ r.todo = {}
               \/ r.saved = proc[h].saved /\ r.list = proc[h].list /\ r.todo = proc[h].todo
        PROVE  DocInv'
    <2>1. CASE r.saved = NoMap /\ r.list = NoRows /\ r.todo = {}
      <3>1. \E s : Steps(h, s)
        BY <1>2, <2>1, FreshSteps
      <3> QED
        BY <1>1, <3>1, StepAlone
    <2>2. CASE r.saved = proc[h].saved /\ r.list = proc[h].list /\ r.todo = proc[h].todo
      <3>1. Todo(r)
        BY <1>2, <2>2 DEF DocInv, ProcOK, Todo
      <3>2. \E s : Steps(h, s)
        BY <1>2, <2>2, <3>1, ReloadOn
      <3> QED
        BY <1>1, <3>2, StepAlone
    <2> QED
      BY <1>2, <2>1, <2>2
  <1>3. ASSUME End(h, "refused") PROVE DocInv'
    BY <1>1, <1>3, EndSteps, StepAlone
  <1>4. CASE Pick(h)
    <2>1. ASSUME NEW n, Set(h, [proc[h] EXCEPT !.name = n, !.pc = "read"]) PROVE DocInv'
      <3> DEFINE r == [proc[h] EXCEPT !.name = n, !.pc = "read"]
      <3>1. /\ DOMAIN r = Fields /\ r.pc = "read" /\ r.saved = proc[h].saved
            /\ r.list = proc[h].list /\ r.todo = proc[h].todo
        BY DEF Shaped, Fields
      <3>2. Set(h, r)
        BY <2>1
      <3> HIDE DEF r
      <3> QED
        BY <1>2, <3>1, <3>2
    <2> QED
      BY <1>3, <1>4, <2>1, Zenon DEF Pick
  <1>5. CASE Read(h)
    <2>1. ASSUME NEW f, NEW g, Set(h, [proc[h] EXCEPT !.pc = "stamp", !.seen = f, !.got = g])
          PROVE  DocInv'
      <3> DEFINE r == [proc[h] EXCEPT !.pc = "stamp", !.seen = f, !.got = g]
      <3>1. /\ DOMAIN r = Fields /\ r.pc = "stamp" /\ r.saved = proc[h].saved
            /\ r.list = proc[h].list /\ r.todo = proc[h].todo
        BY DEF Shaped, Fields
      <3>2. Set(h, r)
        BY <2>1
      <3> HIDE DEF r
      <3> QED
        BY <1>2, <3>1, <3>2
    <2> QED
      BY <1>3, <1>5, <2>1, Zenon DEF Read
  <1>6. CASE Compose(h)
    <2>1. ASSUME NEW n, NEW d, NEW g, NEW s,
                 Set(h, [Free EXCEPT !.op = "custom", !.name = n, !.doc = d,
                                     !.got = g, !.stamp = s, !.result = "ok"])
          PROVE  DocInv'
      <3> DEFINE r == [Free EXCEPT !.op = "custom", !.name = n, !.doc = d,
                                   !.got = g, !.stamp = s, !.result = "ok"]
      <3>1. /\ DOMAIN r = Fields /\ r.pc = "idle" /\ r.saved = NoMap
            /\ r.list = NoRows /\ r.todo = {}
        BY DEF Free, Fields
      <3>2. Set(h, r)
        BY <2>1
      <3> HIDE DEF r
      <3> QED
        BY <1>2, <3>1, <3>2
    <2> QED
      BY <1>3, <1>6, <2>1, Zenon DEF Compose
  <1>7. CASE Stamp(h)
    <2> DEFINE n == proc[h].name
               r == [Free EXCEPT !.op = proc[h].op, !.name = n, !.got = proc[h].got,
                                 !.torn = (Lookup(n) # proc[h].seen),
                                 !.stamp = CurrentRevision(n), !.result = "ok"]
    <2>1. /\ DOMAIN r = Fields /\ r.pc = "idle" /\ r.saved = NoMap
          /\ r.list = NoRows /\ r.todo = {}
      BY DEF Free, Fields
    <2>2. Set(h, r)
      BY <1>7, Zenon DEF Stamp
    <2> HIDE DEF r
    <2> QED
      BY <1>2, <2>1, <2>2
  <1>8. CASE Deny(h)
    <2> DEFINE r == [Free EXCEPT !.op = proc[h].op, !.name = proc[h].name, !.result = "refused"]
    <2>1. /\ DOMAIN r = Fields /\ r.pc = "idle" /\ r.saved = NoMap
          /\ r.list = NoRows /\ r.todo = {}
      BY DEF Free, Fields
    <2>2. Set(h, r)
      BY <1>8 DEF Deny
    <2> HIDE DEF r
    <2> QED
      BY <1>2, <2>1, <2>2
  <1> QED
    BY <1>4, <1>5, <1>6, <1>7, <1>8

LEMMA WatchDocs ==
    ASSUME Shaped, DocInv, NEW w \in Procs, WatchReload(w)
    PROVE  DocInv'
  <1> DEFINE r == [Free EXCEPT !.pc = "begin", !.op = "watch"]
  <1>1. /\ DOMAIN r = Fields /\ r.pc = "begin" /\ r.saved = NoMap
        /\ r.list = NoRows /\ r.todo = {}
    BY DEF Free, Fields
  <1>2. Set(w, r) /\ UNCHANGED <<store, cache>>
    BY Zenon DEF WatchReload
  <1> HIDE DEF r
  <1>3. \E s : Steps(w, s)
    BY <1>1, <1>2, FreshSteps
  <1> QED
    BY <1>2, <1>3, StepAlone

LEMMA EditFileDocs ==
    ASSUME DocInv, EditFile
    PROVE  DocInv'
  <1>0. UNCHANGED <<rows, cache, proc>>
    BY DEF EditFile
  <1>1. PICK n \in Names, d \in FileDocs : files' = [files EXCEPT ![n] = d]
    BY DEF EditFile
  <1>2. FileOK(d)
    <2>1. ASSUME d # None PROVE FileOK(d)
      <3>1. IsDoc(d) /\ TemplateIn(d) /\ (Tidy => OnceNamed(d) /\ Tagged(d))
        BY <2>1, StoreConstants DEF Tidy
      <3> QED
        BY <3>1, FileClean DEF FileOK
    <2> QED
      BY <2>1 DEF FileOK
  <1>3. DOMAIN files' = Names /\ \A x \in Names : files'[x] = d \/ files'[x] = files[x]
    BY <1>1 DEF DocInv
  <1>4. StoredOK'
    BY <1>0, <1>2, <1>3 DEF DocInv, StoredOK
  <1>5. MapOK(cache)' /\ \A p \in Procs : ProcOK(proc[p])'
    BY <1>0 DEF DocInv
  <1> QED
    BY <1>3, <1>4, <1>5 DEF DocInv

LEMMA RestartDocs ==
    ASSUME NoneIsNoEntry, DocInv, Restart
    PROVE  DocInv'
  <1>1. UNCHANGED store /\ proc' = [p \in Procs |-> Free]
    BY DEF Restart
  <1>2. MapOK(AllRaw)
    BY AllRawClean DEF DocInv, MapOK, KnownTemplates, CleanMap
  <1>3. cache' = NoMap \/ (Loads /\ cache' = Resolved(AllRaw))
    BY DEF Restart
  <1>4. MapOK(cache')
    BY <1>2, <1>3, ResolvedOK, NoMapOK DEF Loads
  <1>5. ProcOK(Free)
    BY FreeOK DEF Free
  <1>6. \A p \in Procs : ProcOK(proc'[p])
    BY <1>1, <1>5
  <1>7. StoredOK' /\ DOMAIN files' = Names
    BY <1>1 DEF store, StoredOK, DocInv
  <1> QED
    BY <1>4, <1>6, <1>7 DEF DocInv

LEMMA NextDocs ==
    ASSUME NoneIsNoEntry, Inv, DocInv, [Next]_vars
    PROVE  DocInv'
  <1>1. Shaped /\ RevisionInv
    BY DEF Inv
  <1>2. ASSUME NEW p \in Procs, Reload(p) PROVE DocInv'
    BY <1>1, <1>2, BeginDocs, LoadFileDocs, ListRowsDocs, LoadRowDocs, ResolveDocs, EndDocs, Zenon
    DEF Reload
  <1>3. ASSUME NEW h \in Handlers, Request(h) PROVE DocInv'
    <2>1. h \in Procs
      BY DEF Procs
    <2> QED
      BY <1>1, <1>3, <2>1, AskDocs, ValidateDocs, CheckGlobalDocs, CheckRevisionDocs, WriteDocs,
         ProvisionDocs, Zenon DEF Request
  <1>4. ASSUME NEW w \in Watchers, WatchReload(w) PROVE DocInv'
    <2>1. w \in Procs
      BY DEF Procs
    <2> QED
      BY <1>1, <1>4, <2>1, WatchDocs
  <1>5. CASE EditFile
    BY <1>5, EditFileDocs
  <1>6. CASE Restart
    BY <1>6, RestartDocs
  <1>7. CASE Quiet \/ UNCHANGED vars
    <2>1. UNCHANGED <<files, rows, cache, proc>>
      BY <1>7 DEF Quiet, vars, store
    <2>2. StoredOK' /\ MapOK(cache)' /\ \A p \in Procs : ProcOK(proc[p])'
      BY <2>1 DEF DocInv, StoredOK
    <2> QED
      BY <2>1, <2>2 DEF DocInv
  <1> QED
    BY <1>2, <1>3, <1>4, <1>5, <1>6, <1>7, Zenon DEF Next

LEMMA DocsInvariance ==
    ASSUME NoneIsNoEntry
    PROVE  Spec => [](Inv /\ DocInv)
  <1>1. Init => Inv /\ DocInv
    BY InitInv, InitDocs
  <1>2. Inv /\ DocInv /\ [Next]_vars => (Inv /\ DocInv)'
    BY NextInv, NextDocs
  <1> QED
    BY <1>1, <1>2, PTL DEF Spec

-----------------------------------------------------------------------------
(* Theorems.                                                               *)

\* loadAndValidateBlueprints: as long as no two reloads have overlapped,
\* whenever none runs the map holds only blueprints that were merged with
\* their templates and that validateAllBlueprints accepts, whatever files,
\* rows and failures of loads came before.
THEOREM MapIsValid ==
    ASSUME NoneIsNoEntry
    PROVE  Spec => []AtRestValid
  <1>1. Inv => AtRestValid
    BY DEF Inv, MapInv, AtRestValid, Sound
  <1> QED
    BY <1>1, Invariance, PTL

\* CreateBlueprint, UpdateBlueprint and DeleteBlueprint: as long as no two
\* reloads have overlapped, a change that was answered with success and whose
\* row has not been written since is what the map holds, failed loads of other
\* requests and of the watcher in between included.
THEOREM AnswersAreCached ==
    ASSUME NoneIsNoEntry
    PROVE  Spec => []AnsweredIsCached
  <1>1. Inv => AnsweredIsCached
    <2> SUFFICES ASSUME Inv, ~clash, AtRest, NEW h \in Handlers, NEW n \in Names,
                        author[n] = h, Ended(h, "ok"), proc[h].op \notin Provisions,
                        proc[h].name = n
                 PROVE  HasRow(cache, n, rows[n])
      BY DEF AnsweredIsCached, HasRow
    <2>1. Confirmed(n)
      BY DEF Confirmed, Confirms
    <2> QED
      BY <2>1 DEF Inv, MapInv, Kept
  <1> QED
    BY <1>1, Invariance, PTL

\* MarkBlueprintOutdated: a workspace shown as up to date was provisioned from
\* what the blueprint says now, templates included, unless the blueprint
\* changed between the two lookups of its provision.  It holds through
\* overlapping reloads, failed loads and restarts.
THEOREM StampsAreTrue ==
    ASSUME NoneIsNoEntry
    PROVE  Spec => []UnmarkedIsCurrent
  <1>1. Inv => UnmarkedIsCurrent
    <2> DEFINE N(h) == proc[h].name
    <2> SUFFICES ASSUME Inv, NEW h \in Handlers, Ended(h, "ok"), Outdated(h) = FALSE,
                        ~proc[h].torn, Lookup(N(h)) # None
                 PROVE  Content(Eval(Lookup(N(h)).node)) = Content(proc[h].got)
      BY Zenon DEF UnmarkedIsCurrent
    <2> DEFINE n == proc[h].name
               found == Lookup(n)
    <2>1. None # FALSE
      BY StoreConstants
    <2>2. /\ proc[h].op \in {"explicit", "implicit"} /\ proc[h].stamp # None
          /\ CurrentRevision(n) # None /\ CurrentRevision(n) = proc[h].stamp
      BY <2>1 DEF Outdated
    <2>3. n \in Names /\ Content(proc[h].got) = Eval(proc[h].stamp)
      BY <2>2 DEF Inv, RevisionInv, StampOK, Ended, Procs
    <2>4. CurrentRevision(n) = found.rev
      BY DEF CurrentRevision, Current, Lookup
    <2>5. IsRevised(found)
      BY <2>3, LookupRevised DEF Inv, RevisionInv
    <2>6. found.rev = Content(found.node)
      BY <2>2, <2>4, <2>5 DEF IsRevised
    <2> QED
      BY <2>2, <2>3, <2>4, <2>6, ContentOfEval
  <1> QED
    BY <1>1, Invariance, PTL

\* UpdateBlueprint, lookups of the two revisions and comparison of the yaml
\* together: whatever requests, reloads, edits of templates and restarts come
\* between the client's read and the write, an update with an expected
\* revision overwrites no field and no script that was written in between.
THEOREM UpdatesLoseNothing ==
    ASSUME NoneIsNoEntry
    PROVE  Spec => NoLostUpdate
  <1>1. ASSUME Inv, DocInv, [Next]_vars, NEW h \in Handlers,
               proc[h].op = "update", proc[h].pc = "write", proc'[h].pc = "begin"
        PROVE  /\ rows[proc[h].name] # None
               /\ SameBut(Restore(rows[proc[h].name]), Restore(proc[h].base))
    <2>1. Write(h)
      BY <1>1, OnlyWrite DEF Inv
    <2>2. /\ proc[h].seen # None /\ Covers(proc[h].want, Restore(proc[h].seen))
          /\ Covers(proc[h].want, Restore(proc[h].base))
      BY <1>1 DEF Inv, RevisionInv, UpdateOK, Procs
    <2>3. ~End(h, "refused")
      <3>1. ASSUME End(h, "refused") PROVE FALSE
        <4>1. Beside(h, EndRecord(h, "refused"))
          BY <1>1, <3>1, Refused DEF Inv, Procs, ReloadSteps
        <4>2. EndRecord(h, "refused").pc = "idle"
          BY <1>1, EndGood DEF Inv, Procs
        <4>3. proc'[h] = EndRecord(h, "refused")
          BY <1>1, <4>1, SetShape DEF Inv, Procs, Beside, Good
        <4> QED
          BY <1>1, <4>2, <4>3
      <3> QED
        BY <3>1
    <2>4. rows[proc[h].name] = proc[h].seen
      BY <2>1, <2>2, <2>3, Zenon DEF Write
    <2> DEFINE d == Restore(proc[h].seen)
               e == Restore(proc[h].base)
    <2>5. SameFields(d, e)
      BY <2>2, CoversBoth
    <2>6. ScriptsIn(proc[h].want, d) /\ ScriptsIn(proc[h].want, e)
      BY <1>1 DEF DocInv, ProcOK, Procs
    <2> HIDE DEF d, e
    <2>7. SameBut(d, e)
      BY <2>5, <2>6, ScriptsAgree DEF SameBut
    <2> QED
      BY <2>2, <2>4, <2>7 DEF d, e
  <1>2. Inv /\ DocInv /\ [Next]_vars =>
          [\A h \in Handlers :
             proc[h].op = "update" /\ proc[h].pc = "write" /\ proc'[h].pc = "begin" =>
                 /\ rows[proc[h].name] # None
                 /\ SameBut(Restore(rows[proc[h].name]), Restore(proc[h].base))]_vars
    BY <1>1
  <1> QED
    BY <1>2, DocsInvariance, PTL DEF Spec, NoLostUpdate

\* validateOrgBlueprintYaml and resolveInheritance, in every state in which the
\* map is what files and rows say: what is accepted under a name a load with
\* that row resolves and validates, and what a load resolves and validates is
\* accepted if no number in it is a fraction, unless the document's templates
\* lead back to itself.  Merging a document with the resolved entry of its
\* template is what resolving the whole chain comes to.
THEOREM AcceptedIsLoadable ==
    ASSUME NoneIsNoEntry, NoneIsNoDocument
    PROVE  Spec => []AcceptedLoads
  <1>1. Inv /\ DocInv => AcceptedLoads
    BY AcceptedLoadsHere DEF DocInv
  <1> QED
    BY <1>1, DocsInvariance, PTL

\* mergeYAMLNodes and mergeSequenceNodes: for tidy documents, a client that
\* submits the merged view of a row as it was shown it changes neither the
\* merged document nor its revision, whatever its template is at the moment,
\* unless it inherits a list with a strategy that has expressions.
THEOREM ViewsRoundTrip ==
    ASSUME NoneIsNoEntry, Tidy
    PROVE  Spec => []RoundTrip
  <1>1. Inv /\ DocInv => RoundTrip
    BY RoundTripHere DEF DocInv
  <1> QED
    BY <1>1, DocsInvariance, PTL

-----------------------------------------------------------------------------
(* BlueprintWatch                                                          *)

(***************************************************************************)
(* The watcher of the blueprint files.  Every event stands for a change of *)
(* the directory, which is what bounds their number.                       *)
(***************************************************************************)
WatchInv == WatchTypeOK /\ Len(events) <= content

LEMMA WatchTypeInit == WatchInit => WatchInv
<1> SUFFICES ASSUME WatchInit PROVE WatchInv
  OBVIOUS
<1>1. {unheard, open, watched, known, loop, stopped, armed} \subseteq BOOLEAN
  BY Zenon DEF WatchInit
<1> QED
  BY <1>1, WatchConstants DEF WatchInit, WatchInv, WatchTypeOK

\* One more event for one more change.
LEMMA NotifyKeepsBound ==
  ASSUME WatchInv, Changes, NEW seen, NEW e \in {"yaml", "gone", "new", "dir"},
         Notify(seen, e)
  PROVE  /\ events' \in Seq({"yaml", "gone", "new", "dir"}) /\ Len(events') <= MaxWrites
         /\ content' \in 0..MaxWrites /\ loaded \in 0..content' /\ Len(events') <= content'
  BY WatchConstants DEF WatchInv, WatchTypeOK, Changes, Notify

LEMMA ReceiveKeepsBound ==
  ASSUME WatchInv, NEW e, Receive(e)
  PROVE  /\ events' \in Seq({"yaml", "gone", "new", "dir"}) /\ Len(events') <= MaxWrites
         /\ Len(events') <= content
  BY WatchConstants DEF WatchInv, WatchTypeOK, Receive

LEMMA WatchTypeStep == WatchInv /\ [WatchNext]_watchVars => WatchInv'
<1> SUFFICES ASSUME WatchInv, [WatchNext]_watchVars PROVE WatchInv'
  OBVIOUS
<1> USE WatchConstants
<1>1. CASE WriteFile \/ MoveIn \/ CreateRoot
  <2>1. unheard' \in BOOLEAN
    BY <1>1, Zenon DEF WriteFile, MoveIn, CreateRoot, NoRebuild
  <2> QED
    BY <1>1, <2>1, NotifyKeepsBound
    DEF WriteFile, MoveIn, CreateRoot, WatchInv, WatchTypeOK, reload
<1>2. CASE RemoveRoot
  BY <1>2, NotifyKeepsBound DEF RemoveRoot, WatchInv, WatchTypeOK, reload
<1>3. CASE OnYAML \/ OnGone
  BY <1>3, ReceiveKeepsBound DEF OnYAML, OnGone, WatchInv, WatchTypeOK, disk, reload
<1>4. CASE OnNew("new") \/ OnNew("dir")
  BY <1>4, ReceiveKeepsBound DEF OnNew, WatchInv, WatchTypeOK, disk, reload
<1>12. CASE AddWatch
  <2>1. watched' \in BOOLEAN /\ known' \in BOOLEAN
    BY <1>12, Zenon DEF AddWatch, WatchInv, WatchTypeOK
  <2> QED
    BY <1>12, <2>1 DEF AddWatch, WatchInv, WatchTypeOK, disk, reload
<1>5. CASE LoopEnds \/ ReinitClose
  <2>1. {unheard', open', watched', known', loop', stopped', armed'} \subseteq BOOLEAN
    BY <1>5, Zenon DEF LoopEnds, ReinitClose, WatchInv, WatchTypeOK, reload, disk
  <2>2. /\ events' \in Seq({"yaml", "gone", "new", "dir"}) /\ Len(events') = 0
        /\ reinit' \in {"none", "sleeping", "closed", "opened"}
    <3>1. events' = <<>> /\ reinit' \in {reinit, "closed"}
      BY <1>5, Zenon DEF LoopEnds, ReinitClose
    <3> QED
      BY <3>1 DEF WatchInv, WatchTypeOK
  <2>3. UNCHANGED <<disk, loaded, adding, reload, closing>>
    BY <1>5 DEF LoopEnds, ReinitClose
  <2> QED
    BY <2>1, <2>2, <2>3 DEF WatchInv, WatchTypeOK, disk, reload
<1>6. CASE ReinitOpen \/ ReinitSetup
  BY <1>6 DEF ReinitOpen, ReinitSetup, WatchInv, WatchTypeOK, disk, reload
<1>7. CASE TimerFires
  <2>1. {unheard', open', watched', known', loop', stopped', armed'} \subseteq BOOLEAN
    BY <1>7, Zenon DEF TimerFires, WatchInv, WatchTypeOK, watch, disk
  <2> QED
    BY <1>7, <2>1 DEF TimerFires, WatchInv, WatchTypeOK, disk, watch
<1>8. CASE TakeOff
  BY <1>8 DEF TakeOff, WatchInv, WatchTypeOK, disk, watch
<1>9. CASE Load
  BY <1>9 DEF Load, WatchInv, WatchTypeOK, disk, watch
<1>10. CASE CloseReturns \/ Close
  BY <1>10 DEF CloseReturns, Close, WatchInv, WatchTypeOK, disk, watch, reload
<1>11. CASE UNCHANGED watchVars
  BY <1>11 DEF watchVars, WatchInv, WatchTypeOK, disk, watch, reload
<1> QED
  BY <1>1, <1>2, <1>3, <1>4, <1>5, <1>6, <1>7, <1>8, <1>9, <1>10, <1>11, <1>12
  DEF WatchNext, Disk, Watcher, Idle

\* The watcher's state is well typed, whatever happens to the directory; its
\* event queue holds at most one event per change.
THEOREM WatchTypes == WatchSpec => []WatchTypeOK
<1>1. WatchInv => WatchTypeOK
  BY DEF WatchInv
<1> QED
  BY <1>1, WatchTypeInit, WatchTypeStep, PTL DEF WatchSpec

\* Close has the last word: a timer that fired before it, or was armed again
\* by an event after it, starts no reload, and those in flight only land.
THEOREM NoReloadAfterClose ==
  WatchSpec => []ClosedIsQuiet /\ [][closing # "no" => flying' <= flying]_watchVars
<1>1. WatchInit => WatchInv /\ ClosedIsQuiet
  BY WatchTypeInit DEF WatchInit, ClosedIsQuiet
<1>2. ASSUME WatchInv, [WatchNext]_watchVars, closing # "no"
      PROVE  flying' <= flying /\ closing' \in {closing, "returned", "panicked"}
                               /\ (closing' = "returned" => closing = "returned" \/ flying' = 0)
  BY <1>2 DEF WatchInv, WatchTypeOK, WatchNext, Disk, Watcher, Idle, watchVars, reload, watch, disk,
    WriteFile, MoveIn, RemoveRoot, CreateRoot, OnYAML, OnGone, OnNew, AddWatch, LoopEnds, ReinitClose,
    ReinitOpen, ReinitSetup, TimerFires, TakeOff, Load, CloseReturns, Close
<1>3. ASSUME WatchInv, [WatchNext]_watchVars, closing = "no" PROVE closing' # "returned"
  BY <1>3 DEF WatchNext, Disk, Watcher, Idle, watchVars, reload, watch, disk,
    WriteFile, MoveIn, RemoveRoot, CreateRoot, OnYAML, OnGone, OnNew, AddWatch, LoopEnds, ReinitClose,
    ReinitOpen, ReinitSetup, TimerFires, TakeOff, Load, CloseReturns, Close
<1>4. WatchInv /\ ClosedIsQuiet /\ [WatchNext]_watchVars => WatchInv' /\ ClosedIsQuiet'
  <2> SUFFICES ASSUME WatchInv, ClosedIsQuiet, [WatchNext]_watchVars PROVE ClosedIsQuiet'
    BY WatchTypeStep
  <2>1. flying \in Nat /\ flying' \in Nat
    BY WatchTypeStep DEF WatchInv, WatchTypeOK
  <2> QED
    BY <1>2, <1>3, <2>1 DEF ClosedIsQuiet
<1>5. WatchInv /\ [WatchNext]_watchVars => [closing # "no" => flying' <= flying]_watchVars
  BY <1>2
<1> QED
  BY <1>1, <1>4, <1>5, PTL DEF WatchSpec

=============================================================================
