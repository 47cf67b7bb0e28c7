---------------------------- MODULE DiscoveryProofs ----------------------------
(***************************************************************************)
(* Proofs about what a client is shown of the workspaces, for any          *)
(* workspaces, requests and durations.  Discovery: it is recent enough,    *)
(* never goes back, and shows a workspace nobody is changing as it is.     *)
(* WorkspaceQuery: a filtered listing has nothing the obligations forbid,  *)
(* withholds nothing they allow, and its pages together have everything    *)
(* once, in order.                                                         *)
(***************************************************************************)
EXTENDS Discovery, WorkspaceQuery, FiniteSetTheorems, SequenceTheorems, WellFoundedInduction, TLAPS

\* What is true of a request r: what the ttlCache has shown, and which
\* versions it may still serve, has only moved on since it began; a fetched
\* version was current when the fetch began.
CallInv(r) ==
    /\ r.pc = "store" => r.ver >= 1 /\ r.ver >= shown /\ log[r.ver].past <= r.age
    /\ r.pc \in {"look", "miss", "fetch", "store", "wait"} =>
         r.floor <= shown /\ \A v \in 1..Now : log[v].past <= Lag => r.oldest <= v
    /\ r.pc = "gather" =>
         /\ r.from = "api" => r.ver >= r.base
         /\ r.from = "ttl" => r.ver >= r.oldest /\ r.ver >= r.floor
         /\ "standalone" \in r.req.scope => r.ver >= 1

\* The entry is the newest version that was shown, and no older than its own
\* age and one fetch.
EntryInv ==
    IF entry = None THEN shown = 0
    ELSE entry.ver = shown /\ log[entry.ver].past <= entry.age + FetchMax

OneLeader == \A c, d \in Callers : Leads(c) /\ Leads(d) => c = d

Inv ==
    /\ TypeOK
    /\ log[Now].past = 0
    /\ EntryInv
    /\ OneLeader
    /\ \A c \in Callers : CallInv(call[c])

(***************************************************************************)
(* Least and greatest numbers.                                             *)
(***************************************************************************)

LEMMA LeastNumber ==
    ASSUME NEW T \in SUBSET Nat, T # {}
    PROVE  Min(T) \in T /\ \A y \in T : Min(T) <= y
<1> DEFINE R == {p \in Nat \X Nat : p[1] < p[2]}
<1>1. IsWellFoundedOn(R, Nat)
  BY NatLessThanWellFounded, Zenon DEF OpToRel
<1>2. \A x, y \in Nat : x < y => <<x, y>> \in R
  OBVIOUS
<1> HIDE DEF R
<1>3. PICK x \in T : \A y \in T : ~ (<<y, x>> \in R)
  BY <1>1, WFMin
<1>4. ASSUME NEW y \in T PROVE x <= y
  <2>1. x \in Nat /\ y \in Nat
    OBVIOUS
  <2>2. ~ (y < x)
    BY <1>2, <1>3, <2>1, Zenon
  <2> QED
    BY <2>1, <2>2
<1> QED
  BY <1>4 DEF Min

LEMMA OfTwo ==
    ASSUME NEW a \in Int, NEW b \in Int
    PROVE  /\ Min({a, b}) = IF a <= b THEN a ELSE b
           /\ Max({a, b}) = IF a >= b THEN a ELSE b
<1>1. Min({a, b}) \in {a, b} /\ Min({a, b}) <= a /\ Min({a, b}) <= b
  <2>1. \E x \in {a, b} : \A y \in {a, b} : x <= y
    <3>1. CASE a <= b
      BY <3>1
    <3>2. CASE b <= a
      BY <3>2
    <3> QED
      BY <3>1, <3>2
  <2> QED
    BY <2>1 DEF Min
<1>2. Max({a, b}) \in {a, b} /\ Max({a, b}) >= a /\ Max({a, b}) >= b
  <2>1. \E x \in {a, b} : \A y \in {a, b} : x >= y
    <3>1. CASE a <= b
      BY <3>1
    <3>2. CASE b <= a
      BY <3>2
    <3> QED
      BY <3>1, <3>2
  <2> QED
    BY <2>1 DEF Max
<1> QED
  BY <1>1, <1>2

LEMMA MaxOfTwo ==
    ASSUME NEW a \in Int, NEW b \in Int
    PROVE  (b <= a => Max({a, b}) = a) /\ (a <= b => Max({a, b}) = b)
  BY OfTwo

LEMMA Constants ==
    /\ TTL \in Nat /\ FetchMax \in Nat /\ TTL >= 1 /\ FetchMax >= 1 /\ MaxVersions \in Nat
    /\ Lag \in Nat /\ FetchMax <= Lag /\ Lag = TTL - 1 + FetchMax
    /\ None \notin Callers /\ None \notin [ver : Nat, age : Nat]
  BY DiscoveryConstants DEF Lag

(***************************************************************************)
(* The records of requests.                                                *)
(***************************************************************************)

LEMMA IdleCall ==
    /\ Idle \in Call /\ Idle.pc = "idle" /\ Idle.ver = 0 /\ Idle.base = 0
    /\ Idle.oldest = 0 /\ Idle.floor = 0 /\ Idle.from = "none"
  BY Constants DEF Idle, Call, PC, Source

LEMMA GotCall ==
    ASSUME NEW r \in Call, NEW v \in Nat, NEW source \in Source
    PROVE  /\ Got(r, v, source) \in Call
           /\ Got(r, v, source).pc = "gather" /\ Got(r, v, source).ver = v
           /\ Got(r, v, source).from = source /\ Got(r, v, source).req = r.req
           /\ Got(r, v, source).base = r.base /\ Got(r, v, source).oldest = r.oldest
           /\ Got(r, v, source).floor = r.floor
<1>1. Got(r, v, source) \in Call
  <2>1. "gather" \in PC /\ 0 \in 0..FetchMax /\ None \in Callers \union {None}
    BY Constants DEF PC
  <2> QED
    BY <2>1 DEF Got, Call
<1>2. /\ Got(r, v, source).pc = "gather" /\ Got(r, v, source).ver = v
      /\ Got(r, v, source).from = source /\ Got(r, v, source).req = r.req
  BY DEF Got, Call
<1>3. /\ Got(r, v, source).base = r.base /\ Got(r, v, source).oldest = r.oldest
      /\ Got(r, v, source).floor = r.floor
  BY DEF Got, Call
<1> QED
  BY <1>1, <1>2, <1>3

LEMMA GoCall ==
    ASSUME NEW r \in Call, NEW l \in PC, NEW d \in Callers \union {None}, NEW v \in Nat
    PROVE  /\ [r EXCEPT !.pc = l] \in Call
           /\ [r EXCEPT !.pc = l, !.leader = d] \in Call
           /\ [r EXCEPT !.pc = l, !.ver = v] \in Call
  BY DEF Call

(***************************************************************************)
(* The log.                                                                *)
(***************************************************************************)

LEMMA LogType ==
    ASSUME TypeOK
    PROVE  /\ Now \in Nat /\ Now >= 1 /\ Now \in 1..Now
           /\ \A v \in 1..Now : log[v] \in Version /\ log[v].past \in Nat /\ log[v].past <= Lag + 1
           /\ shown \in Nat /\ store \in Nat
<1>1. Len(log) \in Nat /\ Len(log) >= 1 /\ \A v \in 1..Len(log) : log[v] \in Version
  BY Constants DEF TypeOK
<1>2. \A x \in Version : x.past \in Nat /\ x.past <= Lag + 1
  BY Constants DEF Version
<1> QED
  BY <1>1, <1>2 DEF Now, TypeOK

(***************************************************************************)
(* A step of one request.                                                  *)
(***************************************************************************)

Within(r) == {r.ver, r.base, r.oldest, r.floor} \subseteq 0..Now

LEMMA OneCall ==
    ASSUME Inv, NEW c \in Callers, NEW f \in Call, Set(c, f), UNCHANGED <<log, entry, store, shown>>,
           Within(f), CallInv(f),
           f.pc \in {"fetch", "store"} => \A d \in Callers \ {c} : ~Leads(d)
    PROVE  Inv'
<1>1. /\ call' \in [Callers -> Call] /\ call'[c] = f
      /\ \A d \in Callers \ {c} : call'[d] = call[d]
  BY DEF Inv, TypeOK, Set
<1>2. TypeOK'
  <2>1. \A d \in Callers : Within(call'[d])
    BY <1>1 DEF Inv, TypeOK, Within
  <2> QED
    BY <1>1, <2>1 DEF Inv, TypeOK, Within, Now
<1>3. EntryInv' /\ (log[Now].past = 0)'
  BY DEF Inv, EntryInv, Now
<1>4. OneLeader'
  BY <1>1 DEF Inv, OneLeader, Leads
<1>5. ASSUME NEW d \in Callers PROVE CallInv(call[d])'
  <2>1. CallInv(call'[d])
    BY <1>1 DEF Inv
  <2> QED
    BY <2>1 DEF CallInv, Now
<1> QED
  BY <1>2, <1>3, <1>4, <1>5 DEF Inv

LEMMA IdleInv == Inv => CallInv(Idle) /\ Within(Idle)
  BY IdleCall, LogType DEF Inv, CallInv, Within

LEMMA BeginStep ==
    ASSUME Inv, NEW c \in Callers, Begin(c)
    PROVE  Inv'
<1> USE LogType DEF Inv
<1>1. PICK q \in Requests :
        Set(c, IF "standalone" \notin q.scope THEN [Idle EXCEPT !.pc = "gather", !.req = q]
               ELSE [Idle EXCEPT !.pc = "look", !.req = q,
                       !.base = IF q.cached /\ q.name = None THEN 0 ELSE Now,
                       !.floor = IF q.cached THEN shown ELSE 0,
                       !.oldest = IF q.cached THEN OldestServed ELSE 0])
  BY DEF Begin
<1>2. UNCHANGED <<log, entry, store, shown>>
  BY DEF Begin
<1>3. OldestServed \in 1..Now /\ \A v \in 1..Now : log[v].past <= Lag => OldestServed <= v
  <2> DEFINE T == {v \in 1..Now : log[v].past <= Lag}
  <2>1. T \in SUBSET Nat /\ Now \in T
    BY Constants
  <2>2. Min(T) \in T /\ \A v \in T : Min(T) <= v
    BY <2>1, LeastNumber
  <2> QED
    BY <2>2 DEF OldestServed
<1>4. CASE "standalone" \notin q.scope
  <2> DEFINE f == [Idle EXCEPT !.pc = "gather", !.req = q]
  <2>1. /\ f \in Call /\ f.pc = "gather" /\ f.req = q /\ f.from = "none"
        /\ f.ver = 0 /\ f.base = 0 /\ f.oldest = 0 /\ f.floor = 0
    BY IdleCall DEF Call, PC
  <2>2. Set(c, f)
    BY <1>1, <1>4
  <2> HIDE DEF f
  <2>3. Within(f) /\ CallInv(f)
    BY <1>4, <2>1 DEF Within, CallInv
  <2> QED
    BY <1>2, <2>1, <2>2, <2>3, OneCall
<1>5. CASE "standalone" \in q.scope
  <2>1. PICK b \in 0..Now, fl \in 0..shown, o \in 0..Now :
          /\ Set(c, [Idle EXCEPT !.pc = "look", !.req = q, !.base = b, !.floor = fl, !.oldest = o])
          /\ \A v \in 1..Now : log[v].past <= Lag => o <= v
    <3> DEFINE b == IF q.cached /\ q.name = None THEN 0 ELSE Now
               fl == IF q.cached THEN shown ELSE 0
               o == IF q.cached THEN OldestServed ELSE 0
    <3>1. b \in 0..Now /\ fl \in 0..shown /\ o \in 0..Now
      BY <1>3
    <3>2. \A v \in 1..Now : log[v].past <= Lag => o <= v
      BY <1>3
    <3>3. Set(c, [Idle EXCEPT !.pc = "look", !.req = q, !.base = b, !.floor = fl, !.oldest = o])
      BY <1>1, <1>5
    <3> HIDE DEF b, fl, o
    <3> QED
      BY <3>1, <3>2, <3>3
  <2> DEFINE f == [Idle EXCEPT !.pc = "look", !.req = q, !.base = b, !.floor = fl, !.oldest = o]
  <2>2. /\ f.pc = "look" /\ f.ver = 0 /\ f.base = b /\ f.oldest = o /\ f.floor = fl
    BY IdleCall DEF Call
  <2>3. f \in Call
    <3>1. "look" \in PC /\ q \in Requests \union {None} /\ b \in Nat /\ fl \in Nat /\ o \in Nat
      BY DEF PC
    <3> QED
      BY <3>1, IdleCall DEF Call
  <2> HIDE DEF f
  <2>4. Within(f)
    BY <2>2 DEF Within, TypeOK
  <2>5. CallInv(f)
    BY <2>1, <2>2 DEF CallInv
  <2> QED
    BY <1>2, <2>1, <2>2, <2>3, <2>4, <2>5, OneCall DEF f
<1> QED
  BY <1>4, <1>5

LEMMA CallType ==
    ASSUME Inv, NEW c \in Callers
    PROVE  /\ call[c] \in Call /\ CallInv(call[c])
           /\ call[c].ver \in 0..Now /\ call[c].base \in 0..Now
           /\ call[c].oldest \in 0..Now /\ call[c].floor \in 0..Now
           /\ call[c].ver \in Nat /\ call[c].base \in Nat /\ call[c].oldest \in Nat
           /\ call[c].floor \in Nat /\ call[c].age \in 0..FetchMax
  BY DEF Inv, TypeOK, Call

LEMMA EntryType ==
    ASSUME Inv, entry # None
    PROVE  /\ entry.ver \in 1..Now /\ entry.age \in 0..TTL
           /\ entry.ver = shown /\ log[entry.ver].past <= entry.age + FetchMax
           /\ log[entry.ver].past \in Nat
<1>1. entry.ver \in 1..Now /\ entry.age \in 0..TTL
  BY DEF Inv, TypeOK
<1> QED
  BY <1>1, LogType DEF Inv, EntryInv

LEMMA ReadStep ==
    ASSUME Inv, NEW c \in Callers, ReadDirect(c) \/ ReadInformer(c)
    PROVE  Inv'
<1>0. /\ call[c] \in Call /\ Now \in Nat /\ Now >= 1 /\ shown \in Nat /\ store \in Nat
      /\ store <= Now /\ shown <= Now
      /\ call[c].ver \in 0..Now /\ call[c].base \in 0..Now
      /\ call[c].oldest \in 0..Now /\ call[c].floor \in 0..Now /\ CallInv(call[c])
  BY LogType, CallType DEF Inv, TypeOK
<1>1. CASE ReadDirect(c)
  <2> DEFINE n == Now
             f == Got(call[c], n, "api")
  <2>1. Set(c, f) /\ UNCHANGED <<log, entry, store, shown>>
    BY <1>1 DEF ReadDirect
  <2>2. "api" \in Source /\ n \in Nat /\ call[c] \in Call
    BY <1>0 DEF Source
  <2>3. n = Now
    OBVIOUS
  <2> HIDE DEF n
  <2>4. /\ f \in Call /\ f.pc = "gather" /\ f.ver = n /\ f.from = "api"
        /\ f.base = call[c].base /\ f.oldest = call[c].oldest /\ f.floor = call[c].floor
    BY <2>2, GotCall
  <2> HIDE DEF f
  <2>5. Within(f) /\ CallInv(f)
    BY <1>0, <2>3, <2>4 DEF Within, CallInv
  <2> QED
    BY <2>1, <2>4, <2>5, OneCall
<1>2. CASE ReadInformer(c)
  <2> DEFINE r == [call[c] EXCEPT !.oldest = 0, !.floor = 0]
             f == Got(r, store, "informer")
  <2>1. Set(c, f) /\ UNCHANGED <<log, entry, store, shown>> /\ store \in 1..Now
    BY <1>0, <1>2 DEF ReadInformer
  <2>2. /\ r \in Call /\ r.base = call[c].base /\ r.oldest = 0 /\ r.floor = 0
    BY <1>0 DEF Call
  <2> HIDE DEF r
  <2>3. /\ f \in Call /\ f.pc = "gather" /\ f.ver = store /\ f.from = "informer"
        /\ f.base = call[c].base /\ f.oldest = 0 /\ f.floor = 0
    <3>1. "informer" \in Source /\ store \in Nat /\ r \in Call
      BY <1>0, <2>2 DEF Source
    <3>2. /\ f \in Call /\ f.pc = "gather" /\ f.ver = store /\ f.from = "informer"
          /\ f.base = r.base /\ f.oldest = r.oldest /\ f.floor = r.floor
      BY <3>1, GotCall
    <3> QED
      BY <2>2, <3>2, Zenon
  <2> HIDE DEF f
  <2>4. Within(f) /\ CallInv(f)
    BY <1>0, <2>1, <2>3 DEF Within, CallInv
  <2> QED
    BY <2>1, <2>3, <2>4, OneCall
<1> QED
  BY <1>1, <1>2

LEMMA LookStep ==
    ASSUME Inv, NEW c \in Callers, Look(c)
    PROVE  Inv'
<1>0. /\ call[c] \in Call /\ Now \in Nat /\ Now >= 1 /\ shown \in Nat /\ store \in Nat
      /\ store <= Now /\ shown <= Now
      /\ call[c].ver \in 0..Now /\ call[c].base \in 0..Now
      /\ call[c].oldest \in 0..Now /\ call[c].floor \in 0..Now /\ CallInv(call[c])
  BY LogType, CallType DEF Inv, TypeOK
<1>1. call[c].pc = "look" /\ UNCHANGED <<log, entry, store>>
  BY DEF Look, At
<1>2. CASE entry # None /\ entry.age < TTL
  <2> DEFINE f == Got(call[c], entry.ver, "ttl")
  <2>1. Set(c, f) /\ shown' = Max({shown, entry.ver})
    BY <1>2 DEF Look
  <2>2. /\ entry.ver \in 1..Now /\ entry.ver = shown /\ log[entry.ver].past <= Lag /\ entry.ver \in Nat
    BY <1>0, <1>2, EntryType, Constants
  <2>3. shown' = shown
    <3>1. shown \in Int /\ entry.ver \in Int /\ entry.ver <= shown
      BY <1>0, <2>2
    <3> QED
      BY <2>1, <3>1, MaxOfTwo, Zenon
  <2>4. /\ f \in Call /\ f.pc = "gather" /\ f.ver = entry.ver /\ f.from = "ttl"
        /\ f.base = call[c].base /\ f.oldest = call[c].oldest /\ f.floor = call[c].floor
    <3>1. "ttl" \in Source /\ entry.ver \in Nat /\ call[c] \in Call
      BY <1>0, <2>2 DEF Source
    <3> QED
      BY <3>1, GotCall
  <2> HIDE DEF f
  <2>5. Within(f)
    BY <1>0, <2>2, <2>4 DEF Within
  <2>6. call[c].oldest <= entry.ver /\ call[c].floor <= entry.ver
    BY <1>0, <1>1, <2>2 DEF CallInv
  <2>7. CallInv(f)
    BY <2>2, <2>4, <2>6 DEF CallInv
  <2> QED
    BY <1>1, <2>1, <2>3, <2>4, <2>5, <2>7, OneCall
<1>3. CASE ~(entry # None /\ entry.age < TTL)
  <2> DEFINE f == [call[c] EXCEPT !.pc = "miss"]
  <2>1. Set(c, f) /\ UNCHANGED shown
    BY <1>3 DEF Look
  <2>2. /\ f \in Call /\ f.pc = "miss" /\ f.ver = call[c].ver
        /\ f.base = call[c].base /\ f.oldest = call[c].oldest /\ f.floor = call[c].floor
    BY <1>0 DEF Call, PC
  <2> HIDE DEF f
  <2>3. Within(f)
    BY <1>0, <2>2 DEF Within
  <2>4. CallInv(f)
    BY <1>0, <1>1, <2>2 DEF CallInv
  <2> QED
    BY <1>1, <2>1, <2>2, <2>3, <2>4, OneCall
<1> QED
  BY <1>2, <1>3

LEMMA JoinStep ==
    ASSUME Inv, NEW c \in Callers, Join(c)
    PROVE  Inv'
<1> USE LogType, CallType DEF Inv
<1>1. call[c].pc = "miss" /\ UNCHANGED <<log, entry, store, shown>>
  BY DEF Join, At
<1>2. ASSUME NEW d \in Callers, Set(c, [call[c] EXCEPT !.pc = "wait", !.leader = d])
      PROVE  Inv'
  <2> DEFINE f == [call[c] EXCEPT !.pc = "wait", !.leader = d]
  <2>1. /\ f \in Call /\ f.pc = "wait" /\ f.ver = call[c].ver
        /\ f.base = call[c].base /\ f.oldest = call[c].oldest /\ f.floor = call[c].floor
    BY DEF Call, PC
  <2> HIDE DEF f
  <2>2. Within(f) /\ CallInv(f)
    BY <1>1, <2>1 DEF Within, CallInv
  <2> QED
    BY <1>1, <1>2, <2>1, <2>2, OneCall DEF f
<1>3. ASSUME \A d \in Callers : ~Leads(d), Set(c, [call[c] EXCEPT !.pc = "fetch"])
      PROVE  Inv'
  <2> DEFINE f == [call[c] EXCEPT !.pc = "fetch"]
  <2>1. /\ f \in Call /\ f.pc = "fetch" /\ f.ver = call[c].ver
        /\ f.base = call[c].base /\ f.oldest = call[c].oldest /\ f.floor = call[c].floor
    BY DEF Call, PC
  <2> HIDE DEF f
  <2>2. Within(f) /\ CallInv(f)
    BY <1>1, <2>1 DEF Within, CallInv
  <2> QED
    BY <1>1, <1>3, <2>1, <2>2, OneCall DEF f
<1> QED
  BY <1>2, <1>3 DEF Join

LEMMA FetchStep ==
    ASSUME Inv, NEW c \in Callers, Fetch(c)
    PROVE  Inv'
<1> USE LogType, CallType DEF Inv
<1> DEFINE f == [call[c] EXCEPT !.pc = "store", !.ver = Now]
<1>1. call[c].pc = "fetch" /\ Set(c, f) /\ UNCHANGED <<log, entry, store, shown>>
  BY DEF Fetch, At
<1>2. /\ f \in Call /\ f.pc = "store" /\ f.ver = Now /\ f.age = call[c].age
      /\ f.base = call[c].base /\ f.oldest = call[c].oldest /\ f.floor = call[c].floor
  BY DEF Call, PC
<1> HIDE DEF f
<1>3. Within(f)
  BY <1>2 DEF Within
<1>4. CallInv(f)
  <2>1. /\ call[c].age \in Nat
        /\ shown \in 0..Now
        /\ Now \in Nat /\ Now >= 1 /\ log[Now].past = 0
    <3>1. call[c].age \in Nat
      BY DEF Call
    <3>2. shown \in 0..Now
      BY DEF TypeOK
    <3> QED
      BY <3>1, <3>2
  <2>2. f.ver >= 1 /\ f.ver >= shown /\ log[f.ver].past <= f.age
    BY <1>2, <2>1
  <2>3. call[c].floor <= shown /\ \A v \in 1..Now : log[v].past <= Lag => call[c].oldest <= v
    BY <1>1 DEF CallInv
  <2> QED
    BY <1>2, <2>2, <2>3 DEF CallInv
<1>5. \A d \in Callers \ {c} : ~Leads(d)
  BY <1>1 DEF OneLeader, Leads
<1> QED
  BY <1>1, <1>2, <1>3, <1>4, <1>5, OneCall

LEMMA EndStep ==
    ASSUME Inv, NEW c \in Callers, Fails(c) \/ Answer(c)
    PROVE  Inv'
  BY OneCall, IdleInv, IdleCall DEF Fails, Answer

(***************************************************************************)
(* The end of a fetch: one step of all that share it.                      *)
(***************************************************************************)

LEMMA FetchFailsStep ==
    ASSUME Inv, NEW c \in Callers, FetchFails(c)
    PROVE  Inv'
<1>1. /\ UNCHANGED <<log, entry, store, shown>> /\ Now' = Now /\ Lag' = Lag
      /\ call' \in [Callers -> Call]
      /\ \A d \in Callers : call'[d] = Idle \/ call'[d] = call[d]
  BY IdleCall DEF FetchFails, Inv, TypeOK, Now, Lag
<1>2. \A d \in Callers : Within(call'[d]) /\ CallInv(call'[d])
  BY <1>1, IdleInv DEF Inv, TypeOK, Within
<1>3. TypeOK'
  BY <1>1, <1>2 DEF Inv, TypeOK, Within, Now
<1>4. EntryInv' /\ (log[Now].past = 0)'
  BY <1>1 DEF Inv, EntryInv, Now
<1>5. OneLeader'
  BY <1>1, IdleCall DEF Inv, OneLeader, Leads
<1>6. ASSUME NEW d \in Callers PROVE CallInv(call[d])'
  BY <1>1, <1>2 DEF CallInv, Now
<1> QED
  BY <1>3, <1>4, <1>5, <1>6 DEF Inv

LEMMA StoreStep ==
    ASSUME Inv, NEW c \in Callers, Store(c)
    PROVE  Inv'
<1> DEFINE v == call[c].ver
<1>1. /\ v \in 1..Now /\ v \in Nat /\ shown <= v /\ shown \in Nat /\ Now \in Nat
      /\ log[v].past <= FetchMax /\ log[v].past \in Nat /\ call[c].pc = "store"
  <2>1. call[c].pc = "store"
    BY DEF Store, At
  <2> QED
    BY <2>1, CallType, LogType, Constants DEF Inv, CallInv
<1>2. /\ entry' = [ver |-> v, age |-> 0] /\ UNCHANGED <<log, store>>
      /\ Now' = Now /\ Lag' = Lag
  BY DEF Store, Now, Lag
<1>3. shown' = v
  <2>1. shown \in Int /\ v \in Int /\ shown <= v /\ shown' = Max({shown, v})
    BY <1>1 DEF Store
  <2> QED
    BY <2>1, MaxOfTwo, Zenon
<1>4. ASSUME NEW d \in Callers
      PROVE  \/ d \in Sharers(c) /\ call'[d] = Got(call[d], v, "ttl")
             \/ d # c /\ d \notin Sharers(c) /\ call'[d] = call[d]
  BY DEF Store, Sharers
<1>5. ASSUME NEW d \in Callers
      PROVE  /\ Got(call[d], v, "ttl") \in Call /\ Got(call[d], v, "ttl").pc = "gather"
             /\ Got(call[d], v, "ttl").ver = v /\ Got(call[d], v, "ttl").from = "ttl"
             /\ Got(call[d], v, "ttl").base = call[d].base
             /\ Got(call[d], v, "ttl").oldest = call[d].oldest
             /\ Got(call[d], v, "ttl").floor = call[d].floor
  <2>1. "ttl" \in Source /\ v \in Nat /\ call[d] \in Call
    BY <1>1, CallType DEF Source
  <2> HIDE DEF v
  <2> QED
    BY <2>1, GotCall
<1> HIDE DEF v
<1>6. call' \in [Callers -> Call]
  <2>1. call' = [d \in Callers |-> IF d \in Sharers(c) THEN Got(call[d], v, "ttl") ELSE call[d]]
    BY DEF Store, v
  <2> QED
    BY <1>5, <2>1, CallType
<1>7. ASSUME NEW d \in Callers PROVE Within(call'[d])
  BY <1>1, <1>4, <1>5, CallType DEF Within
<1>8. TypeOK'
  <2>1. entry' \in [ver : 1..Now, age : 0..TTL]
    BY <1>1, <1>2, Constants
  <2> QED
    BY <1>1, <1>2, <1>3, <1>6, <1>7, <2>1 DEF Inv, TypeOK, Within, Now
<1>9. EntryInv' /\ (log[Now].past = 0)'
  <2>1. entry' # None
    BY <1>1, <1>2, Constants
  <2> QED
    BY <1>1, <1>2, <1>3, <2>1, Constants DEF EntryInv, Inv, Now
<1>10. ASSUME NEW d \in Callers PROVE ~Leads(d)'
  <2>1. ASSUME d # c PROVE ~Leads(d)
    BY <1>1, <2>1 DEF Inv, OneLeader, Leads
  <2> QED
    BY <1>4, <1>5, <2>1 DEF Leads, Sharers
<1>11. ASSUME NEW d \in Callers PROVE CallInv(call[d])'
  <2>1. CASE d \in Sharers(c) /\ call'[d] = Got(call[d], v, "ttl")
    <3>1. call[d].pc \in {"store", "wait"}
      BY <1>1, <2>1 DEF Sharers, At
    <3>2. call[d].floor <= shown /\ call[d].oldest <= v /\ call[d].floor \in Nat
      BY <1>1, <3>1, CallType, Constants DEF CallInv
    <3> QED
      BY <1>1, <1>5, <2>1, <3>2 DEF CallInv
  <2>2. CASE d # c /\ call'[d] = call[d]
    <3>1. call[d].pc # "store"
      BY <1>10, <2>2 DEF Leads
    <3>2. CallInv(call[d]) /\ call[d].floor \in Nat
      BY CallType
    <3> QED
      BY <1>1, <1>2, <1>3, <2>2, <3>1, <3>2 DEF CallInv
  <2> QED
    BY <1>4, <2>1, <2>2
<1> QED
  BY <1>8, <1>9, <1>10, <1>11 DEF Inv, OneLeader

(***************************************************************************)
(* The cluster and time.                                                   *)
(***************************************************************************)

LEMMA ChangeStep ==
    ASSUME Inv, Change
    PROVE  Inv'
<1>1. PICK x \in Version : log' = Append(log, x) /\ x.past = 0
  <2>1. log[Now] \in Version /\ log[Now].past = 0
    BY LogType DEF Inv
  <2>2. ASSUME NEW w \in Names, NEW y, y = [log[Now] EXCEPT !.pods = SymDiff(@, {w})]
        PROVE  y \in Version /\ y.past = 0
    BY <2>1, <2>2 DEF Version, SymDiff
  <2>3. ASSUME NEW w \in Standalone, NEW y, y = [log[Now] EXCEPT !.release = SymDiff(@, {w})]
        PROVE  y \in Version /\ y.past = 0
    BY <2>1, <2>3 DEF Version, SymDiff
  <2>4. Changing \subseteq Names
    BY DiscoveryConstants
  <2> QED
    BY <2>2, <2>3, <2>4 DEF Change
<1>2. /\ UNCHANGED <<entry, store, call, shown>> /\ Now < MaxVersions /\ Now \in Nat /\ Now >= 1
      /\ shown \in Nat
  BY LogType DEF Change, Inv
<1>3. /\ log' \in Seq(Version) /\ Now' = Now + 1 /\ log'[Now + 1] = x
      /\ \A v \in 1..Now : log'[v] = log[v]
  <2>1. log \in Seq(Version)
    BY DEF Inv, TypeOK
  <2> QED
    BY <1>1, <2>1 DEF Now
<1>4. TypeOK'
  <2>1. \A d \in Callers : Within(call[d])'
    BY <1>2, <1>3, CallType DEF Within
  <2>2. entry \in [ver : 1..Now', age : 0..TTL] \union {None}
    BY <1>2, <1>3 DEF Inv, TypeOK
  <2>3. store \in 0..Now' /\ shown \in 0..Now' /\ call \in [Callers -> Call]
    BY <1>2, <1>3 DEF Inv, TypeOK
  <2>4. Len(log') \in 1..MaxVersions
    BY <1>2, <1>3, Constants DEF Now
  <2> QED
    BY <1>2, <1>3, <2>1, <2>2, <2>3, <2>4 DEF TypeOK, Within
<1>5. EntryInv'
  <2>1. CASE entry = None
    BY <1>2, <2>1 DEF Inv, EntryInv
  <2>2. CASE entry # None
    BY <1>2, <1>3, <2>2, EntryType DEF EntryInv
  <2> QED
    BY <2>1, <2>2
<1>6. ASSUME NEW d \in Callers PROVE CallInv(call[d])'
  <2>1. CallInv(call[d]) /\ call[d].oldest \in 0..Now /\ call[d].ver \in 0..Now
    BY CallType
  <2>2. call[d].pc = "store" => log'[call[d].ver] = log[call[d].ver]
    BY <1>2, <1>3, <2>1 DEF CallInv
  <2>3. ASSUME NEW v \in 1..Now', log'[v].past <= Lag,
               call[d].pc \in {"look", "miss", "fetch", "store", "wait"}
        PROVE  call[d].oldest <= v
    <3>1. CASE v \in 1..Now
      BY <1>3, <2>1, <2>3, <3>1 DEF CallInv
    <3>2. CASE v = Now + 1
      BY <1>2, <2>1, <3>2
    <3> QED
      BY <1>2, <1>3, <3>1, <3>2
  <2> QED
    BY <1>2, <2>1, <2>2, <2>3 DEF CallInv, Lag
<1>7. OneLeader' /\ (log[Now].past = 0)'
  BY <1>1, <1>2, <1>3 DEF Inv, OneLeader, Leads
<1> QED
  BY <1>4, <1>5, <1>6, <1>7 DEF Inv

LEMMA DeliverStep ==
    ASSUME Inv, Deliver
    PROVE  Inv'
<1>1. UNCHANGED <<log, entry, call, shown>> /\ store' \in 0..Now /\ Now' = Now
  BY LogType DEF Deliver, Inv, Now
<1>2. TypeOK'
  BY <1>1 DEF Inv, TypeOK, Now
<1> QED
  BY <1>1, <1>2 DEF Inv, EntryInv, OneLeader, Leads, CallInv, Now

LEMMA TickStep ==
    ASSUME Inv, Tick
    PROVE  Inv'
<1>1. Now \in Nat /\ Now >= 1 /\ Lag \in Nat /\ log[Now].past = 0
  BY LogType, Constants DEF Inv
<1>2. ASSUME NEW v \in 1..Now
      PROVE  /\ log'[v] \in Version /\ (v = Now => log'[v] = log[v])
             /\ log'[v].past >= log[v].past /\ log'[v].past <= log[v].past + 1
             /\ log'[v].past <= Lag + 1
  <2>1. log[v] \in Version /\ log[v].past \in Nat /\ log[v].past <= Lag + 1
    BY LogType DEF Inv
  <2>2. CASE v = Now
    <3>1. log'[v] = log[v]
      BY <2>2 DEF Tick
    <3> QED
      BY <2>1, <2>2, <3>1
  <2>3. CASE v # Now
    <3> DEFINE m == Min({log[v].past + 1, Lag + 1})
    <3>1. log'[v] = [log[v] EXCEPT !.past = m]
      BY <2>3 DEF Tick
    <3>2. m \in 0..Lag + 1 /\ m >= log[v].past /\ m <= log[v].past + 1
      BY <1>1, <2>1, OfTwo
    <3> HIDE DEF m
    <3>3. log'[v].past = m /\ log'[v] \in Version
      BY <2>1, <3>1, <3>2 DEF Version
    <3> QED
      BY <1>1, <2>3, <3>2, <3>3
  <2> QED
    BY <2>2, <2>3
<1>3. log' \in Seq(Version) /\ Now' = Now /\ Len(log') = Len(log)
  <2>1. log' \in [1..Now -> Version]
    BY <1>2 DEF Tick
  <2>2. log' \in Seq(Version)
    BY <1>1, <2>1, SeqDef
  <2>3. Len(log') \in Nat /\ 1..Len(log') = 1..Now
    BY <2>1, <2>2, LenProperties
  <2>4. Len(log') = Now
    BY <1>1, <2>3
  <2> QED
    BY <2>2, <2>4 DEF Now
<1>4. UNCHANGED <<store, shown>> /\ Lag' = Lag
  BY DEF Tick, Lag
<1>5. \/ entry = None /\ entry' = None
      \/ /\ entry # None /\ entry' \in [ver : 1..Now, age : 0..TTL]
         /\ entry'.ver = entry.ver
         /\ entry'.age = IF entry.age + 1 <= TTL THEN entry.age + 1 ELSE TTL
  <2>1. CASE entry = None
    BY <2>1 DEF Tick
  <2>2. CASE entry # None
    <3> DEFINE m == Min({entry.age + 1, TTL})
    <3>1. entry \in [ver : 1..Now, age : 0..TTL] /\ entry.age \in 0..TTL
      BY <2>2 DEF Inv, TypeOK
    <3>2. entry' = [entry EXCEPT !.age = m]
      BY <2>2 DEF Tick
    <3>3. m = IF entry.age + 1 <= TTL THEN entry.age + 1 ELSE TTL
      BY <3>1, OfTwo, Constants
    <3>4. m \in 0..TTL
      BY <3>1, <3>3, Constants
    <3> HIDE DEF m
    <3>5. entry' \in [ver : 1..Now, age : 0..TTL] /\ entry'.ver = entry.ver /\ entry'.age = m
      BY <3>1, <3>2, <3>4
    <3> QED
      BY <2>2, <3>3, <3>5
  <2> QED
    BY <2>1, <2>2
<1>6. EntryInv'
  <2>1. CASE entry = None
    BY <1>4, <1>5, <2>1 DEF Inv, EntryInv
  <2>2. CASE entry # None
    <3>1. /\ entry.ver \in 1..Now /\ entry.ver = shown /\ log[entry.ver].past \in Nat
          /\ log[entry.ver].past <= entry.age + FetchMax /\ entry.age \in 0..TTL
      BY <2>2, EntryType
    <3>2. /\ log'[entry.ver].past <= log[entry.ver].past + 1
          /\ log'[entry.ver].past <= Lag + 1 /\ log'[entry.ver].past \in Nat
      BY <1>2, <3>1, Constants DEF Version
    <3>3. entry' # None /\ entry'.ver = entry.ver
      BY <1>5, <2>2, Constants
    <3>4. entry'.age = IF entry.age + 1 <= TTL THEN entry.age + 1 ELSE TTL
      BY <1>5, <2>2
    <3>5. log'[entry.ver].past <= entry'.age + FetchMax
      BY <3>1, <3>2, <3>4, Constants
    <3> QED
      BY <1>4, <3>1, <3>3, <3>5 DEF EntryInv
  <2> QED
    BY <2>1, <2>2
<1>7. ASSUME NEW d \in Callers
      PROVE  /\ call'[d] \in Call /\ call'[d].pc = call[d].pc /\ call'[d].ver = call[d].ver
             /\ call'[d].base = call[d].base /\ call'[d].oldest = call[d].oldest
             /\ call'[d].floor = call[d].floor /\ call'[d].from = call[d].from
             /\ call'[d].req = call[d].req
             /\ Leads(d) => call'[d].age = call[d].age + 1
  <2>1. call[d] \in Call /\ call[d].age \in 0..FetchMax
    BY CallType
  <2>2. CASE ~Leads(d)
    BY <2>1, <2>2 DEF Tick
  <2>3. CASE Leads(d)
    <3>1. call'[d] = [call[d] EXCEPT !.age = call[d].age + 1] /\ call[d].age + 1 \in 0..FetchMax
      BY <2>1, <2>3, Constants DEF Tick
    <3> QED
      BY <2>1, <3>1 DEF Call
  <2> QED
    BY <2>2, <2>3
<1>8. TypeOK'
  <2>1. call' \in [Callers -> Call]
    <3>1. call' = [d \in Callers |-> call'[d]]
      BY DEF Tick
    <3> QED
      BY <1>7, <3>1
  <2>2. \A d \in Callers : Within(call'[d])
    BY <1>7, CallType DEF Within
  <2>3. entry' \in [ver : 1..Now, age : 0..TTL] \union {None}
    BY <1>5
  <2> QED
    BY <1>3, <1>4, <2>1, <2>2, <2>3 DEF Inv, TypeOK, Within
<1>9. ASSUME NEW d \in Callers PROVE CallInv(call[d])'
  <2>1. /\ CallInv(call[d]) /\ call[d].ver \in 0..Now /\ call[d].oldest \in Nat
        /\ call[d].age \in 0..FetchMax
    BY CallType
  <2>2. ASSUME call[d].pc = "store"
        PROVE  log'[call[d].ver].past <= call'[d].age
    <3>1. call[d].ver \in 1..Now /\ log[call[d].ver].past <= call[d].age
      BY <1>1, <2>1, <2>2 DEF CallInv
    <3>2. log[call[d].ver].past \in Nat /\ log'[call[d].ver].past <= log[call[d].ver].past + 1
      BY <1>2, <3>1, LogType DEF Inv
    <3>3. log'[call[d].ver].past \in Nat
      BY <1>2, <3>1, Constants DEF Version
    <3>4. call'[d].age = call[d].age + 1
      BY <1>7, <2>2 DEF Leads
    <3> QED
      BY <2>1, <3>1, <3>2, <3>3, <3>4
  <2>3. ASSUME NEW v \in 1..Now, log'[v].past <= Lag,
               call[d].pc \in {"look", "miss", "fetch", "store", "wait"}
        PROVE  call[d].oldest <= v
    <3>1. log[v].past \in Nat /\ log'[v].past \in Nat /\ log[v].past <= log'[v].past
      BY <1>2, LogType, Constants DEF Inv, Version
    <3>2. log[v].past <= Lag
      BY <1>1, <2>3, <3>1
    <3> QED
      BY <2>1, <2>3, <3>2 DEF CallInv
  <2> QED
    BY <1>3, <1>4, <1>7, <2>1, <2>2, <2>3 DEF CallInv
<1>10. OneLeader' /\ (log[Now].past = 0)'
  <2>1. \A d \in Callers : Leads(d)' <=> Leads(d)
    BY <1>7 DEF Leads
  <2>2. log'[Now] = log[Now]
    BY <1>1, <1>2
  <2> QED
    BY <1>1, <1>3, <2>1, <2>2 DEF Inv, OneLeader
<1> QED
  BY <1>6, <1>8, <1>9, <1>10 DEF Inv

LEMMA InvStep == Inv /\ [Next]_vars => Inv'
<1>1. ASSUME Inv, UNCHANGED vars PROVE Inv'
  BY <1>1 DEF vars, Inv, TypeOK, EntryInv, OneLeader, Leads, CallInv, Now
<1> QED
  BY <1>1, ChangeStep, DeliverStep, TickStep, BeginStep, ReadStep, LookStep, JoinStep, FetchStep,
     StoreStep, FetchFailsStep, EndStep
  DEF Next, Step

LEMMA InvInit == Init => Inv
<1> SUFFICES ASSUME Init PROVE Inv
  OBVIOUS
<1> DEFINE x == [release |-> {}, pods |-> Injected \ Changing, past |-> 0]
<1>1. x \in Version /\ x.past = 0
  BY Constants DEF Version, Names
<1>2. log = <<x>> /\ entry = None /\ store = 0 /\ shown = 0 /\ call = [c \in Callers |-> Idle]
  BY DEF Init
<1> HIDE DEF x
<1>3. log \in Seq(Version) /\ Now = 1 /\ Len(log) = 1 /\ log[Now] = x
  BY <1>1, <1>2 DEF Now
<1>4. TypeOK
  <2>1. 1 \in 1..MaxVersions
    BY DiscoveryConstants
  <2> QED
    BY <1>2, <1>3, <2>1, IdleCall DEF TypeOK
<1> QED
  BY <1>1, <1>2, <1>3, <1>4, IdleCall DEF Inv, EntryInv, OneLeader, Leads, CallInv

LEMMA InvAlways == Spec => []Inv
  BY InvInit, InvStep, PTL DEF Spec

(***************************************************************************)
(* The properties.                                                         *)
(***************************************************************************)

\* A request that precedes a change is shown nothing older than itself, and
\* one that may use the ttlCache nothing that ceased to be true more than an
\* entry's lifetime and a fetch before it began, for any number of requests
\* that share fetches, any durations and any changes.
THEOREM AnswersRecent == Spec => []AnswerIsRecent
<1>1. Inv => AnswerIsRecent
  BY DEF Inv, AnswerIsRecent, CallInv, At
<1> QED
  BY <1>1, InvAlways, PTL

\* What the ttlCache shows never goes back, from one request to the next.
THEOREM NeverShownOlder == Spec => []NeverBackwards
<1>1. Inv => NeverBackwards
  BY DEF Inv, NeverBackwards, CallInv, At
<1> QED
  BY <1>1, InvAlways, PTL

\* A request for one workspace, or before a change, shows a workspace nobody is
\* changing as it is, although its listings are of different ages.
THEOREM ShownTruly == Spec => []ShownAsItIs
<1>1. Inv => ShownAsItIs
  <2> SUFFICES ASSUME Inv, NEW c \in Callers, At(c, "gather"),
                      call[c].req.cached => call[c].req.name # None,
                      NEW w \in Wanted(c), Unchanged(c, w)
               PROVE  /\ w \in Standalone /\ OfReleases(c) =>
                           \A v \in PodVersions(c) :
                             /\ w \in Live(c, v) <=> w \in log[Now].pods
                             /\ w \in Stopped(c, v) <=> w \in log[Now].release \ log[Now].pods
                      /\ w \in Injected /\ ~call[c].req.cached =>
                           \A v \in InjectedVersions(c) :
                             w \in InjectedAt(c, v) <=> w \in log[Now].pods
    BY Zenon DEF ShownAsItIs
  <2>1. /\ Standalone \intersect Injected = {} /\ Place \in [Injected -> InjectNs]
        /\ Now \in Nat /\ call[c].base \in 0..Now /\ call[c].ver \in 0..Now
    BY DiscoveryConstants, CallType, LogType DEF Inv
  <2>2. ASSUME NEW u \in 1..Now, u >= call[c].base
        PROVE  w \in log[u].pods <=> w \in log[Now].pods
    BY <2>1, <2>2 DEF Unchanged
  <2>3. ASSUME w \in Standalone, OfReleases(c), NEW v \in PodVersions(c)
        PROVE  /\ w \in Live(c, v) <=> w \in log[Now].pods
               /\ w \in Stopped(c, v) <=> w \in log[Now].release \ log[Now].pods
    <3>1. /\ CallInv(call[c]) /\ call[c].pc = "gather"
          /\ "standalone" \in call[c].req.scope /\ call[c].from \in {"api", "ttl"}
      BY <2>3 DEF Inv, At, OfReleases
    <3>2. call[c].ver \in 1..Now
      BY <2>1, <2>3, <3>1 DEF CallInv
    <3>3. w \in log[call[c].ver].release <=> w \in log[Now].release
      BY <2>1, <2>3, <3>1, <3>2 DEF CallInv, Unchanged
    <3>4. v \in 1..Now /\ v >= call[c].base
      BY <2>1, <2>3, <3>2 DEF PodVersions
    <3>5. w \in log[v].pods <=> w \in log[Now].pods
      BY <2>2, <3>4
    <3>6. w \in Live(c, v) <=> w \in log[v].pods
      BY <2>1, <2>3 DEF Live, PodsIn
    <3> QED
      BY <3>3, <3>5, <3>6 DEF Stopped
  <2>4. ASSUME w \in Injected, ~call[c].req.cached, NEW v \in InjectedVersions(c)
        PROVE  w \in InjectedAt(c, v) <=> w \in log[Now].pods
    <3>1. v \in 1..Now /\ v >= call[c].base
      BY <2>1, <2>4 DEF InjectedVersions
    <3>2. w \in log[v].pods <=> w \in log[Now].pods
      BY <2>2, <3>1
    <3>3. w \in InjectedAt(c, v) <=> w \in log[v].pods
      BY <2>1, <2>4 DEF InjectedAt, PodsIn
    <3> QED
      BY <3>2, <3>3
  <2> QED
    BY <2>3, <2>4
<1> QED
  BY <1>1, InvAlways, PTL

-----------------------------------------------------------------------------
(* WorkspaceQuery                                                          *)

(***************************************************************************)
(* Induction, for a set of numbers.                                        *)
(***************************************************************************)

LEMMA SetInduction ==
  ASSUME NEW T, 0 \in T, \A n \in Nat : n \in T => n + 1 \in T
  PROVE  Nat \subseteq T
<1> SUFFICES ASSUME Nat \ T # {} PROVE FALSE
  OBVIOUS
<1>1. PICK n \in Nat \ T : \A y \in Nat \ T : n <= y
  BY LeastNumber
<1>2. n # 0 /\ n - 1 \in Nat /\ ~(n <= n - 1)
  BY <1>1
<1>3. n - 1 \in T
  BY <1>1, <1>2
<1>4. (n - 1) + 1 \in T
  BY <1>2, <1>3
<1> QED
  BY <1>1, <1>4

\* f begins with a and goes on by G.
Iterates(f, N, a, G) == f[0] = a /\ \A n \in 1..N : f[n] = G[n][f[n - 1]]

LEMMA RecursionExists ==
  ASSUME NEW N \in Nat, NEW S, NEW a \in S, NEW G \in [1..N -> [S -> S]]
  PROVE  \E f \in [0..N -> S] : Iterates(f, N, a, G)
<1> DEFINE T == {m \in Nat : m <= N => \E f \in [0..m -> S] : Iterates(f, m, a, G)}
<1>1. 0 \in T
  <2> DEFINE f == [n \in 0..0 |-> a]
  <2>1. f \in [0..0 -> S] /\ f[0] = a
    OBVIOUS
  <2>2. Iterates(f, 0, a, G)
    BY <2>1 DEF Iterates
  <2> QED
    BY <2>1, <2>2
<1>2. ASSUME NEW m \in Nat, m \in T PROVE m + 1 \in T
  <2> SUFFICES ASSUME m + 1 <= N PROVE \E g \in [0..m + 1 -> S] : Iterates(g, m + 1, a, G)
    OBVIOUS
  <2>1. PICK f \in [0..m -> S] : Iterates(f, m, a, G)
    BY <1>2
  <2>2. f[m] \in S /\ m + 1 \in 1..N
    BY <2>1
  <2>3. PICK b \in S : b = G[m + 1][f[m]]
    BY <2>2
  <2> DEFINE g == [n \in 0..m + 1 |-> IF n = m + 1 THEN b ELSE f[n]]
  <2>4. g \in [0..m + 1 -> S]
    BY <2>1, <2>3
  <2>5. g[m + 1] = b /\ \A n \in 0..m : g[n] = f[n]
    OBVIOUS
  <2> HIDE DEF g
  <2>6. \A n \in 1..m + 1 : g[n] = G[n][g[n - 1]]
    <3> SUFFICES ASSUME NEW n \in 1..m + 1 PROVE g[n] = G[n][g[n - 1]]
      OBVIOUS
    <3>1. CASE n = m + 1
      <4>1. n - 1 = m /\ g[n - 1] = f[m]
        BY <3>1, <2>5
      <4> QED
        BY <4>1, <3>1, <2>3, <2>5
    <3>2. CASE n \in 1..m
      <4>1. g[n] = f[n] /\ n - 1 \in 0..m /\ g[n - 1] = f[n - 1]
        BY <3>2, <2>5
      <4>2. f[n] = G[n][f[n - 1]]
        BY <3>2, <2>1 DEF Iterates
      <4> QED
        BY <4>1, <4>2
    <3> QED
      BY <3>1, <3>2
  <2>7. g[0] = a
    BY <2>1, <2>5 DEF Iterates
  <2> QED
    BY <2>4, <2>6, <2>7 DEF Iterates
<1> HIDE DEF T
<1>3. N \in T
  BY <1>1, <1>2, SetInduction
<1> QED
  BY <1>3 DEF T

(***************************************************************************)
(* The sort keeps what it is given.                                        *)
(***************************************************************************)

LEMMA GreatestNumber ==
  ASSUME NEW N \in Nat, NEW I \in SUBSET (0..N), 0 \in I
  PROVE  Max(I) \in I /\ \A i \in I : i <= Max(I)
<1> DEFINE D == {n \in Nat : \E i \in I : n = N - i}
<1>1. N \in D /\ D \in SUBSET Nat
  OBVIOUS
<1>2. PICK d \in D : \A e \in D : d <= e
  BY <1>1, LeastNumber
<1>3. PICK i \in I : d = N - i
  BY <1>2
<1>4. \A j \in I : i >= j
  <2> SUFFICES ASSUME NEW j \in I PROVE i >= j
    OBVIOUS
  <2>1. N - j \in D /\ j \in 0..N /\ i \in 0..N
    OBVIOUS
  <2>2. d <= N - j
    BY <2>1, <1>2
  <2> QED
    BY <2>1, <2>2, <1>3
<1> QED
  BY <1>4 DEF Max

LEMMA InRange ==
  ASSUME NEW W, NEW s \in Seq(W), NEW x
  PROVE  x \in ToSet(s) <=> \E i \in 1..Len(s) : x = s[i]
<1>1. DOMAIN s = 1..Len(s)
  OBVIOUS
<1> QED
  BY <1>1, Zenon DEF ToSet

LEMMA RangeOfConcat ==
  ASSUME NEW W, NEW s \in Seq(W), NEW t \in Seq(W)
  PROVE  s \o t \in Seq(W) /\ ToSet(s \o t) = ToSet(s) \cup ToSet(t)
<1> DEFINE u == s \o t
<1>1. /\ u \in Seq(W) /\ Len(u) = Len(s) + Len(t) /\ Len(s) \in Nat /\ Len(t) \in Nat
      /\ \A i \in 1..Len(s) + Len(t) : u[i] = IF i <= Len(s) THEN s[i] ELSE t[i - Len(s)]
  BY ConcatProperties
<1> HIDE DEF u
<1>2. ASSUME NEW i \in 1..Len(u) PROVE u[i] \in ToSet(s) \cup ToSet(t)
  <2>1. CASE i <= Len(s)
    <3>1. i \in 1..Len(s) /\ u[i] = s[i]
      BY <2>1, <1>1
    <3> QED
      BY <3>1, InRange
  <2>2. CASE i > Len(s)
    <3>1. i - Len(s) \in 1..Len(t) /\ u[i] = t[i - Len(s)]
      BY <2>2, <1>1
    <3> QED
      BY <3>1, InRange
  <2> QED
    BY <2>1, <2>2, <1>1
<1>3. ASSUME NEW i \in 1..Len(s) PROVE s[i] \in ToSet(u)
  <2>1. i \in 1..Len(u) /\ u[i] = s[i]
    BY <1>1
  <2> QED
    BY <2>1, <1>1, InRange
<1>4. ASSUME NEW i \in 1..Len(t) PROVE t[i] \in ToSet(u)
  <2>1. i + Len(s) \in 1..Len(u) /\ ~(i + Len(s) <= Len(s)) /\ (i + Len(s)) - Len(s) = i
    BY <1>1
  <2>2. u[i + Len(s)] = t[i]
    BY <2>1, <1>1
  <2> QED
    BY <2>1, <2>2, <1>1, InRange
<1>5. \A x : x \in ToSet(u) => x \in ToSet(s) \cup ToSet(t)
  BY <1>1, <1>2, InRange
<1>6. \A x : x \in ToSet(s) \cup ToSet(t) => x \in ToSet(u)
  BY <1>3, <1>4, InRange
<1> QED
  BY <1>1, <1>5, <1>6 DEF u

LEMMA RangeOfSlice ==
  ASSUME NEW W, NEW s \in Seq(W), NEW m \in Nat \ {0}, NEW n \in Nat, n <= Len(s)
  PROVE  /\ SubSeq(s, m, n) \in Seq(W)
         /\ \A x : x \in ToSet(SubSeq(s, m, n)) <=> \E i \in m..n : x = s[i]
<1> DEFINE u == SubSeq(s, m, n)
<1>1. Len(s) \in Nat /\ \A i \in 1..Len(s) : s[i] \in W
  OBVIOUS
<1>2. \A i \in m..n : s[i] \in W
  BY <1>1
<1>3. /\ u \in Seq(W) /\ Len(u) = (IF m <= n THEN n - m + 1 ELSE 0)
      /\ \A i \in 1..n - m + 1 : u[i] = s[m + i - 1]
  BY <1>2, SubSeqProperties
<1> HIDE DEF u
<1>4. ASSUME NEW i \in 1..Len(u) PROVE m + i - 1 \in m..n /\ u[i] = s[m + i - 1]
  <2>1. m <= n /\ i \in 1..n - m + 1
    BY <1>3
  <2> QED
    BY <2>1, <1>3
<1>5. ASSUME NEW i \in m..n PROVE s[i] \in ToSet(u)
  <2>1. i - m + 1 \in 1..Len(u) /\ i - m + 1 \in 1..n - m + 1 /\ m + (i - m + 1) - 1 = i
    BY <1>3
  <2>2. u[i - m + 1] = s[i]
    BY <2>1, <1>3
  <2> QED
    BY <2>1, <2>2, <1>3, InRange
<1>6. \A x : x \in ToSet(u) => \E i \in m..n : x = s[i]
  <2> SUFFICES ASSUME NEW x \in ToSet(u) PROVE \E i \in m..n : x = s[i]
    OBVIOUS
  <2>1. PICK i \in 1..Len(u) : x = u[i]
    BY <1>3, InRange
  <2> QED
    BY <2>1, <1>4
<1> QED
  BY <1>3, <1>5, <1>6 DEF u

LEMMA InsertKeeps ==
  ASSUME NEW W, NEW s \in Seq(W), NEW w \in W, NEW sorts
  PROVE  Insert(s, w, sorts) \in Seq(W) /\ ToSet(Insert(s, w, sorts)) = ToSet(s) \cup {w}
<1> DEFINE I == {i \in DOMAIN s : ~Less(w, s[i], sorts)} \cup {0}
<1>1. Len(s) \in Nat /\ DOMAIN s = 1..Len(s)
  OBVIOUS
<1>2. I \in SUBSET (0..Len(s)) /\ 0 \in I
  BY <1>1
<1>e. Insert(s, w, sorts) = InsertAt(s, Max(I) + 1, w)
  BY DEF Insert
<1> HIDE DEF I
<1>3. PICK n \in 0..Len(s) : n = Max(I)
  BY <1>1, <1>2, GreatestNumber
<1> DEFINE l == SubSeq(s, 1, n)
           r == SubSeq(s, n + 1, Len(s))
           q == <<w>>
           u == l \o q
           t == u \o r
<1>4. Insert(s, w, sorts) = t
  <2>1. (n + 1) - 1 = n
    BY <1>1, <1>3
  <2>2. \A m : InsertAt(s, m, w) = SubSeq(s, 1, m - 1) \o <<w>> \o SubSeq(s, m, Len(s))
    BY DEF InsertAt
  <2>3. InsertAt(s, n + 1, w) = SubSeq(s, 1, (n + 1) - 1) \o q \o r
    BY <2>2, Zenon
  <2> QED
    BY <2>1, <2>3, <1>e, <1>3, Zenon
<1>5. /\ l \in Seq(W) /\ \A x : x \in ToSet(l) <=> \E i \in 1..n : x = s[i]
      /\ r \in Seq(W) /\ \A x : x \in ToSet(r) <=> \E i \in n + 1..Len(s) : x = s[i]
  <2>1. n \in Nat /\ n <= Len(s) /\ 1 \in Nat \ {0} /\ n + 1 \in Nat \ {0} /\ Len(s) <= Len(s)
    BY <1>1, <1>3
  <2> QED
    BY <2>1, <1>1, RangeOfSlice
<1>6. q \in Seq(W) /\ ToSet(q) = {w}
  <2>1. q \in Seq(W) /\ Len(q) = 1 /\ q[1] = w
    OBVIOUS
  <2> HIDE DEF q
  <2>2. \A x : x \in ToSet(q) <=> \E i \in 1..1 : x = q[i]
    BY <2>1, InRange
  <2> QED
    BY <2>1, <2>2
<1> HIDE DEF l, r, q
<1>7. u \in Seq(W) /\ ToSet(u) = ToSet(l) \cup {w}
  BY <1>5, <1>6, RangeOfConcat
<1> HIDE DEF u
<1>8. t \in Seq(W) /\ ToSet(t) = ToSet(u) \cup ToSet(r)
  BY <1>5, <1>7, RangeOfConcat
<1>9. \A x : x \in ToSet(s) <=> x \in ToSet(l) \/ x \in ToSet(r)
  <2>1. \A x : x \in ToSet(s) <=> \E i \in 1..Len(s) : x = s[i]
    BY InRange
  <2>2. \A i : i \in 1..Len(s) <=> i \in 1..n \/ i \in n + 1..Len(s)
    BY <1>1, <1>3
  <2> QED
    BY <2>1, <2>2, <1>5
<1> QED
  BY <1>4, <1>7, <1>8, <1>9

\* The list is sorted by inserting one element after the other.
SortsBySteps(f, list, sorts) ==
    /\ f[0] = <<>>
    /\ \A n \in 1..Len(list) : f[n] = Insert(f[n - 1], list[n], sorts)
    /\ SortWorkspaces(list, sorts) = f[Len(list)]

LEMMA SortSteps ==
  ASSUME NEW W, NEW list \in Seq(W), NEW sorts
  PROVE  \E f : SortsBySteps(f, list, sorts)
<1> DEFINE N == Len(list)
           Def(f) == f = [n \in 0..N |-> IF n = 0 THEN <<>> ELSE Insert(f[n - 1], list[n], sorts)]
           sorted == CHOOSE f : Def(f)
<1>1. N \in Nat /\ \A n \in 1..N : list[n] \in W
  OBVIOUS
<1>2. SortWorkspaces(list, sorts) = sorted[N]
  BY DEF SortWorkspaces
<1>3. \E f : Def(f)
  <2> DEFINE S == Seq(W)
             G == [n \in 1..N |-> [s \in S |-> Insert(s, list[n], sorts)]]
             e == <<>>
  <2>1. e \in S
    OBVIOUS
  <2>2. \A n \in 1..N, s \in S : G[n][s] = Insert(s, list[n], sorts)
    OBVIOUS
  <2>3. G \in [1..N -> [S -> S]]
    BY <1>1, InsertKeeps
  <2> HIDE DEF S, G, N, e
  <2>4. PICK f \in [0..N -> S] : Iterates(f, N, e, G)
    BY <1>1, <2>1, <2>3, RecursionExists
  <2>5. \A n \in 1..N : f[n] = Insert(f[n - 1], list[n], sorts)
    <3> SUFFICES ASSUME NEW n \in 1..N PROVE f[n] = Insert(f[n - 1], list[n], sorts)
      OBVIOUS
    <3>1. n - 1 \in 0..N /\ f[n - 1] \in S
      BY <1>1, <2>4
    <3> QED
      BY <3>1, <2>2, <2>4 DEF Iterates
  <2>6. Def(f)
    BY <1>1, <2>4, <2>5 DEF Iterates, e
  <2> QED
    BY <2>6
<1>4. Def(sorted)
  BY <1>3
<1> HIDE DEF sorted, N
<1>5. /\ sorted[0] = <<>>
      /\ \A n \in 1..N : sorted[n] = Insert(sorted[n - 1], list[n], sorts)
  BY <1>1, <1>4
<1>6. SortsBySteps(sorted, list, sorts)
  BY <1>2, <1>5 DEF SortsBySteps, N
<1> QED
  BY <1>6

LEMMA SortKeeps ==
  ASSUME NEW W, NEW list \in Seq(W), NEW sorts
  PROVE  SortWorkspaces(list, sorts) \in Seq(W) /\ ToSet(SortWorkspaces(list, sorts)) = ToSet(list)
<1> DEFINE N == Len(list)
<1>1. N \in Nat /\ \A n \in 1..N : list[n] \in W
  OBVIOUS
<1>2. PICK sorted : SortsBySteps(sorted, list, sorts)
  BY SortSteps
<1>3. SortWorkspaces(list, sorts) = sorted[N]
  BY <1>2 DEF SortsBySteps
<1> HIDE DEF N
<1>5. /\ sorted[0] = <<>>
      /\ \A n \in 1..N : sorted[n] = Insert(sorted[n - 1], list[n], sorts)
  BY <1>2 DEF SortsBySteps, N
<1> DEFINE T == {n \in Nat : n <= N => /\ sorted[n] \in Seq(W)
                                       /\ \A x : x \in ToSet(sorted[n]) <=>
                                                 \E i \in 1..n : x = list[i]}
<1>6. 0 \in T
  <2> DEFINE e == <<>>
  <2>1. e \in Seq(W) /\ Len(e) = 0 /\ sorted[0] = e
    BY <1>5
  <2> HIDE DEF e
  <2>2. \A x : x \in ToSet(e) <=> \E i \in 1..0 : x = e[i]
    BY <2>1, InRange
  <2>3. \A x : x \in ToSet(sorted[0]) <=> \E i \in 1..0 : x = list[i]
    BY <2>1, <2>2
  <2> QED
    BY <2>1, <2>3
<1>7. ASSUME NEW n \in Nat, n \in T PROVE n + 1 \in T
  <2> SUFFICES ASSUME n + 1 <= N
               PROVE  /\ sorted[n + 1] \in Seq(W)
                      /\ \A x : x \in ToSet(sorted[n + 1]) <=> \E i \in 1..n + 1 : x = list[i]
    OBVIOUS
  <2>1. /\ sorted[n] \in Seq(W) /\ n + 1 \in 1..N /\ list[n + 1] \in W
        /\ \A x : x \in ToSet(sorted[n]) <=> \E i \in 1..n : x = list[i]
    BY <1>1, <1>7
  <2>2. sorted[n + 1] = Insert(sorted[n], list[n + 1], sorts)
    BY <2>1, <1>5
  <2>3. /\ sorted[n + 1] \in Seq(W)
        /\ ToSet(sorted[n + 1]) = ToSet(sorted[n]) \cup {list[n + 1]}
    BY <2>1, <2>2, InsertKeeps
  <2>4. \A i : i \in 1..n + 1 <=> i \in 1..n \/ i = n + 1
    OBVIOUS
  <2> QED
    BY <2>1, <2>3, <2>4
<1> HIDE DEF T
<1>8. N \in T
  BY <1>1, <1>6, <1>7, SetInduction
<1>9. /\ sorted[N] \in Seq(W)
      /\ \A x : x \in ToSet(sorted[N]) <=> \E i \in 1..N : x = list[i]
  BY <1>1, <1>8 DEF T
<1>10. \A x : x \in ToSet(list) <=> \E i \in 1..N : x = list[i]
  BY InRange DEF N
<1> QED
  BY <1>3, <1>9, <1>10

\* The listing is in some order; a page is a part of it.
LEMMA Listing ==
  ASSUME NEW F, IsFiniteSet(F), NEW list \in SetToSeqs(F)
  PROVE  list \in Seq(F) /\ ToSet(list) = F
<1>1. Cardinality(F) \in Nat
  BY FS_CardinalityType
<1>2. PICK n \in Nat : n = Cardinality(F)
  BY <1>1
<1>3. list \in [1..n -> F] /\ \A i, j \in 1..n : i # j => list[i] # list[j]
  BY <1>2 DEF SetToSeqs
<1>4. list \in Injection(1..n, F)
  BY <1>3 DEF Injection, IsInjective
<1>5. Cardinality(1..n) = n
  BY FS_Interval
<1>6. list \in Surjection(1..n, F)
  BY <1>2, <1>4, <1>5, FS_Injection
<1>7. list \in Seq(F) /\ Len(list) = n
  BY <1>3
<1>8. \A x : x \in F <=> \E i \in 1..n : x = list[i]
  BY <1>3, <1>6 DEF Surjection
<1>9. \A x : x \in ToSet(list) <=> \E i \in 1..n : x = list[i]
  BY <1>7, InRange
<1> QED
  BY <1>7, <1>8, <1>9

LEMMA PageKeeps ==
  ASSUME NEW W, NEW s \in Seq(W), NEW from \in Nat, NEW limit \in Nat
  PROVE  /\ PageWorkspaces(s, from, limit) \in Seq(W)
         /\ ToSet(PageWorkspaces(s, from, limit)) \subseteq ToSet(s)
         /\ from = 0 /\ limit = 0 => ToSet(PageWorkspaces(s, from, limit)) = ToSet(s)
<1>1. Len(s) \in Nat
  OBVIOUS
<1>2. PICK n \in Nat : n = PageEnd(Len(s), from, limit) /\ n <= Len(s) /\ (limit = 0 => n = Len(s))
  BY <1>1 DEF PageEnd
<1>3. PICK m \in Nat \ {0} : m = from + 1
  OBVIOUS
<1> DEFINE u == SubSeq(s, m, n)
<1>4. PageWorkspaces(s, from, limit) = u
  BY <1>2, <1>3, Zenon DEF PageWorkspaces
<1>5. u \in Seq(W) /\ \A x : x \in ToSet(u) <=> \E i \in m..n : x = s[i]
  BY <1>2, RangeOfSlice
<1> HIDE DEF u
<1>6. \A x : x \in ToSet(s) <=> \E i \in 1..Len(s) : x = s[i]
  BY InRange
<1>7. \A i \in m..n : i \in 1..Len(s)
  BY <1>1, <1>2
<1>8. ToSet(u) \subseteq ToSet(s)
  BY <1>5, <1>6, <1>7
<1>9. from = 0 /\ limit = 0 => m = 1 /\ n = Len(s)
  BY <1>2, <1>3
<1> QED
  <2>1. ASSUME from = 0, limit = 0 PROVE ToSet(u) = ToSet(s)
    <3>1. \A x : x \in ToSet(u) <=> \E i \in 1..Len(s) : x = s[i]
      BY <1>5, <1>9, <2>1
    <3> QED
      BY <3>1, <1>6
  <2> QED
    BY <2>1, <1>4, <1>5, <1>8

(***************************************************************************)
(* The scope of a call.                                                    *)
(***************************************************************************)
OrgOf       == payload.obligations.org
NameOf      == payload.obligations.username
NamesOf     == IF NameOf = Unset THEN Unrestricted ELSE {NameOf}
NamesOfRole == IntersectUsernames(NamesOf, ToSet(usersSeen))
UsersPage   == SubSeq(holders, Len(usersSeen) + 1, Min({Len(usersSeen) + PageSize, Len(holders)}))

\* The names left by a roles obligation are those of holders, in whatever
\* case, and the one of the username obligation.
LEMMA RoleNames ==
  ASSUME ToSet(usersSeen) # Unrestricted, {NameOf} # Unrestricted
  PROVE  /\ NamesOfRole \subseteq ToSet(usersSeen) \cup {NameOf}
         /\ \A u \in NamesOfRole :
              (\E x \in ToSet(usersSeen) : EqualFold(u, x)) /\ (NameOf = Unset \/ u = NameOf)
         /\ \A x \in ToSet(usersSeen) : NameOf = Unset => x \in NamesOfRole
         /\ \A x \in ToSet(usersSeen) :
              NameOf # Unset /\ EqualFold(x, NameOf) => NameOf \in NamesOfRole
<1>1. CASE NameOf = Unset
  <2>1. NamesOfRole = ToSet(usersSeen)
    BY <1>1 DEF IntersectUsernames, NamesOfRole, NamesOf
  <2> QED
    BY <2>1, <1>1 DEF EqualFold
<1>2. CASE NameOf # Unset
  <2>1. NamesOfRole = {v \in {NameOf} : \E u \in ToSet(usersSeen) : EqualFold(u, v)}
    BY <1>2 DEF IntersectUsernames, NamesOfRole, NamesOf
  <2> QED
    BY <2>1, <1>2 DEF EqualFold
<1> QED
  BY <1>1, <1>2

LEMMA NilIsNoSet ==
  ASSUME payload \in Payloads, NEW S, S \subseteq Users \cup {NameOf}
  PROVE  S # Unrestricted
<1>1. S \in SUBSET (Users \cup {q.obligations.username : q \in Payloads})
  BY DEF NameOf
<1> QED
  BY <1>1, QueryConstants

\* One page of the users with the role.
LEMMA PageOfUsers ==
  ASSUME holders \in Seq(Users), usersSeen \in Seq(Users)
  PROVE  /\ UsersPage \in Seq(Users) /\ ToSet(UsersPage) \subseteq ToSet(holders)
         /\ UsersPage = <<>> => Len(holders) <= Len(usersSeen)
         /\ \A i \in 1..Len(holders) :
              i > Len(usersSeen) /\ i <= Len(usersSeen \o UsersPage) => holders[i] \in ToSet(UsersPage)
<1>1. Len(holders) \in Nat /\ Len(usersSeen) \in Nat /\ PageSize \in Nat /\ PageSize > 0
  BY PageSizeAssumption
<1> DEFINE k == Len(usersSeen) + PageSize
<1>2. k \in Int /\ Len(holders) \in Int
  BY <1>1
<1>3. Min({k, Len(holders)}) = IF k <= Len(holders) THEN k ELSE Len(holders)
  BY <1>2, OfTwo
<1>4. PICK n \in Nat : /\ n = Min({k, Len(holders)}) /\ n <= Len(holders)
                       /\ n <= Len(usersSeen) => n = Len(holders)
  BY <1>1, <1>3
<1>5. PICK m \in Nat \ {0} : m = Len(usersSeen) + 1
  BY <1>1
<1> DEFINE u == SubSeq(holders, m, n)
<1>6. UsersPage = u
  BY <1>4, <1>5, Zenon DEF UsersPage
<1>7. u \in Seq(Users) /\ \A x : x \in ToSet(u) <=> \E i \in m..n : x = holders[i]
  <2>1. n <= Len(holders)
    BY <1>4
  <2> HIDE DEF k
  <2> QED
    BY <2>1, RangeOfSlice, Zenon
<1>8. Len(u) = IF m <= n THEN n - m + 1 ELSE 0
  <2>1. \A i \in 1..Len(holders) : holders[i] \in Users
    OBVIOUS
  <2>2. \A i \in m..n : holders[i] \in Users
    BY <1>1, <1>4, <2>1
  <2> QED
    BY <2>2, SubSeqProperties
<1> HIDE DEF u
<1>9. ToSet(u) \subseteq ToSet(holders)
  <2>1. \A x : x \in ToSet(holders) <=> \E i \in 1..Len(holders) : x = holders[i]
    BY InRange
  <2>2. \A i \in m..n : i \in 1..Len(holders)
    BY <1>1, <1>4
  <2> QED
    BY <2>1, <2>2, <1>7
<1>10. u = <<>> => Len(holders) <= Len(usersSeen)
  BY <1>1, <1>4, <1>5, <1>8
<1>11. Len(usersSeen \o u) = Len(usersSeen) + Len(u)
  BY <1>7, ConcatProperties
<1>12. ASSUME NEW i \in 1..Len(holders), i > Len(usersSeen), i <= Len(usersSeen \o u)
       PROVE  holders[i] \in ToSet(u)
  <2>1. i \in m..n
    BY <1>1, <1>4, <1>5, <1>8, <1>11, <1>12
  <2> QED
    BY <2>1, <1>7
<1> QED
  BY <1>6, <1>7, <1>9, <1>10, <1>12

(***************************************************************************)
(* An answer only has workspaces the obligations allow.                    *)
(***************************************************************************)
Calls ==
    /\ cluster \in Workspaces /\ payload \in Payloads
    /\ pc \in {"call", "roles", "fetch", "answered", "error"}
    /\ holders \in Seq(Users) /\ usersSeen \in Seq(Users)
    /\ offset \in Nat /\ (payload.limit = 0 => offset = 0)
    /\ grants \in Nat /\ revokes \in Nat
    /\ result \in Seq(cluster) /\ walked \in Seq(cluster)
    /\ ToSet(holders) \subseteq ever /\ always \subseteq ever
    /\ scope.usernames = Unrestricted \/ scope.usernames \subseteq ToSet(usersSeen) \cup {NameOf}

Scoped ==
    /\ pc = "roles" => /\ payload.obligations.roles /\ ToSet(usersSeen) \subseteq ever
                       /\ scope = [organization |-> OrgOf, usernames |-> NamesOf]
    /\ pc = "fetch" => \A w \in cluster : ScopeMatches(scope, w) => Allowed(w, ever)
    /\ NothingLeaked

LeakInv == Calls /\ Scoped

LEMMA MoreAllowed ==
  ASSUME NEW w, NEW E, NEW F, E \subseteq F, Allowed(w, E)
  PROVE  Allowed(w, F)
  BY DEF Allowed

\* A step that leaves the calls alone.
LEMMA RolesChange ==
  ASSUME LeakInv, UNCHANGED <<cluster, payload, pc, callVars>>,
         holders' \in Seq(Users), grants' \in Nat, revokes' \in Nat,
         ToSet(holders)' \subseteq ever', always' \subseteq ever', ever \subseteq ever'
  PROVE  LeakInv'
<1>1. /\ cluster' = cluster /\ payload' = payload /\ pc' = pc /\ offset' = offset
      /\ usersSeen' = usersSeen /\ scope' = scope /\ result' = result /\ walked' = walked
  BY DEF callVars
<1>2. Calls'
  <2>1. NameOf' = NameOf /\ ToSet(usersSeen') = ToSet(usersSeen)
    BY <1>1 DEF NameOf
  <2> QED
    BY <1>1, <2>1 DEF LeakInv, Calls
<1>3. OrgOf' = OrgOf /\ NamesOf' = NamesOf
  BY <1>1 DEF OrgOf, NamesOf, NameOf
<1>4. \A w : Allowed(w, ever) => Allowed(w, ever)'
  BY <1>1 DEF Allowed
<1>5. \A w : ScopeMatches(scope, w)' <=> ScopeMatches(scope, w)
  BY <1>1 DEF ScopeMatches
<1>6. NothingLeaked'
  BY <1>1, <1>4 DEF LeakInv, Scoped, NothingLeaked
<1>7. Scoped'
  <2>1. ASSUME pc' = "roles"
        PROVE  /\ payload'.obligations.roles /\ ToSet(usersSeen)' \subseteq ever'
               /\ scope' = [organization |-> OrgOf', usernames |-> NamesOf']
    BY <1>1, <1>3, <2>1 DEF LeakInv, Scoped
  <2>2. ASSUME pc' = "fetch", NEW w \in cluster', ScopeMatches(scope, w)' PROVE Allowed(w, ever)'
    BY <1>1, <1>4, <1>5, <2>2 DEF LeakInv, Scoped
  <2> QED
    BY <2>1, <2>2, <1>6 DEF Scoped
<1> QED
  BY <1>2, <1>7 DEF LeakInv

LEMMA ResolveLeaks ==
  ASSUME LeakInv, ResolveScope
  PROVE  LeakInv'
<1>1. /\ cluster' = cluster /\ payload' = payload /\ offset' = offset /\ result' = result
      /\ walked' = walked /\ holders' = holders /\ grants' = grants /\ revokes' = revokes
      /\ usersSeen' = <<>> /\ always' = ToSet(holders) /\ ever' = ToSet(holders)
      /\ pc' \in {"roles", "fetch"} /\ (pc' = "roles" <=> payload.obligations.roles)
  <2>1. payload.obligations.roles \in BOOLEAN
    BY QueryConstants DEF LeakInv, Calls
  <2> QED
    BY <2>1 DEF ResolveScope
<1>2. scope' = [organization |-> OrgOf, usernames |-> NamesOf]
  BY DEF ResolveScope, OrgOf, NamesOf, NameOf
<1>3. OrgOf' = OrgOf /\ NamesOf' = NamesOf /\ NameOf' = NameOf
  BY <1>1 DEF OrgOf, NamesOf, NameOf
<1>4. scope'.organization = OrgOf /\ scope'.usernames = NamesOf
  BY <1>2
<1>5. usersSeen' \in Seq(Users) /\ ToSet(usersSeen') = {}
  BY <1>1 DEF ToSet
<1>6. NamesOf = Unrestricted \/ NamesOf \subseteq ToSet(usersSeen') \cup {NameOf}
  BY DEF NamesOf
<1>7. Calls'
  BY <1>1, <1>3, <1>4, <1>5, <1>6 DEF LeakInv, Calls
<1>8. ASSUME pc' = "fetch", NEW w, ScopeMatches(scope', w) PROVE Allowed(w, ever)'
  <2>1. ~payload.obligations.roles
    BY <1>1, <1>8
  <2>2. OrgOf = Unset \/ EqualFold(w.organization, OrgOf)
    BY <1>4, <1>8 DEF ScopeMatches
  <2>3. {NameOf} # Unrestricted
    BY NilIsNoSet DEF LeakInv, Calls
  <2>4. NameOf = Unset \/ EqualFold(w.username, NameOf)
    BY <1>4, <1>8, <2>3 DEF ScopeMatches, NamesOf, EqualFold
  <2> QED
    BY <1>1, <2>1, <2>2, <2>4 DEF Allowed, OrgOf, NameOf
<1>9. NothingLeaked'
  BY <1>1 DEF NothingLeaked
<1>10. \A w : ScopeMatches(scope, w)' <=> ScopeMatches(scope', w)
  BY DEF ScopeMatches
<1>11. pc' = "roles" => /\ payload'.obligations.roles /\ ToSet(usersSeen)' \subseteq ever'
                        /\ scope' = [organization |-> OrgOf', usernames |-> NamesOf']
  BY <1>1, <1>2, <1>3, <1>5
<1>12. Scoped'
  BY <1>8, <1>9, <1>10, <1>11 DEF Scoped
<1> QED
  BY <1>7, <1>12 DEF LeakInv

LEMMA GetUsersLeaks ==
  ASSUME LeakInv, GetUsers
  PROVE  LeakInv'
<1>1. /\ cluster' = cluster /\ payload' = payload /\ offset' = offset /\ walked' = walked
      /\ holders' = holders /\ always' = always /\ ever' = ever
      /\ grants' = grants /\ revokes' = revokes /\ pc = "roles"
  BY DEF GetUsers, roles
<1>2. Calls /\ Scoped
  BY DEF LeakInv
<1>3. /\ payload.obligations.roles /\ ToSet(usersSeen) \subseteq ever
      /\ scope = [organization |-> OrgOf, usernames |-> NamesOf]
  BY <1>1, <1>2 DEF Scoped
<1>4. OrgOf' = OrgOf /\ NamesOf' = NamesOf /\ NameOf' = NameOf
  BY <1>1 DEF OrgOf, NamesOf, NameOf
<1>5. /\ UsersPage \in Seq(Users) /\ ToSet(UsersPage) \subseteq ToSet(holders)
  BY <1>2, PageOfUsers DEF Calls
<1>6. CASE UsersPage # <<>>
  <2>1. usersSeen' = usersSeen \o UsersPage /\ pc' = pc /\ scope' = scope /\ result' = result
    BY <1>6 DEF GetUsers, UsersPage
  <2>2. usersSeen' \in Seq(Users) /\ ToSet(usersSeen') = ToSet(usersSeen) \cup ToSet(UsersPage)
    BY <1>2, <1>5, <2>1, RangeOfConcat DEF Calls
  <2>3. ToSet(usersSeen') \subseteq ever
    BY <1>2, <1>3, <1>5, <2>2 DEF Calls
  <2>4. Calls'
    BY <1>1, <1>2, <1>4, <2>1, <2>2 DEF Calls
  <2>5. NothingLeaked'
    BY <1>1, <2>1 DEF NothingLeaked
  <2>6. Scoped'
    BY <1>1, <1>3, <1>4, <2>1, <2>3, <2>5 DEF Scoped
  <2> QED
    BY <2>4, <2>6 DEF LeakInv
<1>7. CASE UsersPage = <<>>
  <2>1. /\ scope' = [scope EXCEPT !.usernames = NamesOfRole] /\ result' = <<>>
        /\ pc' \in {"answered", "fetch"} /\ usersSeen' = usersSeen
    <3>1. scope.usernames = NamesOf
      BY <1>3
    <3> QED
      BY <1>7, <3>1 DEF GetUsers, UsersPage, NamesOfRole
  <2>2. scope' = [organization |-> OrgOf, usernames |-> NamesOfRole]
    BY <1>3, <2>1
  <2>3. scope'.organization = OrgOf /\ scope'.usernames = NamesOfRole
    BY <2>2
  <2>4. ToSet(usersSeen) \subseteq Users
    BY <1>2, InRange DEF Calls
  <2>5. ToSet(usersSeen) # Unrestricted /\ {NameOf} # Unrestricted
    BY <1>2, <2>4, NilIsNoSet DEF Calls
  <2>6. /\ NamesOfRole \subseteq ToSet(usersSeen) \cup {NameOf}
        /\ \A u \in NamesOfRole :
             (\E x \in ToSet(usersSeen) : EqualFold(u, x)) /\ (NameOf = Unset \/ u = NameOf)
    BY <2>5, RoleNames
  <2>7. NamesOfRole # Unrestricted
    BY <1>2, <2>4, <2>6, NilIsNoSet DEF Calls
  <2>8. Calls'
    <3>1. result' \in Seq(cluster') /\ ToSet(usersSeen') = ToSet(usersSeen)
      BY <2>1
    <3> QED
      BY <1>1, <1>2, <1>4, <2>1, <2>3, <2>6, <3>1 DEF Calls
  <2>9. ASSUME NEW w, ScopeMatches(scope', w) PROVE Allowed(w, ever)'
    <3>1. OrgOf = Unset \/ EqualFold(w.organization, OrgOf)
      BY <2>3, <2>9 DEF ScopeMatches
    <3>2. PICK u \in NamesOfRole : EqualFold(u, w.username)
      BY <2>3, <2>7, <2>9 DEF ScopeMatches
    <3>3. PICK x \in ToSet(usersSeen) : EqualFold(u, x)
      BY <2>6, <3>2
    <3>4. EqualFold(w.username, x) /\ x \in ever
      BY <1>3, <3>2, <3>3 DEF EqualFold
    <3>5. NameOf = Unset \/ EqualFold(w.username, NameOf)
      BY <2>6, <3>2 DEF EqualFold
    <3> QED
      BY <1>1, <3>1, <3>4, <3>5 DEF Allowed, OrgOf, NameOf
  <2>10. NothingLeaked'
    <3>1. DOMAIN result' = {}
      BY <2>1
    <3> QED
      BY <3>1 DEF NothingLeaked
  <2>11. \A w : ScopeMatches(scope, w)' <=> ScopeMatches(scope', w)
    BY DEF ScopeMatches
  <2>12. Scoped'
    BY <2>1, <2>9, <2>10, <2>11 DEF Scoped
  <2> QED
    BY <2>8, <2>12 DEF LeakInv
<1> QED
  BY <1>6, <1>7

(***************************************************************************)
(* The second half of a call.                                              *)
(***************************************************************************)
Fetched  == {w \in cluster : Selected(w, Narrow(scope, PushdownOptionsFromPayload(payload)))}
InScope  == {w \in Fetched : ScopeMatches(scope, w)}
Filtered == {w \in InScope : MatchesFilters(w, payload) = "yes"}
Sorts    == IF payload.sorts = <<>> THEN DefaultSort ELSE payload.sorts

LEMMA FetchAnswers ==
  ASSUME Calls, FetchPage
  PROVE  /\ UNCHANGED <<cluster, payload, offset, usersSeen, scope, roles>> /\ pc = "fetch"
         /\ \/ pc' = "error" /\ UNCHANGED <<result, walked>>
            \/ /\ pc' = "answered"
               /\ result' \in Seq(cluster) /\ walked' \in Seq(cluster)
               /\ ToSet(result') \subseteq Filtered
               /\ payload.limit = 0 => ToSet(result') = Filtered
<1>1. UNCHANGED <<cluster, payload, offset, usersSeen, scope, roles>> /\ pc = "fetch"
  BY DEF FetchPage
<1>2. CASE pc' = "error" /\ UNCHANGED <<result, walked>>
  BY <1>1, <1>2
<1>3. CASE \E list \in SetToSeqs(Filtered) :
             /\ result' = PageWorkspaces(SortWorkspaces(list, Sorts), offset, payload.limit)
             /\ walked' = walked \o result'
             /\ pc' = "answered"
  <2>1. PICK list \in SetToSeqs(Filtered) :
             /\ result' = PageWorkspaces(SortWorkspaces(list, Sorts), offset, payload.limit)
             /\ walked' = walked \o result'
             /\ pc' = "answered"
    BY <1>3
  <2>2. IsFiniteSet(cluster) /\ payload.limit \in Nat
    BY QueryConstants DEF Calls
  <2>3. Filtered \subseteq cluster
    BY DEF Filtered, InScope, Fetched
  <2>4. IsFiniteSet(Filtered)
    BY <2>2, <2>3, FS_Subset
  <2>5. list \in Seq(Filtered) /\ ToSet(list) = Filtered
    BY <2>4, Listing
  <2> DEFINE s == SortWorkspaces(list, Sorts)
  <2>6. s \in Seq(Filtered) /\ ToSet(s) = Filtered
    BY <2>5, SortKeeps
  <2> HIDE DEF s
  <2>7. result' = PageWorkspaces(s, offset, payload.limit)
    BY <2>1 DEF s
  <2>8. /\ result' \in Seq(Filtered) /\ ToSet(result') \subseteq Filtered
        /\ payload.limit = 0 => ToSet(result') = Filtered
    BY <2>2, <2>6, <2>7, PageKeeps DEF Calls
  <2>9. result' \in Seq(cluster)
    BY <2>3, <2>8
  <2>10. walked' \in Seq(cluster)
    BY <2>1, <2>9, RangeOfConcat DEF Calls
  <2> QED
    BY <1>1, <2>1, <2>8, <2>9, <2>10
<1> QED
  BY <1>2, <1>3 DEF FetchPage, Filtered, InScope, Fetched, Sorts

LEMMA FetchLeaks ==
  ASSUME LeakInv, FetchPage
  PROVE  LeakInv'
<1>1. Calls /\ Scoped
  BY DEF LeakInv
<1>2. /\ cluster' = cluster /\ payload' = payload /\ offset' = offset
      /\ usersSeen' = usersSeen /\ scope' = scope /\ pc = "fetch"
      /\ holders' = holders /\ always' = always /\ ever' = ever
      /\ grants' = grants /\ revokes' = revokes
  BY <1>1, FetchAnswers DEF roles
<1>3. NameOf' = NameOf /\ ToSet(usersSeen') = ToSet(usersSeen)
  BY <1>2 DEF NameOf
<1>4. CASE pc' = "error" /\ result' = result /\ walked' = walked
  <2>1. NothingLeaked'
    BY <1>4 DEF NothingLeaked
  <2> QED
    BY <1>1, <1>2, <1>3, <1>4, <2>1 DEF LeakInv, Calls, Scoped
<1>5. CASE /\ pc' = "answered"
           /\ result' \in Seq(cluster) /\ walked' \in Seq(cluster)
           /\ ToSet(result') \subseteq Filtered
  <2>1. \A w \in Filtered : Allowed(w, ever)
    BY <1>1, <1>2 DEF Filtered, InScope, Fetched, Scoped
  <2>2. \A w : Allowed(w, ever) => Allowed(w, ever)'
    BY <1>2 DEF Allowed
  <2>3. NothingLeaked'
    <3>1. \A i \in DOMAIN result' : result'[i] \in ToSet(result')
      BY DEF ToSet
    <3> QED
      BY <1>5, <2>1, <2>2, <3>1 DEF NothingLeaked
  <2> QED
    BY <1>1, <1>2, <1>3, <1>5, <2>3 DEF LeakInv, Calls, Scoped
<1> QED
  BY <1>1, <1>4, <1>5, FetchAnswers

LEMMA LeakStep == LeakInv /\ [QueryNext]_queryVars => LeakInv'
<1> SUFFICES ASSUME LeakInv, [QueryNext]_queryVars PROVE LeakInv'
  OBVIOUS
<1>1. Calls /\ Scoped
  BY DEF LeakInv
<1>2. CASE Fail
  <2>1. /\ cluster' = cluster /\ payload' = payload /\ offset' = offset /\ pc' = "error"
        /\ usersSeen' = usersSeen /\ scope' = scope /\ result' = result /\ walked' = walked
        /\ holders' = holders /\ always' = always /\ ever' = ever
        /\ grants' = grants /\ revokes' = revokes
    BY <1>2 DEF Fail, callVars, roles
  <2>2. NameOf' = NameOf /\ ToSet(usersSeen') = ToSet(usersSeen)
    BY <2>1 DEF NameOf
  <2>3. NothingLeaked'
    BY <2>1 DEF NothingLeaked
  <2> QED
    BY <1>1, <2>1, <2>2, <2>3 DEF LeakInv, Calls, Scoped
<1>3. CASE NextPage
  <2>1. /\ cluster' = cluster /\ payload' = payload /\ pc' = "call"
        /\ usersSeen' = usersSeen /\ scope' = scope /\ result' = result /\ walked' = walked
        /\ holders' = holders /\ always' = always /\ ever' = ever
        /\ grants' = grants /\ revokes' = revokes
        /\ offset' = offset + Len(result) /\ payload.limit > 0
    BY <1>3 DEF NextPage, roles
  <2>2. NameOf' = NameOf /\ ToSet(usersSeen') = ToSet(usersSeen)
    BY <2>1 DEF NameOf
  <2>3. NothingLeaked'
    BY <2>1 DEF NothingLeaked
  <2>4. offset' \in Nat /\ payload.limit # 0
    <3>1. Len(result) \in Nat /\ offset \in Nat
      BY <1>1 DEF Calls
    <3> QED
      BY <2>1, <3>1
  <2> QED
    BY <1>1, <2>1, <2>2, <2>3, <2>4 DEF LeakInv, Calls, Scoped
<1>4. CASE Grant
  <2>1. PICK u \in Users \ ToSet(holders) :
          holders' \in {Append(holders, u), <<u>> \o holders} /\ ever' = ever \cup {u}
    BY <1>4 DEF Grant
  <2>2. /\ UNCHANGED <<cluster, payload, pc, callVars>> /\ always' = always
        /\ grants' = grants + 1 /\ revokes' = revokes
    BY <1>4 DEF Grant
  <2>3. holders' \in Seq(Users) /\ ToSet(holders') = ToSet(holders) \cup {u}
    <3> DEFINE q == <<u>>
    <3>1. q \in Seq(Users) /\ ToSet(q) = {u}
      <4>1. q \in Seq(Users) /\ Len(q) = 1 /\ q[1] = u
        OBVIOUS
      <4> HIDE DEF q
      <4>2. \A x : x \in ToSet(q) <=> \E i \in 1..1 : x = q[i]
        BY <4>1, InRange
      <4> QED
        BY <4>1, <4>2
    <3>2. Append(holders, u) = holders \o q
      BY <1>1 DEF Calls
    <3> HIDE DEF q
    <3>3. holders' = holders \o q \/ holders' = q \o holders
      BY <2>1, <3>2 DEF q
    <3>4. holders \in Seq(Users)
      BY <1>1 DEF Calls
    <3>5. CASE holders' = holders \o q
      BY <3>1, <3>4, <3>5, RangeOfConcat
    <3>6. CASE holders' = q \o holders
      BY <3>1, <3>4, <3>6, RangeOfConcat
    <3> QED
      BY <3>3, <3>5, <3>6
  <2>4. grants' \in Nat /\ revokes' \in Nat
    BY <1>1, <2>2 DEF Calls
  <2>5. ToSet(holders)' \subseteq ever' /\ always' \subseteq ever' /\ ever \subseteq ever'
    BY <1>1, <2>1, <2>2, <2>3 DEF Calls
  <2> QED
    BY <2>2, <2>3, <2>4, <2>5, RolesChange
<1>5. CASE Revoke
  <2>1. PICK i \in DOMAIN holders :
          holders' = RemoveAt(holders, i) /\ always' = always \ {holders[i]}
    BY <1>5 DEF Revoke
  <2>2. /\ UNCHANGED <<cluster, payload, pc, callVars>> /\ ever' = ever
        /\ grants' = grants /\ revokes' = revokes + 1
    BY <1>5 DEF Revoke
  <2>3. holders' \in Seq(Users) /\ ToSet(holders') \subseteq ToSet(holders)
    <3>1. /\ holders \in Seq(Users) /\ Len(holders) \in Nat /\ i \in 1..Len(holders)
      BY <1>1 DEF Calls
    <3>2. PICK h \in Nat : h = i - 1 /\ h <= Len(holders)
      BY <3>1
    <3>3. PICK k \in Nat \ {0} : k = i + 1
      BY <3>1
    <3> DEFINE l == SubSeq(holders, 1, h)
               r == SubSeq(holders, k, Len(holders))
    <3>4. holders' = l \o r
      BY <2>1, <3>2, <3>3, Zenon DEF RemoveAt
    <3>5. l \in Seq(Users) /\ \A x : x \in ToSet(l) <=> \E j \in 1..h : x = holders[j]
      BY <3>1, <3>2, RangeOfSlice
    <3>6. r \in Seq(Users) /\ \A x : x \in ToSet(r) <=> \E j \in k..Len(holders) : x = holders[j]
      BY <3>1, RangeOfSlice
    <3> HIDE DEF l, r
    <3>7. holders' \in Seq(Users) /\ ToSet(holders') = ToSet(l) \cup ToSet(r)
      BY <3>4, <3>5, <3>6, RangeOfConcat
    <3>8. \A x : x \in ToSet(holders) <=> \E j \in 1..Len(holders) : x = holders[j]
      BY <3>1, InRange
    <3>9. 1..h \subseteq 1..Len(holders) /\ k..Len(holders) \subseteq 1..Len(holders)
      BY <3>1, <3>2
    <3> QED
      BY <3>5, <3>6, <3>7, <3>8, <3>9
  <2>4. grants' \in Nat /\ revokes' \in Nat
    BY <1>1, <2>2 DEF Calls
  <2>5. ToSet(holders)' \subseteq ever' /\ always' \subseteq ever' /\ ever \subseteq ever'
    BY <1>1, <2>1, <2>2, <2>3 DEF Calls
  <2> QED
    BY <2>2, <2>3, <2>4, <2>5, RolesChange
<1>6. CASE UNCHANGED queryVars
  <2>1. /\ UNCHANGED <<cluster, payload, pc, callVars>>
        /\ holders' = holders /\ always' = always /\ ever' = ever
        /\ grants' = grants /\ revokes' = revokes
    BY <1>6 DEF queryVars, roles
  <2> QED
    BY <1>1, <2>1, RolesChange DEF Calls
<1> QED
  BY <1>2, <1>3, <1>4, <1>5, <1>6, ResolveLeaks, GetUsersLeaks, FetchLeaks DEF QueryNext

LEMMA LeakBegins == QueryInit => LeakInv
<1> SUFFICES ASSUME QueryInit PROVE LeakInv
  OBVIOUS
<1>1. Holders0 \in Seq(Users)
  BY QueryConstants
<1>2. scope.usernames = Unrestricted
  BY DEF QueryInit, NoScope
<1>3. result \in Seq(cluster) /\ walked \in Seq(cluster) /\ usersSeen \in Seq(Users)
  BY DEF QueryInit
<1>4. NothingLeaked
  BY DEF QueryInit, NothingLeaked
<1> QED
  BY <1>1, <1>2, <1>3, <1>4 DEF QueryInit, LeakInv, Calls, Scoped

LEMMA LeakAlways == QuerySpec => []LeakInv
  BY LeakBegins, LeakStep, PTL DEF QuerySpec

\* The record of a call stays well formed.
THEOREM QueryTypes == QuerySpec => []QueryTypeOK
<1>1. LeakInv => QueryTypeOK
  <2> SUFFICES ASSUME LeakInv PROVE QueryTypeOK
    OBVIOUS
  <2>1. Calls
    BY DEF LeakInv
  <2>2. ToSet(result) \subseteq cluster /\ ToSet(walked) \subseteq cluster
    BY <2>1, InRange DEF Calls
  <2> QED
    BY <2>1, <2>2 DEF Calls, QueryTypeOK, NameOf
<1> QED
  BY <1>1, LeakAlways, PTL

\* Every workspace in an answer is one the obligations allow.
THEOREM NeverLeaks == QuerySpec => []NothingLeaked
<1>1. LeakInv => NothingLeaked
  BY DEF LeakInv, Scoped
<1> QED
  BY <1>1, LeakAlways, PTL

(***************************************************************************)
(* Globs.                                                                  *)
(***************************************************************************)

\* One symbol of the pattern, before what matches from the next one on.
GlobEntry(pat, val, i, rest, j) ==
    IF i > Len(pat) THEN j > Len(val)
    ELSE IF pat[i] = Star THEN i = Len(pat) \/ \E k \in StarMayEnd(j, Len(val)) : rest[k]
    ELSE j <= Len(val) /\ pat[i] \in {Mark, val[j]} /\ rest[j + 1]

GlobRow(pat, val, i, rest) ==
    [j \in 1..Len(val) + 1 |-> GlobEntry(pat, val, i, rest, j)]

GlobTable(m, pat, val) ==
    \A i \in 1..Len(pat) + 1 : m[i] = GlobRow(pat, val, i, m[i + 1])

Rows(val) == [1..Len(val) + 1 -> BOOLEAN]

LEMMA GlobRowType ==
  ASSUME NEW A, NEW pat \in Seq(A), NEW val \in Seq(A), NEW i \in 1..Len(pat) + 1,
         NEW rest, i <= Len(pat) => rest \in Rows(val)
  PROVE  GlobRow(pat, val, i, rest) \in Rows(val)
<1>1. Len(val) \in Nat /\ Len(pat) \in Nat
  OBVIOUS
<1> SUFFICES ASSUME NEW j \in 1..Len(val) + 1
             PROVE  (IF i > Len(pat) THEN j > Len(val)
                     ELSE IF pat[i] = Star
                          THEN i = Len(pat) \/ \E k \in StarMayEnd(j, Len(val)) : rest[k]
                     ELSE j <= Len(val) /\ pat[i] \in {Mark, val[j]} /\ rest[j + 1]) \in BOOLEAN
  BY Zenon DEF GlobRow, GlobEntry, Rows
<1>2. CASE i > Len(pat)
  BY <1>1, <1>2
<1>3. CASE ~(i > Len(pat)) /\ pat[i] = Star
  BY <1>3, Zenon
<1>4. CASE ~(i > Len(pat)) /\ pat[i] # Star
  BY <1>4, Zenon
<1> QED
  BY <1>2, <1>3, <1>4, Zenon

LEMMA GlobTableExists ==
  ASSUME NEW A, NEW pat \in Seq(A), NEW val \in Seq(A)
  PROVE  \E m \in [1..Len(pat) + 1 -> Rows(val)] : GlobTable(m, pat, val)
<1> DEFINE P == Len(pat)
           S == Rows(val)
           e == GlobRow(pat, val, P + 1, <<>>)
           G == [n \in 1..P |-> [row \in S |-> GlobRow(pat, val, P + 1 - n, row)]]
<1>1. P \in Nat
  OBVIOUS
<1>2. e \in S
  BY <1>1, GlobRowType
<1>3. G \in [1..P -> [S -> S]]
  <2> SUFFICES ASSUME NEW n \in 1..P, NEW row \in S
               PROVE  GlobRow(pat, val, P + 1 - n, row) \in S
    OBVIOUS
  <2>1. P + 1 - n \in 1..P + 1
    BY <1>1
  <2> QED
    BY <2>1, GlobRowType
<1>4. \A n \in 1..P, row \in S : G[n][row] = GlobRow(pat, val, P + 1 - n, row)
  OBVIOUS
<1>e. \A r : GlobRow(pat, val, P + 1, r) = e
  <2>1. \A r : GlobRow(pat, val, P + 1, r) = [j \in 1..Len(val) + 1 |-> j > Len(val)]
    <3>1. P + 1 > Len(pat)
      BY <1>1
    <3> QED
      BY <3>1 DEF GlobRow, GlobEntry
  <2> QED
    BY <2>1
<1> HIDE DEF P, S, e, G
<1>5. PICK f \in [0..P -> S] : Iterates(f, P, e, G)
  BY <1>1, <1>2, <1>3, RecursionExists
<1> DEFINE m == [i \in 1..P + 1 |-> f[P + 1 - i]]
<1>6. m \in [1..P + 1 -> S]
  BY <1>1, <1>5
<1>7. \A i \in 1..P + 1 : m[i] = GlobRow(pat, val, i, m[i + 1])
  <2> SUFFICES ASSUME NEW i \in 1..P + 1 PROVE m[i] = GlobRow(pat, val, i, m[i + 1])
    OBVIOUS
  <2>1. CASE i = P + 1
    <3>1. P + 1 - i = 0
      BY <1>1, <2>1
    <3>2. m[i] = e
      BY <3>1, <1>5 DEF Iterates
    <3> HIDE DEF m
    <3> QED
      BY <2>1, <3>2, <1>e
  <2>2. CASE i # P + 1
    <3>1. PICK n \in 1..P : n = P + 1 - i /\ n - 1 = P + 1 - (i + 1) /\ i = P + 1 - n /\ i + 1 \in 1..P + 1
      BY <1>1, <2>2
    <3>2. m[i] = f[n] /\ m[i + 1] = f[n - 1] /\ f[n - 1] \in S
      BY <1>1, <1>5, <3>1
    <3>3. f[n] = G[n][f[n - 1]]
      BY <1>5 DEF Iterates
    <3>4. f[n] = GlobRow(pat, val, P + 1 - n, f[n - 1])
      BY <1>4, <3>2, <3>3
    <3> HIDE DEF m
    <3> QED
      BY <3>1, <3>2, <3>4
  <2> QED
    BY <2>1, <2>2
<1> HIDE DEF m
<1> QED
  BY <1>6, <1>7 DEF GlobTable, P, S

LEMMA GlobIsTable ==
  ASSUME NEW A, NEW pat \in Seq(A), NEW val \in Seq(A)
  PROVE  \E m \in [1..Len(pat) + 1 -> Rows(val)] :
            GlobTable(m, pat, val) /\ GlobMatchLower(pat, val) = m[1][1]
<1> DEFINE Def(m) == m = [i \in 1..Len(pat) + 1 |-> [j \in 1..Len(val) + 1 |->
                IF i > Len(pat) THEN j > Len(val)
                ELSE IF pat[i] = Star
                     THEN i = Len(pat) \/ \E k \in StarMayEnd(j, Len(val)) : m[i + 1][k]
                ELSE j <= Len(val) /\ pat[i] \in {Mark, val[j]} /\ m[i + 1][j + 1]]]
           c == CHOOSE m : Def(m)
<1>1. GlobMatchLower(pat, val) = c[1][1]
  BY DEF GlobMatchLower
<1>2. \A m : Def(m) <=> m = [i \in 1..Len(pat) + 1 |-> GlobRow(pat, val, i, m[i + 1])]
  BY Zenon DEF GlobRow, GlobEntry
<1> HIDE DEF Def
<1>3. PICK m \in [1..Len(pat) + 1 -> Rows(val)] : GlobTable(m, pat, val)
  BY GlobTableExists
<1>4. Def(m)
  <2>1. m = [i \in 1..Len(pat) + 1 |-> GlobRow(pat, val, i, m[i + 1])]
    BY <1>3 DEF GlobTable
  <2> QED
    BY <2>1, <1>2
<1>5. Def(c)
  BY <1>4
<1> HIDE DEF c
<1>6. c = [i \in 1..Len(pat) + 1 |-> GlobRow(pat, val, i, c[i + 1])]
  BY <1>2, <1>5
<1>7. GlobTable(c, pat, val)
  BY <1>6 DEF GlobTable
<1> DEFINE P == Len(pat)
           T == {n \in Nat : n <= P => c[P + 1 - n] \in Rows(val)}
<1>8. P \in Nat /\ \A i \in 1..P + 1 : c[i] = GlobRow(pat, val, i, c[i + 1])
  BY <1>7 DEF GlobTable
<1>9. 0 \in T
  <2>1. GlobRow(pat, val, P + 1, c[P + 2]) \in Rows(val)
    BY <1>8, GlobRowType
  <2>2. c[P + 1] = GlobRow(pat, val, P + 1, c[P + 1 + 1]) /\ P + 1 + 1 = P + 2 /\ P + 1 - 0 = P + 1
    BY <1>8
  <2> HIDE DEF P
  <2> QED
    BY <2>1, <2>2
<1>10. ASSUME NEW n \in Nat, n \in T PROVE n + 1 \in T
  <2> SUFFICES ASSUME n + 1 <= P PROVE c[P + 1 - (n + 1)] \in Rows(val)
    OBVIOUS
  <2>1. PICK i \in 1..P + 1 : i = P + 1 - (n + 1) /\ i + 1 = P + 1 - n /\ i <= P
    BY <1>8
  <2>2. c[i + 1] \in Rows(val)
    BY <1>10, <2>1
  <2>3. GlobRow(pat, val, i, c[i + 1]) \in Rows(val)
    BY <2>2, GlobRowType
  <2> QED
    BY <1>8, <2>1, <2>3
<1> HIDE DEF T, P
<1>11. \A n \in Nat : n <= P => c[P + 1 - n] \in Rows(val)
  <2>1. Nat \subseteq T
    BY <1>9, <1>10, SetInduction
  <2> QED
    BY <2>1 DEF T
<1>12. \A i \in 1..P + 1 : c[i] \in Rows(val)
  <2> SUFFICES ASSUME NEW i \in 1..P + 1 PROVE c[i] \in Rows(val)
    OBVIOUS
  <2>1. P + 1 - i \in Nat /\ P + 1 - i <= P /\ P + 1 - (P + 1 - i) = i
    BY <1>8
  <2> QED
    BY <2>1, <1>11
<1>13. c \in [1..P + 1 -> Rows(val)]
  BY <1>6, <1>12 DEF P
<1> QED
  BY <1>1, <1>7, <1>13 DEF P

\* The pattern from its symbol i on matches the value from its byte j on: the
\* rest of the value can be cut into pieces.
Piece(pat, val, cut, l) ==
    IF pat[l] = Star THEN cut[l - 1] <= cut[l]
    ELSE cut[l] = cut[l - 1] + 1 /\ pat[l] \in {Mark, val[cut[l]]}

Cuts(pat, val, i, j) ==
    {cut \in [i - 1..Len(pat) -> 0..Len(val)] :
        /\ cut[i - 1] = j - 1 /\ cut[Len(pat)] = Len(val)
        /\ \A l \in i..Len(pat) : Piece(pat, val, cut, l)}

LEMMA LastCut ==
  ASSUME NEW A, NEW pat \in Seq(A), NEW val \in Seq(A), NEW j \in 1..Len(val) + 1
  PROVE  Cuts(pat, val, Len(pat) + 1, j) # {} <=> j > Len(val)
<1>1. PICK P \in Nat : P = Len(pat) /\ (P + 1) - 1 = P
  OBVIOUS
<1>2. PICK V \in Nat : V = Len(val)
  OBVIOUS
<1>3. ASSUME NEW cut \in Cuts(pat, val, P + 1, j) PROVE j > V
  <2>1. cut[P] = j - 1 /\ cut[P] = V
    BY <1>1, <1>2, <1>3 DEF Cuts
  <2> QED
    BY <2>1, <1>2
<1>4. ASSUME j > V PROVE Cuts(pat, val, P + 1, j) # {}
  <2> DEFINE cut == [l \in P..P |-> V]
  <2>1. cut \in [P..P -> 0..V] /\ cut[P] = V /\ V = j - 1
    BY <1>2, <1>4
  <2>2. P + 1..P = {}
    OBVIOUS
  <2> HIDE DEF cut
  <2>3. cut \in Cuts(pat, val, P + 1, j)
    BY <1>1, <1>2, <2>1, <2>2 DEF Cuts
  <2> QED
    BY <2>3
<1> QED
  BY <1>1, <1>2, <1>3, <1>4

\* Without the piece of its first symbol, the rest is cut as well.
LEMMA CutShrinks ==
  ASSUME NEW A, NEW pat \in Seq(A), NEW val \in Seq(A), NEW i \in 1..Len(pat),
         NEW j \in 1..Len(val) + 1, NEW cut \in Cuts(pat, val, i, j)
  PROVE  \E k \in 1..Len(val) + 1 :
            /\ Cuts(pat, val, i + 1, k) # {}
            /\ IF pat[i] = Star THEN j <= k
               ELSE j <= Len(val) /\ pat[i] \in {Mark, val[j]} /\ k = j + 1
<1>1. PICK P \in Nat : P = Len(pat)
  OBVIOUS
<1>2. PICK V \in Nat : V = Len(val)
  OBVIOUS
<1>3. /\ cut \in [i - 1..P -> 0..V] /\ cut[i - 1] = j - 1 /\ cut[P] = V
      /\ \A l \in i..P : Piece(pat, val, cut, l)
  BY <1>1, <1>2 DEF Cuts
<1>4. cut[i] \in 0..V /\ (i + 1) - 1 = i
  BY <1>1, <1>3
<1>5. PICK k \in 1..V + 1 : k = cut[i] + 1 /\ cut[i] = k - 1
  BY <1>4
<1> DEFINE rest == [l \in i..P |-> cut[l]]
<1>6. rest \in [i..P -> 0..V] /\ rest[i] = k - 1 /\ rest[P] = V
  BY <1>1, <1>3, <1>5
<1>7. \A l \in i + 1..P : rest[l] = cut[l] /\ rest[l - 1] = cut[l - 1]
  BY <1>1
<1> HIDE DEF rest
<1>8. \A l \in i + 1..P : Piece(pat, val, rest, l)
  <2> SUFFICES ASSUME NEW l \in i + 1..P PROVE Piece(pat, val, rest, l)
    OBVIOUS
  <2>1. Piece(pat, val, cut, l)
    BY <1>1, <1>3
  <2> QED
    BY <2>1, <1>7 DEF Piece
<1>9. rest \in Cuts(pat, val, i + 1, k)
  BY <1>1, <1>2, <1>4, <1>6, <1>8 DEF Cuts
<1>10. Piece(pat, val, cut, i)
  BY <1>1, <1>3
<1>11. CASE pat[i] = Star
  <2>1. j - 1 <= k - 1
    BY <1>3, <1>5, <1>10, <1>11 DEF Piece
  <2> QED
    BY <1>2, <1>9, <1>11, <2>1
<1>12. CASE pat[i] # Star
  <2>1. cut[i] = cut[i - 1] + 1 /\ pat[i] \in {Mark, val[cut[i]]}
    BY <1>10, <1>12 DEF Piece
  <2>2. cut[i] = j /\ k = j + 1 /\ j <= V
    BY <1>3, <1>4, <1>5, <2>1
  <2> QED
    BY <1>2, <1>9, <1>12, <2>1, <2>2
<1> QED
  BY <1>11, <1>12

LEMMA CutAtStar ==
  ASSUME NEW A, NEW pat \in Seq(A), NEW val \in Seq(A), NEW i \in 1..Len(pat),
         NEW j \in 1..Len(val) + 1, NEW cut \in Cuts(pat, val, i, j), pat[i] = Star
  PROVE  \E k \in j..Len(val) + 1 : Cuts(pat, val, i + 1, k) # {}
<1>1. PICK k \in 1..Len(val) + 1 : Cuts(pat, val, i + 1, k) # {} /\ j <= k
  BY CutShrinks
<1>2. k \in j..Len(val) + 1
  BY <1>1
<1> QED
  BY <1>1, <1>2

LEMMA CutAtByte ==
  ASSUME NEW A, NEW pat \in Seq(A), NEW val \in Seq(A), NEW i \in 1..Len(pat),
         NEW j \in 1..Len(val) + 1, NEW cut \in Cuts(pat, val, i, j), pat[i] # Star
  PROVE  j <= Len(val) /\ pat[i] \in {Mark, val[j]} /\ Cuts(pat, val, i + 1, j + 1) # {}
<1>1. PICK k \in 1..Len(val) + 1 :
         /\ Cuts(pat, val, i + 1, k) # {}
         /\ j <= Len(val) /\ pat[i] \in {Mark, val[j]} /\ k = j + 1
  BY CutShrinks
<1> QED
  BY <1>1

LEMMA CutGrows ==
  ASSUME NEW A, NEW pat \in Seq(A), NEW val \in Seq(A), NEW i \in 1..Len(pat),
         NEW j \in 1..Len(val) + 1, NEW k \in 1..Len(val) + 1, NEW rest \in Cuts(pat, val, i + 1, k),
         IF pat[i] = Star THEN j <= k
         ELSE j <= Len(val) /\ pat[i] \in {Mark, val[j]} /\ k = j + 1
  PROVE  Cuts(pat, val, i, j) # {}
<1>1. PICK P \in Nat : P = Len(pat) /\ (i + 1) - 1 = i
  OBVIOUS
<1>2. PICK V \in Nat : V = Len(val)
  OBVIOUS
<1>3. /\ rest \in [i..P -> 0..V] /\ rest[i] = k - 1 /\ rest[P] = V
      /\ \A l \in i + 1..P : Piece(pat, val, rest, l)
  BY <1>1, <1>2 DEF Cuts
<1> DEFINE cut == [l \in i - 1..P |-> IF l = i - 1 THEN j - 1 ELSE rest[l]]
<1>4. cut \in [i - 1..P -> 0..V] /\ cut[i - 1] = j - 1 /\ cut[P] = V /\ cut[i] = k - 1
  BY <1>1, <1>2, <1>3
<1>5. \A l \in i + 1..P : cut[l] = rest[l] /\ cut[l - 1] = rest[l - 1]
  BY <1>1
<1> HIDE DEF cut
<1>6. \A l \in i..P : Piece(pat, val, cut, l)
  <2> SUFFICES ASSUME NEW l \in i..P PROVE Piece(pat, val, cut, l)
    OBVIOUS
  <2>1. CASE l = i
    <3>1. CASE pat[i] = Star
      BY <2>1, <3>1, <1>4 DEF Piece
    <3>2. CASE pat[i] # Star
      <4>1. cut[i] = j /\ cut[i] = cut[i - 1] + 1 /\ pat[i] \in {Mark, val[j]}
        BY <1>2, <1>4, <3>2
      <4> QED
        BY <2>1, <3>2, <4>1 DEF Piece
    <3> QED
      BY <3>1, <3>2
  <2>2. CASE l # i
    <3>1. l \in i + 1..P
      BY <1>1, <2>2
    <3>2. Piece(pat, val, rest, l)
      BY <1>3, <3>1
    <3> QED
      BY <1>5, <3>1, <3>2 DEF Piece
  <2> QED
    BY <2>1, <2>2
<1>7. cut \in Cuts(pat, val, i, j)
  BY <1>1, <1>2, <1>4, <1>6 DEF Cuts
<1> QED
  BY <1>7

LEMMA GlobIsCuts ==
  ASSUME NEW A, NEW pat \in Seq(A), NEW val \in Seq(A)
  PROVE  /\ GlobMatchLower(pat, val) \in BOOLEAN
         /\ GlobMatchLower(pat, val) <=> Cuts(pat, val, 1, 1) # {}
<1>a. ASSUME NEW i \in 1..Len(pat), NEW j \in 1..Len(val) + 1, pat[i] = Star,
             Cuts(pat, val, i, j) # {}
      PROVE  \E k \in j..Len(val) + 1 : Cuts(pat, val, i + 1, k) # {}
  <2>1. PICK cut \in Cuts(pat, val, i, j) : TRUE
    BY <1>a
  <2> QED
    BY <1>a, <2>1, CutAtStar
<1>b. ASSUME NEW i \in 1..Len(pat), NEW j \in 1..Len(val) + 1, pat[i] # Star,
             Cuts(pat, val, i, j) # {}
      PROVE  j <= Len(val) /\ pat[i] \in {Mark, val[j]} /\ Cuts(pat, val, i + 1, j + 1) # {}
  <2>1. PICK cut \in Cuts(pat, val, i, j) : TRUE
    BY <1>b
  <2> QED
    BY <1>b, <2>1, CutAtByte
<1>1. PICK m \in [1..Len(pat) + 1 -> Rows(val)] :
         GlobTable(m, pat, val) /\ GlobMatchLower(pat, val) = m[1][1]
  BY GlobIsTable
<1>2. PICK P \in Nat : P = Len(pat)
  OBVIOUS
<1>3. PICK V \in Nat : V = Len(val)
  OBVIOUS
<1> DEFINE Row(i) == \A j \in 1..V + 1 : m[i][j] <=> Cuts(pat, val, i, j) # {}
           T == {n \in Nat : n <= P => Row(P + 1 - n)}
<1>4. 0 \in T
  <2>1. m[P + 1] = GlobRow(pat, val, P + 1, m[P + 1 + 1])
    BY <1>1, <1>2 DEF GlobTable
  <2>2. \A j \in 1..V + 1 : m[P + 1][j] <=> j > V
    <3> SUFFICES ASSUME NEW j \in 1..V + 1 PROVE m[P + 1][j] <=> j > V
      OBVIOUS
    <3>1. m[P + 1][j] = GlobEntry(pat, val, P + 1, m[P + 1 + 1], j)
      BY <2>1, <1>3 DEF GlobRow
    <3>2. P + 1 > Len(pat)
      BY <1>2
    <3>3. GlobEntry(pat, val, P + 1, m[P + 1 + 1], j) = (j > Len(val))
      BY <3>2, Zenon DEF GlobEntry
    <3> QED
      BY <3>1, <3>3, <1>3
  <2>3. \A j \in 1..V + 1 : Cuts(pat, val, P + 1, j) # {} <=> j > V
    BY <1>2, <1>3, LastCut
  <2>4. Row(P + 1) /\ P + 1 - 0 = P + 1
    BY <2>2, <2>3
  <2> HIDE DEF Row
  <2> QED
    BY <2>4
<1>5. ASSUME NEW n \in Nat, n \in T PROVE n + 1 \in T
  <2> SUFFICES ASSUME n + 1 <= P PROVE Row(P + 1 - (n + 1))
    OBVIOUS
  <2>1. PICK i \in 1..P : i = P + 1 - (n + 1) /\ i + 1 = P + 1 - n
    OBVIOUS
  <2>2. Row(i + 1)
    BY <1>5, <2>1
  <2>3. m[i] = GlobRow(pat, val, i, m[i + 1])
    BY <1>1, <1>2 DEF GlobTable
  <2>4. ASSUME NEW j \in 1..V + 1 PROVE m[i][j] <=> Cuts(pat, val, i, j) # {}
    <3>1. CASE pat[i] = Star
      <4>1. m[i][j] <=> i = P \/ \E k \in j..V + 1 : m[i + 1][k]
        <5>1. ~(i > Len(pat))
          BY <1>2
        <5>2. m[i][j] = GlobEntry(pat, val, i, m[i + 1], j)
          BY <2>3, <1>3 DEF GlobRow
        <5>3. GlobEntry(pat, val, i, m[i + 1], j) =
                (i = Len(pat) \/ \E k \in j..Len(val) + 1 : m[i + 1][k])
          BY <5>1, <3>1, Zenon DEF GlobEntry, StarMayEnd
        <5> QED
          BY <5>2, <5>3, <1>2, <1>3
      <4>2. \A k \in j..V + 1 : k \in 1..V + 1 /\ (m[i + 1][k] <=> Cuts(pat, val, i + 1, k) # {})
        BY <2>2
      <4>3. ASSUME i = P PROVE V + 1 \in j..V + 1 /\ Cuts(pat, val, i + 1, V + 1) # {}
        <5>1. V + 1 \in 1..V + 1 /\ V + 1 > V /\ V + 1 \in j..V + 1
          OBVIOUS
        <5> QED
          BY <5>1, <1>2, <1>3, <4>3, LastCut
      <4>4. ASSUME NEW k \in j..V + 1, Cuts(pat, val, i + 1, k) # {} PROVE Cuts(pat, val, i, j) # {}
        <5>1. PICK rest \in Cuts(pat, val, i + 1, k) : TRUE
          BY <4>4
        <5>2. k \in 1..V + 1 /\ j <= k
          OBVIOUS
        <5> QED
          BY <1>2, <1>3, <3>1, <5>1, <5>2, CutGrows
      <4>5. ASSUME Cuts(pat, val, i, j) # {}
            PROVE  \E k \in j..V + 1 : Cuts(pat, val, i + 1, k) # {}
        <5>1. i \in 1..Len(pat) /\ j \in 1..Len(val) + 1
          BY <1>2, <1>3
        <5>2. \E k \in j..Len(val) + 1 : Cuts(pat, val, i + 1, k) # {}
          BY <3>1, <4>5, <5>1, <1>a, Zenon
        <5> QED
          BY <1>3, <5>2
      <4> QED
        BY <4>1, <4>2, <4>3, <4>4, <4>5
    <3>2. CASE pat[i] # Star
      <4>1. m[i][j] <=> j <= V /\ pat[i] \in {Mark, val[j]} /\ m[i + 1][j + 1]
        <5>1. ~(i > Len(pat))
          BY <1>2
        <5>2. m[i][j] = GlobEntry(pat, val, i, m[i + 1], j)
          BY <2>3, <1>3 DEF GlobRow
        <5>3. GlobEntry(pat, val, i, m[i + 1], j) =
                (j <= Len(val) /\ pat[i] \in {Mark, val[j]} /\ m[i + 1][j + 1])
          BY <5>1, <3>2, Zenon DEF GlobEntry
        <5> QED
          BY <5>2, <5>3, <1>3
      <4>2. j <= V => j + 1 \in 1..V + 1 /\ (m[i + 1][j + 1] <=> Cuts(pat, val, i + 1, j + 1) # {})
        BY <2>2
      <4>3. ASSUME j <= V, pat[i] \in {Mark, val[j]}, Cuts(pat, val, i + 1, j + 1) # {}
            PROVE  Cuts(pat, val, i, j) # {}
        <5>1. PICK rest \in Cuts(pat, val, i + 1, j + 1) : TRUE
          BY <4>3
        <5>2. PICK k \in 1..V + 1 : k = j + 1
          BY <4>3
        <5> QED
          BY <1>2, <1>3, <3>2, <4>3, <5>1, <5>2, CutGrows
      <4>4. ASSUME Cuts(pat, val, i, j) # {}
            PROVE  j <= V /\ pat[i] \in {Mark, val[j]} /\ Cuts(pat, val, i + 1, j + 1) # {}
        <5>1. i \in 1..Len(pat) /\ j \in 1..Len(val) + 1
          BY <1>2, <1>3
        <5>2. j <= Len(val) /\ pat[i] \in {Mark, val[j]} /\ Cuts(pat, val, i + 1, j + 1) # {}
          BY <3>2, <4>4, <5>1, <1>b, Zenon
        <5> QED
          BY <1>3, <5>2
      <4> QED
        BY <4>1, <4>2, <4>3, <4>4
    <3> QED
      BY <3>1, <3>2
  <2> QED
    BY <2>1, <2>4
<1> HIDE DEF T, Row
<1>6. P \in T
  BY <1>4, <1>5, SetInduction
<1>7. Row(1)
  <2>1. P + 1 - P = 1
    OBVIOUS
  <2> QED
    BY <1>6, <2>1 DEF T
<1>8. 1 \in 1..P + 1 /\ 1 \in 1..V + 1
  OBVIOUS
<1>9. m[1][1] \in BOOLEAN
  BY <1>1, <1>2, <1>3, <1>8 DEF Rows
<1>10. m[1][1] <=> Cuts(pat, val, 1, 1) # {}
  BY <1>7, <1>8 DEF Row
<1> QED
  BY <1>1, <1>9, <1>10

LEMMA LowerType ==
  ASSUME NEW s \in Text
  PROVE  Lower(s) \in Seq(Int) /\ Len(Lower(s)) = Len(s) /\ DOMAIN Lower(s) = 1..Len(s)
<1>1. Len(s) \in Nat /\ DOMAIN s = 1..Len(s) /\ \A i \in 1..Len(s) : s[i] \in Int
  <2> DEFINE B == 0..255
  <2>1. s \in Seq(B) /\ \A x \in B : x \in Int
    BY DEF Text
  <2> HIDE DEF B
  <2>2. Len(s) \in Nat /\ DOMAIN s = 1..Len(s) /\ \A i \in 1..Len(s) : s[i] \in B
    BY <2>1
  <2> QED
    BY <2>1, <2>2
<1> DEFINE t == Lower(s)
<1>2. t = [i \in 1..Len(s) |-> IF s[i] \in 65..90 THEN s[i] + 32 ELSE s[i]]
  BY <1>1 DEF Lower
<1>3. \A i \in 1..Len(s) : (IF s[i] \in 65..90 THEN s[i] + 32 ELSE s[i]) \in Int
  BY <1>1
<1> HIDE DEF t
<1>4. t \in [1..Len(s) -> Int]
  BY <1>2, <1>3
<1>5. t \in Seq(Int) /\ Len(t) = Len(s)
  BY <1>1, <1>4
<1> QED
  BY <1>4, <1>5 DEF t

\* Every state, whatever the queries and the workspaces: globMatchLower finds
\* exactly the values that can be cut along the pattern.
THEOREM GlobsCut == QuerySpec => []GlobIsCut
<1>1. LeakInv => GlobIsCut
  <2> SUFFICES ASSUME LeakInv, NEW n \in DOMAIN payload.conditions, NEW w \in cluster,
                      payload.conditions[n].op \in {"EQ", "NE"},
                      payload.conditions[n].field # "memory"
               PROVE  LET c == payload.conditions[n]
                          p == Lower(c.values[1])
                          v == Lower(w[c.field])
                      IN  GlobMatch(c.values[1], w[c.field]) =
                            (\E cut \in [0..Len(p) -> 0..Len(v)] :
                               /\ cut[0] = 0
                               /\ cut[Len(p)] = Len(v)
                               /\ \A i \in DOMAIN p :
                                    IF p[i] = Star THEN cut[i - 1] <= cut[i]
                                    ELSE cut[i] = cut[i - 1] + 1 /\ p[i] \in {Mark, v[cut[i]]})
    BY DEF GlobIsCut
  <2> DEFINE c == payload.conditions[n]
             p == Lower(c.values[1])
             v == Lower(w[c.field])
  <2>1. payload \in Payloads /\ cluster \in Workspaces
    BY DEF LeakInv, Calls
  <2>2. c.field \in FieldNames /\ c.values \in Seq(Text) /\ c.values # <<>>
    BY <2>1, QueryConstants
  <2>3. c.values[1] \in Text /\ w[c.field] \in Text
    <3>1. w[c.field] \in Text
      BY <2>1, <2>2, QueryConstants
    <3>2. c.values[1] \in Text
      <4> HIDE DEF c
      <4> QED
        BY <2>2
    <3> QED
      BY <3>1, <3>2
  <2>4. GlobMatch(c.values[1], w[c.field]) = GlobMatchLower(p, v)
    BY DEF GlobMatch
  <2>5. p \in Seq(Int) /\ v \in Seq(Int) /\ DOMAIN p = 1..Len(p)
    BY <2>3, LowerType
  <2> HIDE DEF p, v
  <2>6. /\ GlobMatchLower(p, v) \in BOOLEAN
        /\ GlobMatchLower(p, v) <=> Cuts(p, v, 1, 1) # {}
    BY <2>5, GlobIsCuts
  <2>7. Cuts(p, v, 1, 1) = {cut \in [0..Len(p) -> 0..Len(v)] :
            /\ cut[0] = 0 /\ cut[Len(p)] = Len(v)
            /\ \A i \in DOMAIN p : Piece(p, v, cut, i)}
    BY <2>5 DEF Cuts
  <2>8. GlobMatchLower(p, v) =
          (\E cut \in [0..Len(p) -> 0..Len(v)] :
             /\ cut[0] = 0
             /\ cut[Len(p)] = Len(v)
             /\ \A i \in DOMAIN p :
                  IF p[i] = Star THEN cut[i - 1] <= cut[i]
                  ELSE cut[i] = cut[i - 1] + 1 /\ p[i] \in {Mark, v[cut[i]]})
    <3>1. Cuts(p, v, 1, 1) # {} <=>
            \E cut \in [0..Len(p) -> 0..Len(v)] :
              /\ cut[0] = 0 /\ cut[Len(p)] = Len(v)
              /\ \A i \in DOMAIN p : Piece(p, v, cut, i)
      BY <2>7, Zenon
    <3> QED
      BY <2>6, <3>1, Zenon DEF Piece
  <2> QED
    BY <2>4, <2>8, Zenon DEF p, v
<1> QED
  BY <1>1, LeakAlways, PTL

(***************************************************************************)
(* What is pushed down loses nothing.                                      *)
(***************************************************************************)

\* Without wildcards, only the text itself matches.
LEMMA PlainGlob ==
  ASSUME NEW pat \in Seq(Int), NEW val \in Seq(Int), ~HasWildcard(pat), GlobMatchLower(pat, val)
  PROVE  pat = val
<1>1. PICK P \in Nat : P = Len(pat)
  OBVIOUS
<1>2. PICK V \in Nat : V = Len(val)
  OBVIOUS
<1>3. PICK cut \in Cuts(pat, val, 1, 1) : TRUE
  BY GlobIsCuts
<1>4. /\ cut[0] = 0 /\ cut[P] = V /\ cut \in [0..P -> 0..V]
      /\ \A l \in 1..P : Piece(pat, val, cut, l)
  BY <1>1, <1>2, <1>3 DEF Cuts
<1>5. \A l \in 1..P : pat[l] # Star /\ pat[l] # Mark
  BY <1>1 DEF HasWildcard
<1>6. \A l \in 1..P : cut[l] = cut[l - 1] + 1 /\ pat[l] = val[cut[l]]
  BY <1>4, <1>5 DEF Piece
<1> DEFINE T == {n \in Nat : n <= P => cut[n] = n}
<1>7. 0 \in T
  BY <1>4
<1>8. ASSUME NEW n \in Nat, n \in T PROVE n + 1 \in T
  <2> SUFFICES ASSUME n + 1 <= P PROVE cut[n + 1] = n + 1
    OBVIOUS
  <2>1. cut[n] = n /\ n + 1 \in 1..P /\ (n + 1) - 1 = n
    BY <1>8
  <2> QED
    BY <2>1, <1>6
<1> HIDE DEF T
<1>9. \A n \in 0..P : cut[n] = n
  <2>1. Nat \subseteq T
    BY <1>7, <1>8, SetInduction
  <2> QED
    BY <2>1 DEF T
<1>10. P = V
  BY <1>4, <1>9
<1>11. \A l \in 1..P : pat[l] = val[l]
  BY <1>6, <1>9
<1> QED
  BY <1>1, <1>2, <1>10, <1>11, SeqEqual

\* Where every condition holds, the ones that may be pushed down name w.
LEMMA PushedNames ==
  ASSUME Calls, LowerCase, NEW w \in cluster, MatchesFilters(w, payload) = "yes",
         NEW f \in Labels, NEW i \in Pushable(payload, f)
  PROVE  /\ w[f] \in ToSet(payload.conditions[i].values)
         /\ Len(payload.conditions[i].values) = 1 => w[f] = payload.conditions[i].values[1]
<1> DEFINE c == payload.conditions[i]
           s == c.values
<1>1. /\ payload \in Payloads /\ cluster \in Workspaces /\ f \in FieldNames /\ f # "memory"
      /\ i \in DOMAIN payload.conditions
  BY DEF Calls, Labels, FieldNames, Pushable
<1>2. ~payload.or /\ c.field = f /\ PushableValues(c) # <<>>
  BY DEF Pushable
<1>3. c.op \in {"EQ", "IN"} /\ \A k \in DOMAIN s : ~HasWildcard(s[k])
  BY <1>2 DEF PushableValues
<1>4. s \in Seq(Text) /\ s # <<>>
  BY <1>1, <1>3, QueryConstants
<1>5. w[f] \in Text /\ Lower(w[f]) = w[f]
  BY <1>1, QueryConstants DEF LowerCase
<1>6. \A k \in DOMAIN s : Lower(s[k]) = s[k]
  BY <1>1, <1>2, <1>3 DEF LowerCase
<1>7. MatchesCondition(w, c) \notin {"error", "no"}
  <2> DEFINE verdict == [n \in DOMAIN payload.conditions |-> MatchesCondition(w, payload.conditions[n])]
             decides == {n \in DOMAIN verdict : verdict[n] \in {"error", "no"}}
  <2>1. payload.conditions # <<>>
    <3>1. DOMAIN <<>> = {}
      OBVIOUS
    <3> QED
      BY <1>1, <3>1
  <2>2. decides # {} => verdict[Min(decides)] = "yes"
    BY <1>2, <2>1 DEF MatchesFilters
  <2>3. decides \in SUBSET Nat
    BY <1>1, QueryConstants
  <2>4. decides # {} => Min(decides) \in decides
    <3> HIDE DEF decides
    <3> QED
      BY <2>3, LeastNumber
  <2>5. decides = {}
    BY <2>2, <2>4
  <2>6. i \in DOMAIN verdict /\ verdict[i] = MatchesCondition(w, c)
    BY <1>1
  <2> HIDE DEF verdict
  <2> QED
    BY <2>5, <2>6
<1>8. MatchesText(w, c)
  <2>1. MatchesCondition(w, c) = IF MatchesText(w, c) THEN "yes" ELSE "no"
    BY <1>1, <1>2 DEF MatchesCondition
  <2> HIDE DEF c
  <2> QED
    BY <1>7, <2>1
<1>9. DOMAIN s = 1..Len(s) /\ Len(s) \in Nat /\ 1 \in 1..Len(s) /\ \A k \in 1..Len(s) : s[k] \in Text
  <2> HIDE DEF s
  <2> QED
    BY <1>4
<1>10. \E k \in 1..Len(s) : s[k] = w[f]
  <2>1. CASE c.op = "EQ"
    <3>1. GlobMatch(s[1], w[f])
      BY <1>2, <1>8, <2>1 DEF MatchesText
    <3>2. Lower(s[1]) = s[1] /\ s[1] \in Text /\ ~HasWildcard(s[1])
      BY <1>3, <1>6, <1>9
    <3>3. GlobMatchLower(s[1], w[f])
      BY <3>1, <3>2, <1>5 DEF GlobMatch
    <3>4. s[1] \in Seq(Int) /\ w[f] \in Seq(Int)
      BY <3>2, <1>5, LowerType
    <3>5. s[1] = w[f]
      BY <3>2, <3>3, <3>4, PlainGlob
    <3> QED
      BY <3>5, <1>9
  <2>2. CASE c.op = "IN"
    <3>1. \E k \in DOMAIN s : EqualFold(s[k], w[f])
      BY <1>2, <1>8, <2>2 DEF MatchesText
    <3> QED
      BY <3>1, <1>5, <1>6, <1>9 DEF EqualFold
  <2> QED
    BY <1>3, <2>1, <2>2
<1>11. w[f] \in ToSet(s)
  BY <1>9, <1>10 DEF ToSet
<1>12. ASSUME Len(s) = 1 PROVE w[f] = s[1]
  <2>1. PICK k \in 1..Len(s) : s[k] = w[f]
    BY <1>10
  <2>2. k = 1
    BY <1>12
  <2> QED
    BY <2>1, <2>2
<1> QED
  BY <1>11, <1>12


\* The scope of the call lets w through.
Reached(w) ==
    /\ scope.organization \in {Unset, w.organization}
    /\ scope.usernames = Unrestricted \/ w.username \in scope.usernames

LEMMA PushedFits ==
  ASSUME Calls, LowerCase, NEW w \in cluster, MatchesFilters(w, payload) = "yes", NEW f \in Labels
  PROVE  PushedValue(payload, f) \in {Unset, w[f]}
<1> DEFINE single == {i \in Pushable(payload, f) : /\ Len(payload.conditions[i].values) = 1
                                                   /\ payload.conditions[i].values[1] # Unset}
<1>1. PushedValue(payload, f) = IF single = {} THEN Unset ELSE payload.conditions[Min(single)].values[1]
  BY DEF PushedValue
<1>2. single \in SUBSET Nat
  <2>1. DOMAIN payload.conditions \subseteq Nat
    BY QueryConstants DEF Calls
  <2> QED
    BY <2>1 DEF Pushable
<1>3. single # {} => Min(single) \in single
  <2> HIDE DEF single
  <2> QED
    BY <1>2, LeastNumber
<1>4. \A i \in single : w[f] = payload.conditions[i].values[1]
  BY PushedNames
<1> QED
  BY <1>1, <1>3, <1>4

LEMMA ReachedIsListed ==
  ASSUME Calls, LowerCase, NEW w \in cluster, MatchesFilters(w, payload) = "yes", Reached(w)
  PROVE  w \in Filtered
<1> DEFINE o == PushdownOptionsFromPayload(payload)
           n == Narrow(scope, o)
<1>1. /\ o.organization \in {Unset, w.organization} /\ o.blueprint \in {Unset, w.blueprint}
      /\ o.name \in {Unset, w.name}
  <2>1. /\ "organization" \in Labels /\ "blueprint" \in Labels /\ "name" \in Labels
    BY DEF Labels
  <2>2. /\ o.organization = PushedValue(payload, "organization")
        /\ o.blueprint = PushedValue(payload, "blueprint") /\ o.name = PushedValue(payload, "name")
    BY DEF PushdownOptionsFromPayload
  <2> QED
    BY <2>1, <2>2, PushedFits
<1>2. o.usernames = Unrestricted \/ w.username \in o.usernames
  <2> DEFINE byUser == Pushable(payload, "username")
  <2>1. byUser = {} => o.usernames = Unrestricted
    BY DEF PushdownOptionsFromPayload
  <2>2. byUser # {} => o.usernames = ToSet(payload.conditions[Min(byUser)].values)
    BY DEF PushdownOptionsFromPayload
  <2>3. byUser \in SUBSET Nat
    <3>1. DOMAIN payload.conditions \subseteq Nat
      BY QueryConstants DEF Calls
    <3> QED
      BY <3>1 DEF Pushable
  <2>4. byUser # {} => Min(byUser) \in byUser
    <3> HIDE DEF byUser
    <3> QED
      BY <2>3, LeastNumber
  <2>5. "username" \in Labels
    BY DEF Labels
  <2> QED
    BY <2>1, <2>2, <2>4, <2>5, PushedNames
<1>3. /\ n.organization = (IF scope.organization # Unset THEN scope.organization ELSE o.organization)
      /\ n.usernames = IntersectUsernames(o.usernames, scope.usernames)
      /\ n.blueprint = o.blueprint /\ n.name = o.name
  BY DEF Narrow, PushdownOptionsFromPayload
<1> HIDE DEF o, n
<1>4. scope.usernames = Unrestricted \/ w.username \in scope.usernames
  BY DEF Reached
<1>5. n.usernames = Unrestricted \/ w.username \in n.usernames
  <2>1. CASE o.usernames = Unrestricted
    <3>1. n.usernames = scope.usernames
      BY <1>3, <2>1 DEF IntersectUsernames
    <3> QED
      BY <3>1, <1>4
  <2>2. CASE o.usernames # Unrestricted /\ scope.usernames = Unrestricted
    <3>1. n.usernames = o.usernames
      BY <1>3, <2>2 DEF IntersectUsernames
    <3> QED
      BY <3>1, <1>2
  <2>3. CASE o.usernames # Unrestricted /\ scope.usernames # Unrestricted
    <3>1. n.usernames = {v \in o.usernames : \E u \in scope.usernames : EqualFold(u, v)}
      BY <1>3, <2>3 DEF IntersectUsernames
    <3> QED
      BY <3>1, <2>3, <1>2, <1>4 DEF EqualFold
  <2> QED
    BY <2>1, <2>2, <2>3
<1>6. Selected(w, n)
  BY <1>1, <1>3, <1>5 DEF Selected, Reached
<1>7. ScopeMatches(scope, w)
  BY DEF ScopeMatches, Reached, EqualFold
<1> QED
  BY <1>6, <1>7 DEF Filtered, InScope, Fetched, n, o

(***************************************************************************)
(* What the obligations allow is reached.  The users read so far include,  *)
(* of the holders up to their number, all who had the role from the        *)
(* beginning: a new holder at the front moves the others back, never       *)
(* forward past the users read.                                            *)
(***************************************************************************)
Complete ==
    /\ always \subseteq ToSet(holders)
    /\ pc = "roles" => \A i \in 1..Len(holders) :
         i <= Len(usersSeen) /\ holders[i] \in always => holders[i] \in ToSet(usersSeen)
    /\ pc = "fetch" => \A w \in cluster : Allowed(w, always) => Reached(w)
    /\ pc = "answered" /\ payload.limit = 0 =>
         \A w \in cluster : Allowed(w, always) /\ MatchesFilters(w, payload) = "yes" => w \in ToSet(result)

KeepInv == LowerCase /\ revokes = 0 => Complete

\* In lower case, EqualFold is equality.
LEMMA FoldIsEqual ==
  ASSUME LowerCase, Calls, NEW w \in cluster
  PROVE  /\ \A u \in Users : EqualFold(w.username, u) => w.username = u
         /\ EqualFold(w.username, NameOf) => w.username = NameOf
         /\ EqualFold(w.organization, OrgOf) => w.organization = OrgOf
<1>1. "username" \in Labels /\ "organization" \in Labels
  BY DEF Labels
<1>2. Lower(w.username) = w.username /\ Lower(w.organization) = w.organization
  BY <1>1 DEF LowerCase, Calls
<1>3. Lower(NameOf) = NameOf /\ Lower(OrgOf) = OrgOf
  BY DEF LowerCase, Calls, NameOf, OrgOf
<1>4. \A u \in Users : Lower(u) = u
  BY DEF LowerCase
<1> QED
  BY <1>2, <1>3, <1>4 DEF EqualFold

LEMMA ResolveKeeps ==
  ASSUME LeakInv, Complete, LowerCase, ResolveScope
  PROVE  Complete'
<1>1. /\ cluster' = cluster /\ payload' = payload /\ holders' = holders
      /\ usersSeen' = <<>> /\ always' = ToSet(holders)
      /\ pc' \in {"roles", "fetch"}
  BY DEF ResolveScope
<1>2. scope' = [organization |-> OrgOf, usernames |-> NamesOf]
  BY DEF ResolveScope, OrgOf, NamesOf, NameOf
<1>3. scope'.organization = OrgOf /\ scope'.usernames = NamesOf
  BY <1>2
<1>4. Len(usersSeen') = 0 /\ Calls
  BY <1>1 DEF LeakInv
<1>5. ASSUME NEW w \in cluster', Allowed(w, always)' PROVE Reached(w)'
  <2>1. /\ OrgOf = Unset \/ EqualFold(w.organization, OrgOf)
        /\ NameOf = Unset \/ EqualFold(w.username, NameOf)
    BY <1>1, <1>5 DEF Allowed, OrgOf, NameOf
  <2>2. /\ OrgOf = Unset \/ w.organization = OrgOf
        /\ NameOf = Unset \/ w.username = NameOf
    BY <1>1, <1>4, <2>1, FoldIsEqual
  <2> QED
    BY <1>3, <2>2 DEF Reached, NamesOf
<1>6. always' \subseteq ToSet(holders)'
  BY <1>1
<1>7. \A i \in 1..Len(holders') : ~(i <= Len(usersSeen'))
  BY <1>4
<1> QED
  BY <1>1, <1>5, <1>6, <1>7 DEF Complete

\* When all pages have been read, the names left are those of everyone who
\* has had the role all along.
LEMMA NamesAllowed ==
  ASSUME LeakInv, Complete, LowerCase, pc = "roles", UsersPage = <<>>,
         NEW w \in cluster, Allowed(w, always)
  PROVE  w.username \in NamesOfRole /\ OrgOf \in {Unset, w.organization}
<1>2. Calls /\ Scoped
  BY DEF LeakInv
<1>3. /\ payload.obligations.roles
      /\ \A i \in 1..Len(holders) :
           i <= Len(usersSeen) /\ holders[i] \in always => holders[i] \in ToSet(usersSeen)
      /\ always \subseteq ToSet(holders)
  BY <1>2 DEF Scoped, Complete
<1>4. Len(holders) <= Len(usersSeen)
  BY <1>2, PageOfUsers DEF Calls
<1>h. Len(holders) \in Nat /\ Len(usersSeen) \in Nat
  BY <1>2 DEF Calls
<1>5. ToSet(usersSeen) \subseteq Users
  BY <1>2, InRange DEF Calls
<1>6. ToSet(usersSeen) # Unrestricted /\ {NameOf} # Unrestricted
  BY <1>2, <1>5, NilIsNoSet DEF Calls
<1>7. /\ \A x \in ToSet(usersSeen) : NameOf = Unset => x \in NamesOfRole
      /\ \A x \in ToSet(usersSeen) :
           NameOf # Unset /\ EqualFold(x, NameOf) => NameOf \in NamesOfRole
  BY <1>6, RoleNames
<1>8. always \subseteq ToSet(usersSeen)
  <2> SUFFICES ASSUME NEW u \in always PROVE u \in ToSet(usersSeen)
    OBVIOUS
  <2>1. PICK i \in 1..Len(holders) : u = holders[i]
    BY <1>2, <1>3, InRange DEF Calls
  <2>2. i <= Len(usersSeen)
    BY <1>h, <1>4
  <2> QED
    BY <2>1, <2>2, <1>3
<1>9. /\ OrgOf = Unset \/ EqualFold(w.organization, OrgOf)
      /\ NameOf = Unset \/ EqualFold(w.username, NameOf)
  BY DEF Allowed, OrgOf, NameOf
<1>10. PICK u \in always : EqualFold(w.username, u)
  BY <1>3 DEF Allowed
<1>11. u \in ToSet(usersSeen) /\ u \in Users
  BY <1>5, <1>8
<1>12. /\ OrgOf = Unset \/ w.organization = OrgOf
       /\ NameOf = Unset \/ w.username = NameOf
       /\ w.username = u
  BY <1>2, <1>9, <1>10, <1>11, FoldIsEqual
<1>13. CASE NameOf = Unset
  BY <1>7, <1>11, <1>12, <1>13
<1>14. CASE NameOf # Unset
  <2>1. u = NameOf
    BY <1>12, <1>14
  <2> QED
    BY <1>7, <1>11, <1>12, <1>14, <2>1 DEF EqualFold
<1> QED
  BY <1>12, <1>13, <1>14

LEMMA GetUsersKeeps ==
  ASSUME LeakInv, Complete, LowerCase, GetUsers
  PROVE  Complete'
<1>1. /\ cluster' = cluster /\ payload' = payload /\ holders' = holders /\ always' = always
      /\ pc = "roles"
  BY DEF GetUsers, roles
<1>2. Calls /\ Scoped
  BY DEF LeakInv
<1>3. /\ payload.obligations.roles /\ scope = [organization |-> OrgOf, usernames |-> NamesOf]
      /\ \A i \in 1..Len(holders) :
           i <= Len(usersSeen) /\ holders[i] \in always => holders[i] \in ToSet(usersSeen)
      /\ always \subseteq ToSet(holders)
  BY <1>1, <1>2 DEF Scoped, Complete
<1>4. /\ UsersPage \in Seq(Users)
      /\ UsersPage = <<>> => Len(holders) <= Len(usersSeen)
      /\ \A i \in 1..Len(holders) :
           i > Len(usersSeen) /\ i <= Len(usersSeen \o UsersPage) => holders[i] \in ToSet(UsersPage)
  BY <1>2, PageOfUsers DEF Calls
<1>5. ToSet(holders)' = ToSet(holders)
  BY <1>1
<1>h. Len(holders) \in Nat /\ Len(usersSeen) \in Nat
  BY <1>2 DEF Calls
<1>6. CASE UsersPage # <<>>
  <2>1. usersSeen' = usersSeen \o UsersPage /\ pc' = "roles"
    BY <1>1, <1>6 DEF GetUsers, UsersPage
  <2>2. ToSet(usersSeen') = ToSet(usersSeen) \cup ToSet(UsersPage)
    BY <1>2, <1>4, <2>1, RangeOfConcat DEF Calls
  <2>3. ASSUME NEW i \in 1..Len(holders), i <= Len(usersSeen'), holders[i] \in always
        PROVE  holders[i] \in ToSet(usersSeen')
    <3>1. CASE i <= Len(usersSeen)
      BY <1>3, <2>2, <2>3, <3>1
    <3>2. CASE i > Len(usersSeen)
      BY <1>4, <2>1, <2>2, <2>3, <3>2
    <3> QED
      BY <1>h, <3>1, <3>2
  <2> QED
    BY <1>1, <1>3, <1>5, <2>1, <2>3 DEF Complete
<1>7. CASE UsersPage = <<>>
  <2>1. /\ scope' = [scope EXCEPT !.usernames = NamesOfRole]
        /\ pc' = IF NamesOfRole = {} THEN "answered" ELSE "fetch"
    <3>1. scope.usernames = NamesOf
      BY <1>3
    <3> QED
      BY <1>7, <3>1 DEF GetUsers, UsersPage, NamesOfRole
  <2>2. scope'.organization = OrgOf /\ scope'.usernames = NamesOfRole
    BY <1>3, <2>1
  <2>7. \A w \in cluster : Allowed(w, always) =>
          w.username \in NamesOfRole /\ OrgOf \in {Unset, w.organization}
    BY <1>1, <1>7, NamesAllowed
  <2>8. \A w : Allowed(w, always)' <=> Allowed(w, always)
    BY <1>1 DEF Allowed
  <2>9. ASSUME pc' = "fetch", NEW w \in cluster', Allowed(w, always)' PROVE Reached(w)'
    BY <1>1, <2>2, <2>7, <2>8, <2>9 DEF Reached
  <2>10. ASSUME pc' = "answered" PROVE \A w \in cluster' : ~Allowed(w, always)'
    <3>1. NamesOfRole = {}
      BY <2>1, <2>10
    <3> QED
      BY <1>1, <2>7, <2>8, <3>1
  <2>11. pc' # "roles"
    BY <2>1
  <2> QED
    BY <1>1, <1>3, <1>5, <2>9, <2>10, <2>11 DEF Complete
<1> QED
  BY <1>6, <1>7


LEMMA FetchKeeps ==
  ASSUME LeakInv, Complete, LowerCase, FetchPage
  PROVE  Complete'
<1>1. Calls
  BY DEF LeakInv
<1>2. /\ cluster' = cluster /\ payload' = payload /\ pc = "fetch"
      /\ holders' = holders /\ always' = always /\ pc' \in {"answered", "error"}
  BY <1>1, FetchAnswers DEF roles
<1>3. \A w : Allowed(w, always)' <=> Allowed(w, always)
  BY <1>2 DEF Allowed
<1>4. \A w : MatchesFilters(w, payload') = MatchesFilters(w, payload)
  BY <1>2
<1>5. ASSUME pc' = "answered", payload.limit = 0, NEW w \in cluster,
             Allowed(w, always), MatchesFilters(w, payload) = "yes"
      PROVE  w \in ToSet(result')
  <2>1. Reached(w)
    BY <1>2, <1>5 DEF Complete
  <2>2. w \in Filtered
    BY <1>1, <1>5, <2>1, ReachedIsListed
  <2>3. ToSet(result') = Filtered
    BY <1>1, <1>5, FetchAnswers
  <2> QED
    BY <2>2, <2>3
<1>6. always' \subseteq ToSet(holders)'
  BY <1>2 DEF Complete
<1> QED
  BY <1>2, <1>3, <1>4, <1>5, <1>6 DEF Complete

\* A step that leaves the calls alone.
LEMMA RolesKeep ==
  ASSUME Complete, UNCHANGED <<cluster, payload, pc, callVars>>, always' = always,
         always \subseteq ToSet(holders'),
         pc = "roles" => \A i \in 1..Len(holders') :
            i <= Len(usersSeen) /\ holders'[i] \in always => holders'[i] \in ToSet(usersSeen)
  PROVE  Complete'
<1>1. /\ cluster' = cluster /\ payload' = payload /\ pc' = pc
      /\ usersSeen' = usersSeen /\ scope' = scope /\ result' = result
  BY DEF callVars
<1>2. \A w : Allowed(w, always)' <=> Allowed(w, always)
  BY <1>1 DEF Allowed
<1>3. \A w : Reached(w)' <=> Reached(w)
  BY <1>1 DEF Reached
<1>4. ASSUME pc' = "fetch", NEW w \in cluster', Allowed(w, always)' PROVE Reached(w)'
  BY <1>1, <1>2, <1>3, <1>4 DEF Complete
<1>5. ASSUME pc' = "answered", payload'.limit = 0, NEW w \in cluster',
             Allowed(w, always)', MatchesFilters(w, payload') = "yes"
      PROVE  w \in ToSet(result')
  BY <1>1, <1>2, <1>5 DEF Complete
<1> QED
  BY <1>1, <1>4, <1>5 DEF Complete

LEMMA GrantKeeps ==
  ASSUME LeakInv, Complete, Grant
  PROVE  Complete'
<1>1. PICK u \in Users \ ToSet(holders) : holders' \in {Append(holders, u), <<u>> \o holders}
  BY DEF Grant
<1>2. UNCHANGED <<cluster, payload, pc, callVars>> /\ always' = always
  BY DEF Grant
<1>3. holders \in Seq(Users) /\ Len(holders) \in Nat /\ usersSeen \in Seq(Users) /\ Len(usersSeen) \in Nat
  BY DEF LeakInv, Calls
<1>4. always \subseteq ToSet(holders) /\ u \notin always
  BY DEF Complete
<1>5. \A x \in always : \E j \in 1..Len(holders) : x = holders[j]
  BY <1>3, <1>4, InRange
<1> DEFINE Old(i) == i \in 1..Len(holders) /\ i <= Len(usersSeen) /\ holders[i] \in always
<1>6. pc = "roles" => \A i \in 1..Len(holders) : Old(i) => holders[i] \in ToSet(usersSeen)
  BY DEF Complete
<1>7. CASE holders' = Append(holders, u)
  <2>1. /\ holders' \in Seq(Users) /\ Len(holders') = Len(holders) + 1 /\ holders'[Len(holders) + 1] = u
        /\ \A i \in 1..Len(holders) : holders'[i] = holders[i]
    BY <1>3, <1>7
  <2>2. always \subseteq ToSet(holders')
    <3>1. \A x : x \in ToSet(holders') <=> \E i \in 1..Len(holders') : x = holders'[i]
      BY <2>1, InRange
    <3>2. 1..Len(holders) \subseteq 1..Len(holders')
      BY <1>3, <2>1
    <3> QED
      BY <1>5, <2>1, <3>1, <3>2
  <2>3. ASSUME pc = "roles", NEW i \in 1..Len(holders'), i <= Len(usersSeen), holders'[i] \in always
        PROVE  holders'[i] \in ToSet(usersSeen)
    <3>1. i \in 1..Len(holders)
      <4>1. i # Len(holders) + 1
        BY <1>4, <2>1, <2>3
      <4> QED
        BY <1>3, <2>1, <4>1
    <3> QED
      BY <1>6, <2>1, <2>3, <3>1
  <2> QED
    BY <1>2, <2>2, <2>3, RolesKeep
<1>8. CASE holders' = <<u>> \o holders
  <2> DEFINE q == <<u>>
  <2>q. q \in Seq(Users) /\ Len(q) = 1 /\ q[1] = u /\ holders' = q \o holders
    BY <1>8
  <2> HIDE DEF q
  <2>1. /\ holders' \in Seq(Users) /\ Len(holders') = Len(holders) + 1 /\ holders'[1] = u
        /\ \A i \in 2..Len(holders) + 1 : holders'[i] = holders[i - 1]
    <3>1. /\ holders' \in Seq(Users) /\ Len(holders') = Len(q) + Len(holders)
          /\ \A i \in 1..Len(q) + Len(holders) :
               holders'[i] = IF i <= Len(q) THEN q[i] ELSE holders[i - Len(q)]
      BY <1>3, <2>q, ConcatProperties
    <3> QED
      BY <1>3, <2>q, <3>1
  <2>2. always \subseteq ToSet(holders')
    <3>1. \A x : x \in ToSet(holders') <=> \E i \in 1..Len(holders') : x = holders'[i]
      BY <2>1, InRange
    <3>2. \A j \in 1..Len(holders) : /\ j + 1 \in 1..Len(holders') /\ j + 1 \in 2..Len(holders) + 1
                                     /\ (j + 1) - 1 = j
      BY <1>3, <2>1
    <3>3. \A j \in 1..Len(holders) : holders[j] = holders'[j + 1]
      BY <2>1, <3>2
    <3> QED
      BY <1>5, <3>1, <3>2, <3>3
  <2>3. ASSUME pc = "roles", NEW i \in 1..Len(holders'), i <= Len(usersSeen), holders'[i] \in always
        PROVE  holders'[i] \in ToSet(usersSeen)
    <3>1. i # 1
      BY <1>4, <2>1, <2>3
    <3>2. i \in 2..Len(holders) + 1 /\ i - 1 \in 1..Len(holders) /\ i - 1 <= Len(usersSeen)
      BY <1>3, <2>1, <2>3, <3>1
    <3> QED
      BY <1>6, <2>1, <2>3, <3>2
  <2> QED
    BY <1>2, <2>2, <2>3, RolesKeep
<1> QED
  BY <1>1, <1>7, <1>8

LEMMA KeepStep == LeakInv /\ KeepInv /\ [QueryNext]_queryVars => KeepInv'
<1>l. LowerCase' => LowerCase
  BY DEF LowerCase
<1> SUFFICES ASSUME LeakInv, KeepInv, [QueryNext]_queryVars, LowerCase, revokes' = 0
             PROVE  Complete'
  BY <1>l DEF KeepInv
<1>1. Calls
  BY DEF LeakInv
<1>2. revokes' = revokes + 1 \/ revokes' = revokes
  BY DEF QueryNext, ResolveScope, GetUsers, FetchPage, Fail, NextPage, Grant, Revoke, queryVars, roles
<1>3. revokes' = revokes /\ ~Revoke /\ Complete
  <2>1. revokes' = revokes /\ revokes = 0
    BY <1>1, <1>2 DEF Calls
  <2>2. ~Revoke
    BY <2>1 DEF Revoke
  <2> QED
    BY <2>1, <2>2 DEF KeepInv
<1>4. CASE Fail
  <2>1. /\ pc' = "error" /\ holders' = holders /\ always' = always
    BY <1>4 DEF Fail, roles
  <2> QED
    BY <1>3, <2>1 DEF Complete
<1>5. CASE NextPage
  <2>1. /\ pc' = "call" /\ holders' = holders /\ always' = always
    BY <1>5 DEF NextPage, roles
  <2> QED
    BY <1>3, <2>1 DEF Complete
<1>6. CASE UNCHANGED queryVars
  <2>1. UNCHANGED <<cluster, payload, pc, callVars>> /\ holders' = holders /\ always' = always
    BY <1>6 DEF queryVars, roles
  <2> QED
    BY <1>3, <2>1, RolesKeep DEF Complete
<1> QED
  BY <1>3, <1>4, <1>5, <1>6, ResolveKeeps, GetUsersKeeps, FetchKeeps, GrantKeeps DEF QueryNext

\* An answer without pages has everything allowed that the filters match:
\* neither what is pushed down nor the pages of users lose anything, while
\* the role is only granted.
THEOREM NeverWithholds == QuerySpec => []NothingWithheld
<1>1. QueryInit => KeepInv
  BY DEF QueryInit, KeepInv, Complete
<1>2. KeepInv => NothingWithheld
  BY DEF KeepInv, Complete, NothingWithheld
<1> QED
  BY <1>1, <1>2, KeepStep, LeakAlways, PTL DEF QuerySpec

(***************************************************************************)
(* The order of texts and of quantities.                                   *)
(***************************************************************************)
\* s and t agree in the first n bytes, and s comes first at the next one.
SplitAt(s, t, n) ==
    /\ n <= Len(s) /\ n < Len(t)
    /\ \A i \in 1..n : s[i] = t[i]
    /\ n = Len(s) \/ s[n + 1] < t[n + 1]

LEMMA TextSplits ==
  ASSUME NEW s \in Seq(Int), NEW t \in Seq(Int)
  PROVE  TextLess(s, t) <=> \E n \in Nat : SplitAt(s, t, n)
<1>1. PICK S \in Nat : S = Len(s)
  OBVIOUS
<1>2. PICK T \in Nat : T = Len(t)
  OBVIOUS
<1>3. ASSUME NEW n \in Nat, n <= S, n <= T
      PROVE  SubSeq(s, 1, n) = SubSeq(t, 1, n) <=> \A i \in 1..n : s[i] = t[i]
  <2>1. \A i \in 1..n : s[i] \in Int /\ t[i] \in Int
    BY <1>1, <1>2, <1>3
  <2> DEFINE u == SubSeq(s, 1, n)
             v == SubSeq(t, 1, n)
  <2>2. /\ u \in Seq(Int) /\ Len(u) = (IF 1 <= n THEN n - 1 + 1 ELSE 0)
        /\ \A i \in 1..n - 1 + 1 : u[i] = s[1 + i - 1]
    BY <2>1, SubSeqProperties
  <2>3. /\ v \in Seq(Int) /\ Len(v) = (IF 1 <= n THEN n - 1 + 1 ELSE 0)
        /\ \A i \in 1..n - 1 + 1 : v[i] = t[1 + i - 1]
    BY <2>1, SubSeqProperties
  <2> HIDE DEF u, v
  <2>4. n - 1 + 1 = n /\ \A i \in 1..n : 1 + i - 1 = i
    OBVIOUS
  <2>5. Len(u) = n /\ Len(v) = n /\ \A i \in 1..n : u[i] = s[i] /\ v[i] = t[i]
    BY <2>2, <2>3, <2>4
  <2>6. u = v <=> \A i \in 1..n : u[i] = v[i]
    BY <2>2, <2>3, <2>5, SeqEqual
  <2>7. u = v <=> \A i \in 1..n : s[i] = t[i]
    BY <2>5, <2>6
  <2> QED
    BY <2>7 DEF u, v
<1>4. ASSUME NEW n \in 0..Len(s), n < Len(t), SubSeq(s, 1, n) = SubSeq(t, 1, n),
             n = Len(s) \/ s[n + 1] < t[n + 1]
      PROVE  n \in Nat /\ SplitAt(s, t, n)
  <2>1. n \in Nat /\ n <= S /\ n <= T
    BY <1>1, <1>2, <1>4
  <2>2. \A i \in 1..n : s[i] = t[i]
    BY <2>1, <1>3, <1>4
  <2> QED
    BY <2>1, <2>2, <1>4, <1>1, <1>2 DEF SplitAt
<1>5. ASSUME NEW n \in Nat, SplitAt(s, t, n)
      PROVE  n \in 0..Len(s) /\ n < Len(t) /\ SubSeq(s, 1, n) = SubSeq(t, 1, n)
  <2>1. n <= S /\ n < T /\ (\A i \in 1..n : s[i] = t[i])
    BY <1>5, <1>1, <1>2 DEF SplitAt
  <2>2. n <= T /\ n \in 0..S
    BY <2>1
  <2>3. SubSeq(s, 1, n) = SubSeq(t, 1, n)
    BY <2>1, <2>2, <1>3
  <2> QED
    BY <2>1, <2>2, <2>3, <1>1, <1>2
<1>6. ASSUME TextLess(s, t) PROVE \E n \in Nat : SplitAt(s, t, n)
  <2>1. PICK n \in 0..Len(s) : /\ n < Len(t) /\ SubSeq(s, 1, n) = SubSeq(t, 1, n)
                               /\ n = Len(s) \/ s[n + 1] < t[n + 1]
    BY <1>6, Zenon DEF TextLess
  <2> QED
    BY <2>1, <1>4
<1>7. ASSUME NEW n \in Nat, SplitAt(s, t, n) PROVE TextLess(s, t)
  <2>1. n = Len(s) \/ s[n + 1] < t[n + 1]
    BY <1>7 DEF SplitAt
  <2>2. n \in 0..Len(s) /\ n < Len(t) /\ SubSeq(s, 1, n) = SubSeq(t, 1, n)
    BY <1>5, <1>7
  <2> QED
    BY <2>1, <2>2, Zenon DEF TextLess
<1> QED
  BY <1>6, <1>7

LEMMA TextOrder ==
  ASSUME NEW s \in Seq(Int), NEW t \in Seq(Int)
  PROVE  /\ ~(TextLess(s, t) /\ TextLess(t, s))
         /\ s # t => TextLess(s, t) \/ TextLess(t, s)
<1>1. PICK S \in Nat : S = Len(s) /\ \A i \in 1..S : s[i] \in Int
  OBVIOUS
<1>2. PICK T \in Nat : T = Len(t) /\ \A i \in 1..T : t[i] \in Int
  OBVIOUS
<1>3. ASSUME NEW n \in Nat, SplitAt(s, t, n), NEW m \in Nat, SplitAt(t, s, m) PROVE FALSE
  <2>1. /\ n <= S /\ n < T /\ (\A i \in 1..n : s[i] = t[i]) /\ (n = S \/ s[n + 1] < t[n + 1])
        /\ m <= T /\ m < S /\ (\A i \in 1..m : t[i] = s[i]) /\ (m = T \/ t[m + 1] < s[m + 1])
    BY <1>1, <1>2, <1>3 DEF SplitAt
  <2>2. CASE n < m
    <3>1. n + 1 \in 1..m /\ n # S /\ n + 1 \in 1..S
      BY <2>1, <2>2
    <3>2. s[n + 1] < t[n + 1] /\ t[n + 1] = s[n + 1] /\ s[n + 1] \in Int
      BY <2>1, <3>1, <1>1
    <3> QED
      BY <3>2
  <2>3. CASE m < n
    <3>1. m + 1 \in 1..n /\ m # T /\ m + 1 \in 1..S
      BY <2>1, <2>3
    <3>2. t[m + 1] < s[m + 1] /\ t[m + 1] = s[m + 1] /\ s[m + 1] \in Int
      BY <2>1, <3>1, <1>1
    <3> QED
      BY <3>2
  <2>4. CASE m = n
    <3>1. n + 1 \in 1..S /\ n + 1 \in 1..T /\ n # S /\ n # T
      BY <2>1, <2>4
    <3>2. s[n + 1] < t[n + 1] /\ t[n + 1] < s[n + 1] /\ s[n + 1] \in Int /\ t[n + 1] \in Int
      BY <2>1, <2>4, <3>1, <1>1, <1>2
    <3> QED
      BY <3>2
  <2> QED
    BY <2>2, <2>3, <2>4
<1>4. ASSUME s # t PROVE TextLess(s, t) \/ TextLess(t, s)
  <2> DEFINE D == {n \in Nat : n + 1 > S \/ n + 1 > T \/ s[n + 1] # t[n + 1]}
  <2>1. S \in D /\ D \in SUBSET Nat
    OBVIOUS
  <2>2. PICK n \in D : \A k \in D : n <= k
    BY <2>1, LeastNumber
  <2>3. \A i \in Nat : i < n => i \notin D
    BY <2>2
  <2>4. \A i \in 1..n : i - 1 \in Nat /\ i - 1 < n /\ (i - 1) + 1 = i
    BY <2>2
  <2>5. ASSUME NEW i \in 1..n PROVE i <= S /\ i <= T /\ s[i] = t[i]
    <3>1. PICK k \in Nat : k < n /\ k + 1 = i
      BY <2>4
    <3>2. ~(k + 1 > S \/ k + 1 > T \/ s[k + 1] # t[k + 1])
      BY <3>1, <2>3
    <3> QED
      BY <3>1, <3>2
  <2>6. n \in Nat /\ n <= S /\ n <= T
    <3>1. n \in Nat
      BY <2>2
    <3>2. CASE n = 0
      BY <3>2
    <3>3. CASE n # 0
      <4>1. n \in 1..n
        BY <3>1, <3>3
      <4> QED
        BY <3>1, <4>1, <2>5
    <3> QED
      BY <3>2, <3>3
  <2>7. n + 1 > S \/ n + 1 > T \/ s[n + 1] # t[n + 1]
    BY <2>2
  <2>8. CASE n = S /\ n = T
    <3>1. Len(s) = Len(t) /\ \A i \in 1..Len(s) : s[i] = t[i]
      BY <2>5, <2>8, <1>1, <1>2
    <3> QED
      BY <3>1, <1>4, SeqEqual
  <2>9. CASE n = S /\ n < T
    <3>1. SplitAt(s, t, n)
      BY <2>5, <2>6, <2>9, <1>1, <1>2 DEF SplitAt
    <3> QED
      BY <3>1, <2>6, TextSplits
  <2>10. CASE n < S /\ n = T
    <3>1. SplitAt(t, s, n)
      BY <2>5, <2>6, <2>10, <1>1, <1>2 DEF SplitAt
    <3> QED
      BY <3>1, <2>6, TextSplits
  <2>11. CASE n < S /\ n < T
    <3>1. n + 1 \in 1..S /\ n + 1 \in 1..T /\ s[n + 1] # t[n + 1]
      BY <2>6, <2>7, <2>11
    <3>2. s[n + 1] \in Int /\ t[n + 1] \in Int
      BY <3>1, <1>1, <1>2
    <3>3. s[n + 1] < t[n + 1] \/ t[n + 1] < s[n + 1]
      BY <3>1, <3>2
    <3>4. SplitAt(s, t, n) \/ SplitAt(t, s, n)
      BY <2>5, <2>6, <2>11, <3>3, <1>1, <1>2 DEF SplitAt
    <3> QED
      BY <3>4, <2>6, TextSplits
  <2> QED
    BY <2>6, <2>8, <2>9, <2>10, <2>11
<1> QED
  BY <1>3, <1>4, TextSplits

LEMMA TextChain ==
  ASSUME NEW s \in Seq(Int), NEW t \in Seq(Int), NEW u \in Seq(Int), TextLess(s, t), TextLess(t, u)
  PROVE  TextLess(s, u)
<1>1. PICK S \in Nat : S = Len(s) /\ \A i \in 1..S : s[i] \in Int
  OBVIOUS
<1>2. PICK T \in Nat : T = Len(t) /\ \A i \in 1..T : t[i] \in Int
  OBVIOUS
<1>3. PICK U \in Nat : U = Len(u) /\ \A i \in 1..U : u[i] \in Int
  OBVIOUS
<1>4. PICK n \in Nat : SplitAt(s, t, n)
  BY TextSplits
<1>5. PICK m \in Nat : SplitAt(t, u, m)
  BY TextSplits
<1>6. /\ n <= S /\ n < T /\ (\A i \in 1..n : s[i] = t[i]) /\ (n = S \/ s[n + 1] < t[n + 1])
      /\ m <= T /\ m < U /\ (\A i \in 1..m : t[i] = u[i]) /\ (m = T \/ t[m + 1] < u[m + 1])
  BY <1>1, <1>2, <1>3, <1>4, <1>5 DEF SplitAt
<1>7. CASE n < m
  <2>1. /\ n < U /\ n + 1 \in 1..m /\ \A i \in 1..n : i \in 1..m
    BY <1>6, <1>7
  <2>2. (\A i \in 1..n : s[i] = u[i]) /\ t[n + 1] = u[n + 1]
    BY <1>6, <2>1
  <2>3. SplitAt(s, u, n)
    BY <1>1, <1>3, <1>6, <2>1, <2>2 DEF SplitAt
  <2> QED
    BY <2>3, TextSplits
<1>8. CASE m < n
  <2>1. m < S /\ m <= S /\ m + 1 \in 1..n /\ m # T /\ \A i \in 1..m : i \in 1..n
    BY <1>6, <1>8
  <2>2. (\A i \in 1..m : s[i] = u[i]) /\ s[m + 1] = t[m + 1] /\ t[m + 1] < u[m + 1]
    BY <1>6, <2>1
  <2>3. SplitAt(s, u, m)
    BY <1>1, <1>3, <1>6, <2>1, <2>2 DEF SplitAt
  <2> QED
    BY <2>3, TextSplits
<1>9. CASE m = n
  <2>1. \A i \in 1..n : s[i] = u[i]
    BY <1>6, <1>9
  <2>2. n = S \/ s[n + 1] < u[n + 1]
    <3>1. SUFFICES ASSUME n # S PROVE s[n + 1] < u[n + 1]
      OBVIOUS
    <3>2. n # T /\ n + 1 \in 1..S /\ n + 1 \in 1..T /\ n + 1 \in 1..U
      BY <1>6, <1>9, <3>1
    <3>3. s[n + 1] < t[n + 1] /\ t[n + 1] < u[n + 1]
      BY <1>6, <1>9, <3>1, <3>2
    <3>4. s[n + 1] \in Int /\ t[n + 1] \in Int /\ u[n + 1] \in Int
      BY <3>2, <1>1, <1>2, <1>3
    <3> QED
      BY <3>3, <3>4
  <2>3. SplitAt(s, u, n)
    BY <1>1, <1>3, <1>6, <1>9, <2>1, <2>2 DEF SplitAt
  <2> QED
    BY <2>3, TextSplits
<1> QED
  BY <1>7, <1>8, <1>9

\* What a field may hold: a text, or a quantity that parses.
Values(f) == IF f = "memory" THEN {Unset} \cup DOMAIN Magnitude ELSE Seq(Int)

Rank(v) == IF v = Unset THEN -1 ELSE Magnitude[v]

LEMMA QuantityOrder ==
  ASSUME Ordered, NEW v \in Values("memory"), NEW u \in Values("memory"),
         v \in Seq(Int), u \in Seq(Int)
  PROVE  /\ Rank(v) \in Int /\ Rank(u) \in Int /\ (v # u => Rank(v) # Rank(u))
         /\ ValueLess("memory", v, u) <=> Rank(v) < Rank(u)
<1>1. /\ v = Unset \/ v \in DOMAIN Magnitude
      /\ u = Unset \/ u \in DOMAIN Magnitude
  BY DEF Values
<1>2. /\ \A x \in DOMAIN Magnitude : x # Unset /\ Magnitude[x] \in Nat
      /\ \A x, y \in DOMAIN Magnitude : Magnitude[x] = Magnitude[y] => x = y
  BY DEF Ordered
<1>3. /\ v = Unset <=> v \notin DOMAIN Magnitude
      /\ u = Unset <=> u \notin DOMAIN Magnitude
  BY <1>1, <1>2
<1>4. /\ Rank(v) = IF v = Unset THEN -1 ELSE Magnitude[v]
      /\ Rank(u) = IF u = Unset THEN -1 ELSE Magnitude[u]
  BY DEF Rank
<1>5. Rank(v) \in Int /\ Rank(u) \in Int /\ (v # u => Rank(v) # Rank(u))
  BY <1>1, <1>2, <1>4
<1>6. ~TextLess(v, <<>>) /\ (u # Unset => TextLess(<<>>, u))
  <2> DEFINE e == <<>>
  <2>1. e \in Seq(Int) /\ Len(e) = 0 /\ e = Unset
    BY DEF Unset
  <2> HIDE DEF e
  <2>2. u # e => Len(u) \in Nat /\ Len(u) # 0
    BY <2>1
  <2>3. \A n \in Nat : ~SplitAt(v, e, n)
    BY <2>1 DEF SplitAt
  <2>4. u # e => SplitAt(e, u, 0)
    BY <2>1, <2>2 DEF SplitAt
  <2>5. ~TextLess(v, e)
    BY <2>1, <2>3, TextSplits
  <2>6. u # e => TextLess(e, u)
    <3>1. 0 \in Nat
      OBVIOUS
    <3>2. SplitAt(e, u, 0) => TextLess(e, u)
      BY <2>1, <3>1, TextSplits
    <3> QED
      BY <2>4, <3>2
  <2> QED
    BY <2>1, <2>5, <2>6 DEF e
<1>7. CASE v # Unset /\ u # Unset
  <2>1. ValueLess("memory", v, u) <=> Magnitude[v] < Magnitude[u]
    BY <1>3, <1>7 DEF ValueLess, Parses
  <2> QED
    BY <2>1, <1>4, <1>5, <1>7
<1>8. CASE v = Unset \/ u = Unset
  <2>1. ValueLess("memory", v, u) <=> TextLess(v, u)
    BY <1>3, <1>8 DEF ValueLess, Parses
  <2>2. CASE u = Unset
    <3>1. ~TextLess(v, u)
      BY <1>6, <2>2 DEF Unset
    <3>2. Rank(u) = -1 /\ Rank(v) >= -1
      BY <1>1, <1>2, <1>4, <2>2
    <3> QED
      BY <1>5, <2>1, <3>1, <3>2
  <2>3. CASE v = Unset /\ u # Unset
    <3>1. TextLess(v, u)
      BY <1>6, <2>3 DEF Unset
    <3>2. Rank(v) = -1 /\ Rank(u) >= 0
      BY <1>1, <1>2, <1>4, <2>3
    <3> QED
      BY <1>5, <2>1, <3>1, <3>2
  <2> QED
    BY <1>8, <2>2, <2>3
<1> QED
  BY <1>5, <1>7, <1>8

LEMMA ValueOrder ==
  ASSUME Ordered, NEW f, NEW v \in Values(f) \cap Seq(Int), NEW u \in Values(f) \cap Seq(Int)
  PROVE  /\ ~(ValueLess(f, v, u) /\ ValueLess(f, u, v))
         /\ v # u => ValueLess(f, v, u) \/ ValueLess(f, u, v)
         /\ \A t \in Values(f) \cap Seq(Int) :
              ValueLess(f, v, u) /\ ValueLess(f, u, t) => ValueLess(f, v, t)
<1>1. CASE f = "memory"
  <2>1. \A t \in Values(f) \cap Seq(Int) :
          /\ Rank(v) \in Int /\ Rank(u) \in Int /\ Rank(t) \in Int
          /\ v # u => Rank(v) # Rank(u)
          /\ ValueLess(f, v, u) <=> Rank(v) < Rank(u)
          /\ ValueLess(f, u, v) <=> Rank(u) < Rank(v)
          /\ ValueLess(f, v, t) <=> Rank(v) < Rank(t)
          /\ ValueLess(f, u, t) <=> Rank(u) < Rank(t)
    BY <1>1, QuantityOrder
  <2>2. ASSUME NEW t \in Values(f) \cap Seq(Int), ValueLess(f, v, u), ValueLess(f, u, t)
        PROVE  ValueLess(f, v, t)
    <3>1. /\ Rank(v) \in Int /\ Rank(u) \in Int /\ Rank(t) \in Int
          /\ Rank(v) < Rank(u) /\ Rank(u) < Rank(t)
      BY <2>1, <2>2
    <3>2. Rank(v) < Rank(t)
      BY <3>1
    <3> QED
      BY <3>2, <2>1
  <2>3. /\ Rank(v) \in Int /\ Rank(u) \in Int /\ (v # u => Rank(v) # Rank(u))
        /\ ValueLess(f, v, u) <=> Rank(v) < Rank(u)
        /\ ValueLess(f, u, v) <=> Rank(u) < Rank(v)
    BY <2>1
  <2>4. ~(Rank(v) < Rank(u) /\ Rank(u) < Rank(v)) /\ (v # u => Rank(v) < Rank(u) \/ Rank(u) < Rank(v))
    BY <2>3
  <2> QED
    BY <2>2, <2>3, <2>4
<1>2. CASE f # "memory"
  <2>1. \A x, y : ValueLess(f, x, y) <=> TextLess(x, y)
    BY <1>2 DEF ValueLess
  <2> QED
    BY <2>1, TextOrder, TextChain
<1> QED
  BY <1>1, <1>2

(***************************************************************************)
(* Less is a strict total order of the workspaces of a cluster.            *)
(***************************************************************************)
Ahead(s, v, u) == ValueLess(s.field, v, u) # s.desc

SortSet == [field : FieldNames, desc : BOOLEAN]

LEMMA AheadOrder ==
  ASSUME Ordered, NEW s \in SortSet, NEW v \in Values(s.field) \cap Seq(Int),
         NEW u \in Values(s.field) \cap Seq(Int), v # u
  PROVE  /\ ~(Ahead(s, v, u) /\ Ahead(s, u, v))
         /\ Ahead(s, v, u) \/ Ahead(s, u, v)
         /\ \A t \in Values(s.field) \cap Seq(Int) :
              u # t /\ Ahead(s, v, u) /\ Ahead(s, u, t) => v # t /\ Ahead(s, v, t)
<1> DEFINE L(x, y) == ValueLess(s.field, x, y)
<1>1. s.desc \in BOOLEAN
  BY DEF SortSet
<1>2. \A x, y : L(x, y) \in BOOLEAN
  <2>1. \A x, y : TextLess(x, y) \in BOOLEAN
    BY Zenon DEF TextLess
  <2>2. \A x, y : (Magnitude[x] < Magnitude[y]) \in BOOLEAN
    OBVIOUS
  <2> QED
    BY <2>1, <2>2, Zenon DEF ValueLess
<1>3. \A x, y : Ahead(s, x, y) <=> IF s.desc THEN ~L(x, y) ELSE L(x, y)
  BY <1>1, <1>2 DEF Ahead
<1>4. \A x, y \in Values(s.field) \cap Seq(Int) :
        /\ ~(L(x, y) /\ L(y, x))
        /\ x # y => L(x, y) \/ L(y, x)
        /\ \A t \in Values(s.field) \cap Seq(Int) : L(x, y) /\ L(y, t) => L(x, t)
  BY ValueOrder
<1> HIDE DEF L
<1>5. CASE s.desc
  <2>1. \A x, y : Ahead(s, x, y) <=> ~L(x, y)
    BY <1>3, <1>5
  <2> QED
    BY <1>4, <2>1
<1>6. CASE ~s.desc
  <2>1. \A x, y : Ahead(s, x, y) <=> L(x, y)
    BY <1>3, <1>6
  <2> QED
    BY <1>4, <2>1
<1> QED
  BY <1>5, <1>6

LEMMA AheadOneWay ==
  ASSUME Ordered, NEW s \in SortSet, NEW v \in Values(s.field) \cap Seq(Int),
         NEW u \in Values(s.field) \cap Seq(Int), v # u
  PROVE  Ahead(s, v, u) <=> ~Ahead(s, u, v)
  BY AheadOrder

\* x comes before y by the i-th sort, and the earlier ones are equal.
LessBy(x, y, sorts, i) ==
    /\ \A j \in 1..i - 1 : x[sorts[j].field] = y[sorts[j].field]
    /\ x[sorts[i].field] # y[sorts[i].field]
    /\ Ahead(sorts[i], x[sorts[i].field], y[sorts[i].field])

LEMMA LessSplits ==
  ASSUME NEW sorts \in Seq(SortSet), NEW x, NEW y
  PROVE  Less(x, y, sorts) <=> \E i \in 1..Len(sorts) : LessBy(x, y, sorts, i)
<1> DEFINE D == {i \in DOMAIN sorts : x[sorts[i].field] # y[sorts[i].field]}
<1>1. PICK N \in Nat : N = Len(sorts) /\ DOMAIN sorts = 1..N
  OBVIOUS
<1>2. Less(x, y, sorts) <=> D # {} /\ Ahead(sorts[Min(D)], x[sorts[Min(D)].field], y[sorts[Min(D)].field])
  BY Zenon DEF Less, Ahead
<1>3. D \in SUBSET Nat /\ \A i : i \in D <=> i \in 1..N /\ x[sorts[i].field] # y[sorts[i].field]
  BY <1>1
<1> HIDE DEF D
<1>4. ASSUME D # {}, Ahead(sorts[Min(D)], x[sorts[Min(D)].field], y[sorts[Min(D)].field])
      PROVE  \E i \in 1..N : LessBy(x, y, sorts, i)
  <2>1. PICK i \in D : i = Min(D) /\ \A k \in D : i <= k
    BY <1>3, <1>4, LeastNumber
  <2>2. \A j \in 1..i - 1 : j \in 1..N /\ ~(i <= j)
    BY <1>1, <1>3, <2>1
  <2>3. \A j \in 1..i - 1 : x[sorts[j].field] = y[sorts[j].field]
    BY <1>3, <2>1, <2>2
  <2>4. LessBy(x, y, sorts, i)
    BY <1>3, <1>4, <2>1, <2>3, Zenon DEF LessBy
  <2> QED
    BY <1>3, <2>1, <2>4
<1>5. ASSUME NEW i \in 1..N, LessBy(x, y, sorts, i)
      PROVE  D # {} /\ Ahead(sorts[Min(D)], x[sorts[Min(D)].field], y[sorts[Min(D)].field])
  <2>1. /\ \A j \in 1..i - 1 : x[sorts[j].field] = y[sorts[j].field]
        /\ x[sorts[i].field] # y[sorts[i].field]
        /\ Ahead(sorts[i], x[sorts[i].field], y[sorts[i].field])
    BY <1>5, Zenon DEF LessBy
  <2>2. i \in D
    BY <1>3, <2>1
  <2>3. Min(D) \in D /\ Min(D) <= i
    BY <1>3, <2>2, LeastNumber
  <2>4. Min(D) = i
    <3>1. Min(D) \in 1..N /\ ~(Min(D) \in 1..i - 1)
      BY <1>3, <2>1, <2>3
    <3> QED
      BY <1>1, <2>3, <3>1
  <2> QED
    BY <2>1, <2>2, <2>4
<1> QED
  BY <1>1, <1>2, <1>4, <1>5

\* What an order has to be for the sort to have one outcome.
StrictOrder(W, sorts) ==
    /\ \A x, y \in W : ~(Less(x, y, sorts) /\ Less(y, x, sorts))
    /\ \A x, y \in W : x # y => Less(x, y, sorts) \/ Less(y, x, sorts)
    /\ \A x, y, z \in W : Less(x, y, sorts) /\ Less(y, z, sorts) => Less(x, z, sorts)

Fit(W, sorts) ==
    /\ \A x \in W : \A i \in 1..Len(sorts) :
         x[sorts[i].field] \in Values(sorts[i].field) \cap Seq(Int)
    /\ \A x, y \in W : x # y => \E i \in 1..Len(sorts) : x[sorts[i].field] # y[sorts[i].field]

LEMMA LessOrders ==
  ASSUME Ordered, NEW W, NEW sorts \in Seq(SortSet), Fit(W, sorts)
  PROVE  StrictOrder(W, sorts)
<1>1. PICK N \in Nat : N = Len(sorts) /\ \A i \in 1..N : sorts[i] \in SortSet
  OBVIOUS
<1> DEFINE f(i) == sorts[i].field
<1>2. ASSUME NEW x \in W, NEW y \in W, NEW i \in 1..N, LessBy(x, y, sorts, i)
      PROVE  /\ \A j \in 1..i - 1 : x[f(j)] = y[f(j)]
             /\ x[f(i)] # y[f(i)] /\ Ahead(sorts[i], x[f(i)], y[f(i)])
  BY <1>2, Zenon DEF LessBy
<1>3. \A x \in W, i \in 1..N : x[f(i)] \in Values(f(i)) \cap Seq(Int)
  BY <1>1 DEF Fit
<1>4. ASSUME NEW x \in W, NEW y \in W, Less(x, y, sorts), Less(y, x, sorts) PROVE FALSE
  <2>1. PICK i \in 1..N : LessBy(x, y, sorts, i)
    BY <1>1, <1>4, LessSplits
  <2>2. PICK k \in 1..N : LessBy(y, x, sorts, k)
    BY <1>1, <1>4, LessSplits
  <2>3. /\ \A j \in 1..i - 1 : x[f(j)] = y[f(j)]
        /\ x[f(i)] # y[f(i)] /\ Ahead(sorts[i], x[f(i)], y[f(i)])
    BY <1>2, <2>1
  <2>4. /\ \A j \in 1..k - 1 : y[f(j)] = x[f(j)]
        /\ y[f(k)] # x[f(k)] /\ Ahead(sorts[k], y[f(k)], x[f(k)])
    BY <1>2, <2>2
  <2>5. k \notin 1..i - 1 /\ i \notin 1..k - 1
    BY <2>3, <2>4
  <2>6. k = i
    BY <1>1, <2>5
  <2>7. sorts[i] \in SortSet /\ x[f(i)] \in Values(f(i)) \cap Seq(Int) /\ y[f(i)] \in Values(f(i)) \cap Seq(Int)
    BY <1>1, <1>3
  <2> QED
    <3> DEFINE v == x[f(i)]
               u == y[f(i)]
    <3>1. v # u /\ v \in Values(sorts[i].field) \cap Seq(Int) /\ u \in Values(sorts[i].field) \cap Seq(Int)
      BY <2>3, <2>7
    <3>2. Ahead(sorts[i], v, u) /\ Ahead(sorts[i], u, v)
      BY <2>3, <2>4, <2>6
    <3> HIDE DEF v, u
    <3> QED
      BY <2>7, <3>1, <3>2, AheadOneWay
<1>5. ASSUME NEW x \in W, NEW y \in W, x # y PROVE Less(x, y, sorts) \/ Less(y, x, sorts)
  <2> DEFINE D == {i \in 1..N : x[f(i)] # y[f(i)]}
  <2>1. D \in SUBSET Nat /\ D # {}
    BY <1>1, <1>5 DEF Fit
  <2>2. PICK i \in D : \A k \in D : i <= k
    BY <2>1, LeastNumber
  <2>3. i \in 1..N /\ x[f(i)] # y[f(i)]
    BY <2>2
  <2>4. \A j \in 1..i - 1 : j \in 1..N /\ ~(i <= j)
    BY <1>1, <2>3
  <2>5. \A j \in 1..i - 1 : x[f(j)] = y[f(j)]
    BY <2>2, <2>4
  <2>6. sorts[i] \in SortSet /\ x[f(i)] \in Values(f(i)) \cap Seq(Int) /\ y[f(i)] \in Values(f(i)) \cap Seq(Int)
    BY <1>1, <1>3, <2>3
  <2>7. Ahead(sorts[i], x[f(i)], y[f(i)]) \/ Ahead(sorts[i], y[f(i)], x[f(i)])
    <3> DEFINE v == x[f(i)]
               u == y[f(i)]
    <3>1. v # u /\ v \in Values(sorts[i].field) \cap Seq(Int) /\ u \in Values(sorts[i].field) \cap Seq(Int)
      BY <2>3, <2>6
    <3> HIDE DEF v, u
    <3>2. Ahead(sorts[i], v, u) \/ Ahead(sorts[i], u, v)
      BY <2>6, <3>1, AheadOneWay
    <3> QED
      BY <3>2 DEF v, u
  <2>8. LessBy(x, y, sorts, i) \/ LessBy(y, x, sorts, i)
    BY <2>3, <2>5, <2>7, Zenon DEF LessBy
  <2> QED
    BY <1>1, <2>3, <2>8, LessSplits
<1>6. ASSUME NEW x \in W, NEW y \in W, NEW z \in W, Less(x, y, sorts), Less(y, z, sorts)
      PROVE  Less(x, z, sorts)
  <2>1. PICK i \in 1..N : LessBy(x, y, sorts, i)
    BY <1>1, <1>6, LessSplits
  <2>2. PICK k \in 1..N : LessBy(y, z, sorts, k)
    BY <1>1, <1>6, LessSplits
  <2>3. /\ \A j \in 1..i - 1 : x[f(j)] = y[f(j)]
        /\ x[f(i)] # y[f(i)] /\ Ahead(sorts[i], x[f(i)], y[f(i)])
    BY <1>2, <2>1
  <2>4. /\ \A j \in 1..k - 1 : y[f(j)] = z[f(j)]
        /\ y[f(k)] # z[f(k)] /\ Ahead(sorts[k], y[f(k)], z[f(k)])
    BY <1>2, <2>2
  <2>5. CASE i < k
    <3>1. i \in 1..k - 1 /\ \A j \in 1..i - 1 : j \in 1..k - 1
      BY <1>1, <2>5
    <3>2. y[f(i)] = z[f(i)] /\ \A j \in 1..i - 1 : x[f(j)] = z[f(j)]
      BY <2>3, <2>4, <3>1
    <3>3. LessBy(x, z, sorts, i)
      BY <2>3, <3>2, Zenon DEF LessBy
    <3> QED
      BY <3>3, <1>1, LessSplits
  <2>6. CASE k < i
    <3>1. k \in 1..i - 1 /\ \A j \in 1..k - 1 : j \in 1..i - 1
      BY <1>1, <2>6
    <3>2. x[f(k)] = y[f(k)] /\ \A j \in 1..k - 1 : x[f(j)] = z[f(j)]
      BY <2>3, <2>4, <3>1
    <3>3. LessBy(x, z, sorts, k)
      BY <2>4, <3>2, Zenon DEF LessBy
    <3> QED
      BY <3>3, <1>1, LessSplits
  <2>7. CASE k = i
    <3>1. \A j \in 1..i - 1 : x[f(j)] = z[f(j)]
      BY <2>3, <2>4, <2>7
    <3>2. /\ sorts[i] \in SortSet /\ x[f(i)] \in Values(f(i)) \cap Seq(Int)
          /\ y[f(i)] \in Values(f(i)) \cap Seq(Int) /\ z[f(i)] \in Values(f(i)) \cap Seq(Int)
      BY <1>1, <1>3
    <3>3. y[f(i)] # z[f(i)] /\ Ahead(sorts[i], y[f(i)], z[f(i)])
      BY <2>4, <2>7
    <3>4. x[f(i)] # z[f(i)] /\ Ahead(sorts[i], x[f(i)], z[f(i)])
      BY <2>3, <3>2, <3>3, AheadOrder
    <3>5. LessBy(x, z, sorts, i)
      BY <3>1, <3>4, Zenon DEF LessBy
    <3> QED
      BY <3>5, <1>1, LessSplits
  <2> QED
    BY <1>1, <2>5, <2>6, <2>7
<1> QED
  BY <1>4, <1>5, <1>6 DEF StrictOrder

(***************************************************************************)
(* The insertion sort yields the one list in order.                        *)
(***************************************************************************)
InOrder(s, sorts) == \A i, j \in 1..Len(s) : i < j => Less(s[i], s[j], sorts)

\* t is s with w after the first n elements.
Inserted(t, s, w, n) ==
    /\ Len(t) = Len(s) + 1
    /\ \A k \in 1..n : t[k] = s[k]
    /\ t[n + 1] = w
    /\ \A k \in n + 1..Len(s) : t[k + 1] = s[k]

LEMMA InsertPlace ==
  ASSUME NEW W, NEW s \in Seq(W), NEW w \in W, NEW sorts
  PROVE  \E n \in 0..Len(s) :
            /\ Inserted(Insert(s, w, sorts), s, w, n)
            /\ n # 0 => ~Less(w, s[n], sorts)
            /\ \A i \in n + 1..Len(s) : Less(w, s[i], sorts)
<1> DEFINE I == {i \in DOMAIN s : ~Less(w, s[i], sorts)} \cup {0}
<1>1. Len(s) \in Nat /\ DOMAIN s = 1..Len(s) /\ \A i \in 1..Len(s) : s[i] \in W
  OBVIOUS
<1>2. /\ I \in SUBSET (0..Len(s)) /\ 0 \in I
      /\ \A i \in 1..Len(s) : i \in I <=> ~Less(w, s[i], sorts)
  BY <1>1
<1>e. Insert(s, w, sorts) = InsertAt(s, Max(I) + 1, w)
  BY DEF Insert
<1> HIDE DEF I
<1>3. PICK n \in 0..Len(s) : n = Max(I) /\ n \in I /\ \A i \in I : i <= n
  BY <1>1, <1>2, GreatestNumber
<1> DEFINE l == SubSeq(s, 1, n)
           r == SubSeq(s, n + 1, Len(s))
           q == <<w>>
           u == l \o q
           t == u \o r
<1>4. Insert(s, w, sorts) = t
  <2>1. (n + 1) - 1 = n
    BY <1>1, <1>3
  <2>2. \A m : InsertAt(s, m, w) = SubSeq(s, 1, m - 1) \o <<w>> \o SubSeq(s, m, Len(s))
    BY DEF InsertAt
  <2>3. InsertAt(s, n + 1, w) = SubSeq(s, 1, (n + 1) - 1) \o q \o r
    BY <2>2, Zenon
  <2> QED
    BY <2>1, <2>3, <1>e, <1>3, Zenon
<1>5. /\ l \in Seq(W) /\ Len(l) = n /\ \A k \in 1..n : l[k] = s[k]
  <2>1. \A i \in 1..n : s[i] \in W
    BY <1>1, <1>3
  <2>2. /\ l \in Seq(W) /\ Len(l) = (IF 1 <= n THEN n - 1 + 1 ELSE 0)
        /\ \A i \in 1..n - 1 + 1 : l[i] = s[1 + i - 1]
    BY <2>1, SubSeqProperties
  <2> HIDE DEF l
  <2>3. n \in Nat /\ n - 1 + 1 = n /\ \A i \in 1..n : 1 + i - 1 = i
    BY <1>1, <1>3
  <2> QED
    BY <2>2, <2>3
<1>6. /\ r \in Seq(W) /\ Len(r) = Len(s) - n
      /\ \A k \in 1..Len(s) - n : r[k] = s[n + k]
  <2>1. \A i \in n + 1..Len(s) : s[i] \in W
    BY <1>1, <1>3
  <2>2. /\ r \in Seq(W) /\ Len(r) = (IF n + 1 <= Len(s) THEN Len(s) - (n + 1) + 1 ELSE 0)
        /\ \A i \in 1..Len(s) - (n + 1) + 1 : r[i] = s[(n + 1) + i - 1]
    BY <1>1, <1>3, <2>1, SubSeqProperties
  <2> HIDE DEF r
  <2>3. /\ Len(s) - (n + 1) + 1 = Len(s) - n /\ \A i \in 1..Len(s) - n : (n + 1) + i - 1 = n + i
    BY <1>1, <1>3
  <2>4. Len(r) = Len(s) - n
    BY <1>1, <1>3, <2>2
  <2> QED
    BY <2>2, <2>3, <2>4
<1>7. q \in Seq(W) /\ Len(q) = 1 /\ q[1] = w
  OBVIOUS
<1> HIDE DEF l, r, q
<1>8. /\ u \in Seq(W) /\ Len(u) = n + 1
      /\ \A i \in 1..n + 1 : u[i] = IF i <= n THEN l[i] ELSE q[i - n]
  <2>1. /\ u \in Seq(W) /\ Len(u) = Len(l) + Len(q)
        /\ \A i \in 1..Len(l) + Len(q) : u[i] = IF i <= Len(l) THEN l[i] ELSE q[i - Len(l)]
    BY <1>5, <1>7, ConcatProperties
  <2> HIDE DEF u
  <2> QED
    BY <2>1, <1>5, <1>7
<1> HIDE DEF u
<1>9. /\ Len(t) = (n + 1) + (Len(s) - n)
      /\ \A i \in 1..(n + 1) + (Len(s) - n) : t[i] = IF i <= n + 1 THEN u[i] ELSE r[i - (n + 1)]
  <2>1. /\ Len(t) = Len(u) + Len(r)
        /\ \A i \in 1..Len(u) + Len(r) : t[i] = IF i <= Len(u) THEN u[i] ELSE r[i - Len(u)]
    BY <1>6, <1>8, ConcatProperties
  <2> HIDE DEF t
  <2> QED
    BY <2>1, <1>6, <1>8
<1> HIDE DEF t
<1>10. PICK S \in Nat : S = Len(s) /\ n \in 0..S
  BY <1>1, <1>3
<1>11. Len(t) = S + 1 /\ \A i \in 1..S + 1 : t[i] = IF i <= n + 1 THEN u[i] ELSE r[i - (n + 1)]
  <2>1. (n + 1) + (S - n) = S + 1
    BY <1>10
  <2> QED
    BY <1>9, <1>10, <2>1
<1>12. ASSUME NEW k \in 1..n PROVE t[k] = s[k]
  <2>1. k \in 1..S + 1 /\ k <= n + 1 /\ k \in 1..n + 1 /\ k <= n
    BY <1>10
  <2> QED
    BY <2>1, <1>5, <1>8, <1>11
<1>13. t[n + 1] = w
  <2>1. n + 1 \in 1..S + 1 /\ n + 1 <= n + 1 /\ n + 1 \in 1..n + 1 /\ ~(n + 1 <= n) /\ (n + 1) - n = 1
    BY <1>10
  <2> QED
    BY <2>1, <1>7, <1>8, <1>11
<1>14. ASSUME NEW k \in n + 1..S PROVE t[k + 1] = s[k]
  <2>1. /\ k + 1 \in 1..S + 1 /\ ~(k + 1 <= n + 1) /\ (k + 1) - (n + 1) = k - n
        /\ k - n \in 1..S - n /\ n + (k - n) = k
    BY <1>10
  <2>2. t[k + 1] = r[k - n]
    BY <2>1, <1>11
  <2>3. r[k - n] = s[n + (k - n)]
    BY <2>1, <1>6, <1>10
  <2> QED
    BY <2>1, <2>2, <2>3
<1>15. Inserted(t, s, w, n)
  BY <1>10, <1>11, <1>12, <1>13, <1>14 DEF Inserted
<1>16. n # 0 => ~Less(w, s[n], sorts)
  <2>1. n # 0 => n \in 1..Len(s)
    BY <1>10
  <2> QED
    BY <2>1, <1>2, <1>3
<1>17. ASSUME NEW i \in n + 1..Len(s) PROVE Less(w, s[i], sorts)
  <2>1. i \in 1..Len(s) /\ ~(i <= n)
    BY <1>10
  <2> QED
    BY <2>1, <1>2, <1>3
<1> QED
  BY <1>3, <1>4, <1>15, <1>16, <1>17

LEMMA InsertInOrder ==
  ASSUME NEW W, NEW sorts, StrictOrder(W, sorts), NEW s \in Seq(W), InOrder(s, sorts),
         NEW w \in W, \A i \in 1..Len(s) : s[i] # w
  PROVE  InOrder(Insert(s, w, sorts), sorts)
<1> DEFINE t == Insert(s, w, sorts)
<1>1. PICK n \in 0..Len(s) :
            /\ Inserted(t, s, w, n)
            /\ n # 0 => ~Less(w, s[n], sorts)
            /\ \A i \in n + 1..Len(s) : Less(w, s[i], sorts)
  BY InsertPlace
<1> HIDE DEF t
<1>2. PICK S \in Nat : S = Len(s) /\ n \in 0..S /\ \A i \in 1..S : s[i] \in W
  BY <1>1
<1>3. /\ Len(t) = S + 1 /\ (\A k \in 1..n : t[k] = s[k]) /\ t[n + 1] = w
      /\ \A k \in n + 1..S : t[k + 1] = s[k]
  BY <1>1, <1>2 DEF Inserted
<1>4. \A i, j \in 1..S : i < j => Less(s[i], s[j], sorts)
  BY <1>2 DEF InOrder
<1>5. ASSUME NEW i \in 1..n PROVE Less(s[i], w, sorts)
  <2>1. n \in 1..S /\ i \in 1..S /\ (i = n \/ i < n)
    BY <1>2
  <2>2. ~Less(w, s[n], sorts) /\ s[n] # w /\ s[n] \in W /\ s[i] \in W
    BY <1>1, <1>2, <2>1
  <2>3. Less(s[n], w, sorts)
    BY <2>2 DEF StrictOrder
  <2>4. i = n \/ Less(s[i], s[n], sorts)
    BY <1>4, <2>1
  <2> QED
    BY <2>2, <2>3, <2>4 DEF StrictOrder
<1>6. ASSUME NEW i \in 1..S + 1, NEW j \in 1..S + 1, i < j PROVE Less(t[i], t[j], sorts)
  <2>1. CASE j <= n
    <3>1. i \in 1..n /\ j \in 1..n /\ i \in 1..S /\ j \in 1..S
      BY <1>2, <1>6, <2>1
    <3> QED
      BY <3>1, <1>3, <1>4, <1>6
  <2>2. CASE j = n + 1
    <3>1. i \in 1..n
      BY <1>2, <1>6, <2>2
    <3> QED
      BY <3>1, <2>2, <1>3, <1>5
  <2>3. CASE j > n + 1
    <3>1. PICK k \in n + 1..S : k + 1 = j
      <4>1. j - 1 \in n + 1..S /\ (j - 1) + 1 = j
        BY <1>2, <2>3
      <4> QED
        BY <4>1
    <3>2. t[j] = s[k] /\ k \in 1..S
      <4>1. t[k + 1] = s[k]
        BY <1>3
      <4>2. k \in 1..S
        BY <1>2
      <4> QED
        BY <3>1, <4>1, <4>2
    <3>3. CASE i <= n
      <4>1. i \in 1..n /\ i \in 1..S /\ i < k
        BY <1>2, <3>1, <3>3
      <4> QED
        BY <4>1, <3>2, <1>3, <1>4
    <3>4. CASE i = n + 1
      BY <3>1, <3>2, <3>4, <1>1, <1>2, <1>3
    <3>5. CASE i > n + 1
      <4>1. PICK m \in n + 1..S : m + 1 = i
        <5>1. i - 1 \in n + 1..S /\ (i - 1) + 1 = i
          BY <1>2, <3>5
        <5> QED
          BY <5>1
      <4>2. t[i] = s[m] /\ m \in 1..S /\ m < k
        <5>1. t[m + 1] = s[m]
          BY <1>3
        <5>2. m \in 1..S /\ m < k
          BY <1>2, <1>6, <3>1, <4>1
        <5> QED
          BY <4>1, <5>1, <5>2
      <4> QED
        BY <4>2, <3>2, <1>4
    <3> QED
      BY <1>2, <3>3, <3>4, <3>5
  <2> QED
    BY <1>2, <2>1, <2>2, <2>3
<1>7. InOrder(t, sorts)
  BY <1>3, <1>6 DEF InOrder
<1> QED
  BY <1>7 DEF t

LEMMA SortInOrder ==
  ASSUME NEW W, NEW sorts, StrictOrder(W, sorts), NEW list \in Seq(W),
         \A i, j \in 1..Len(list) : i # j => list[i] # list[j]
  PROVE  InOrder(SortWorkspaces(list, sorts), sorts)
<1> DEFINE N == Len(list)
<1>1. N \in Nat /\ \A n \in 1..N : list[n] \in W
  OBVIOUS
<1>2. PICK sorted : SortsBySteps(sorted, list, sorts)
  BY SortSteps
<1>3. SortWorkspaces(list, sorts) = sorted[N]
  BY <1>2 DEF SortsBySteps
<1>d. \A i, j \in 1..N : i # j => list[i] # list[j]
  OBVIOUS
<1> HIDE DEF N
<1>5. /\ sorted[0] = <<>>
      /\ \A n \in 1..N : sorted[n] = Insert(sorted[n - 1], list[n], sorts)
  BY <1>2 DEF SortsBySteps, N
<1> DEFINE T == {n \in Nat : n <= N => /\ sorted[n] \in Seq(W) /\ InOrder(sorted[n], sorts)
                                       /\ \A x \in ToSet(sorted[n]) : \E i \in 1..n : x = list[i]}
<1>6. 0 \in T
  <2> DEFINE e == <<>>
  <2>1. e \in Seq(W) /\ Len(e) = 0 /\ sorted[0] = e
    BY <1>5
  <2> HIDE DEF e
  <2>2. \A x : x \notin ToSet(e)
    <3>1. DOMAIN e = {}
      BY <2>1
    <3> QED
      BY <3>1, Zenon DEF ToSet
  <2>3. InOrder(e, sorts)
    BY <2>1 DEF InOrder
  <2> QED
    BY <2>1, <2>2, <2>3
<1>7. ASSUME NEW n \in Nat, n \in T PROVE n + 1 \in T
  <2> SUFFICES ASSUME n + 1 <= N
               PROVE  /\ sorted[n + 1] \in Seq(W) /\ InOrder(sorted[n + 1], sorts)
                      /\ \A x \in ToSet(sorted[n + 1]) : \E i \in 1..n + 1 : x = list[i]
    OBVIOUS
  <2>1. /\ sorted[n] \in Seq(W) /\ n + 1 \in 1..N /\ list[n + 1] \in W /\ InOrder(sorted[n], sorts)
        /\ \A x \in ToSet(sorted[n]) : \E i \in 1..n : x = list[i]
    BY <1>1, <1>7
  <2>2. sorted[n + 1] = Insert(sorted[n], list[n + 1], sorts)
    BY <2>1, <1>5
  <2>3. /\ sorted[n + 1] \in Seq(W)
        /\ ToSet(sorted[n + 1]) = ToSet(sorted[n]) \cup {list[n + 1]}
    BY <2>1, <2>2, InsertKeeps
  <2>4. \A i \in 1..n : i \in 1..N /\ i # n + 1 /\ i \in 1..n + 1
    BY <1>1, <2>1
  <2>5. \A x \in ToSet(sorted[n]) : x # list[n + 1]
    BY <1>d, <2>1, <2>4
  <2>6. \A i \in 1..Len(sorted[n]) : sorted[n][i] # list[n + 1]
    BY <2>1, <2>5, InRange
  <2>7. InOrder(sorted[n + 1], sorts)
    BY <2>1, <2>2, <2>6, InsertInOrder
  <2>8. n + 1 \in 1..n + 1
    OBVIOUS
  <2> QED
    BY <2>1, <2>3, <2>4, <2>7, <2>8
<1> HIDE DEF T
<1>8. N \in T
  BY <1>1, <1>6, <1>7, SetInduction
<1> QED
  BY <1>1, <1>3, <1>8 DEF T

LEMMA ListingOnce ==
  ASSUME NEW F, IsFiniteSet(F), NEW list \in SetToSeqs(F)
  PROVE  \A i, j \in 1..Len(list) : i # j => list[i] # list[j]
<1>1. PICK n \in Nat : n = Cardinality(F)
  BY FS_CardinalityType
<1>2. list \in [1..n -> F] /\ \A i, j \in 1..n : i # j => list[i] # list[j]
  BY <1>1 DEF SetToSeqs
<1>3. Len(list) = n
  BY <1>2
<1> QED
  BY <1>2, <1>3

\* s is the beginning of t.
Begins(s, t) == Len(s) <= Len(t) /\ \A i \in 1..Len(s) : s[i] = t[i]

\* Two lists in order of the same workspaces: one begins the other.
LEMMA OrderBegins ==
  ASSUME NEW W, NEW sorts, StrictOrder(W, sorts), NEW s \in Seq(W), NEW t \in Seq(W),
         InOrder(s, sorts), InOrder(t, sorts), ToSet(s) = ToSet(t)
  PROVE  Begins(s, t)
<1>1. PICK S \in Nat : S = Len(s) /\ \A i \in 1..S : s[i] \in W
  OBVIOUS
<1>2. PICK N \in Nat : N = Len(t) /\ \A i \in 1..N : t[i] \in W
  OBVIOUS
<1>3. /\ \A i \in 1..S : \E k \in 1..N : s[i] = t[k]
      /\ \A i \in 1..N : \E k \in 1..S : t[i] = s[k]
  <2>1. \A x : x \in ToSet(s) <=> \E i \in 1..S : x = s[i]
    BY <1>1, InRange
  <2>2. \A x : x \in ToSet(t) <=> \E i \in 1..N : x = t[i]
    BY <1>2, InRange
  <2>3. \A x : (\E i \in 1..S : x = s[i]) <=> (\E i \in 1..N : x = t[i])
    BY <2>1, <2>2
  <2> QED
    BY <2>3
<1>4. \A x \in W : ~Less(x, x, sorts)
  BY DEF StrictOrder
<1>5. /\ \A i, j \in 1..S : i < j => Less(s[i], s[j], sorts)
      /\ \A i, j \in 1..N : i < j => Less(t[i], t[j], sorts)
  BY <1>1, <1>2 DEF InOrder
<1>6. \A i, j \in 1..S : s[i] = s[j] => i = j
  <2> SUFFICES ASSUME NEW i \in 1..S, NEW j \in 1..S, s[i] = s[j], i # j PROVE FALSE
    OBVIOUS
  <2>1. i < j \/ j < i
    BY <1>1
  <2>2. Less(s[i], s[j], sorts) \/ Less(s[j], s[i], sorts)
    BY <1>5, <2>1
  <2> QED
    BY <1>1, <1>4, <2>2
<1>7. \A i, j \in 1..N : t[i] = t[j] => i = j
  <2> SUFFICES ASSUME NEW i \in 1..N, NEW j \in 1..N, t[i] = t[j], i # j PROVE FALSE
    OBVIOUS
  <2>1. i < j \/ j < i
    BY <1>2
  <2>2. Less(t[i], t[j], sorts) \/ Less(t[j], t[i], sorts)
    BY <1>5, <2>1
  <2> QED
    BY <1>2, <1>4, <2>2
<1> DEFINE T == {n \in Nat : n <= S => n <= N /\ \A i \in 1..n : s[i] = t[i]}
<1>8. 0 \in T
  BY <1>2
<1>9. ASSUME NEW n \in Nat, n \in T PROVE n + 1 \in T
  <2> SUFFICES ASSUME n + 1 <= S PROVE n + 1 <= N /\ \A i \in 1..n + 1 : s[i] = t[i]
    OBVIOUS
  <2>1. n <= N /\ (\A i \in 1..n : s[i] = t[i]) /\ n + 1 \in 1..S
    BY <1>1, <1>9
  <2>2. PICK m \in 1..N : s[n + 1] = t[m]
    BY <1>3, <2>1
  <2>3. m >= n + 1
    <3> SUFFICES ASSUME m <= n PROVE FALSE
      BY <1>2, <2>1
    <3>1. m \in 1..n /\ m \in 1..S /\ m # n + 1
      BY <1>1, <1>2, <2>1
    <3> QED
      BY <3>1, <2>1, <2>2, <1>6
  <2>4. n + 1 \in 1..N
    BY <1>2, <2>3
  <2>5. PICK k \in 1..S : t[n + 1] = s[k]
    BY <1>3, <2>4
  <2>6. k >= n + 1
    <3> SUFFICES ASSUME k <= n PROVE FALSE
      BY <1>1, <2>1
    <3>1. k \in 1..n /\ k \in 1..N /\ k # n + 1
      BY <1>1, <1>2, <2>1
    <3> QED
      BY <3>1, <2>1, <2>4, <2>5, <1>7
  <2>7. m = n + 1
    <3> SUFFICES ASSUME m > n + 1 PROVE FALSE
      BY <1>2, <2>3
    <3>1. Less(t[n + 1], t[m], sorts)
      BY <1>5, <2>4
    <3>2. Less(s[k], s[n + 1], sorts)
      BY <3>1, <2>2, <2>5
    <3>3. CASE k = n + 1
      BY <3>2, <3>3, <1>1, <1>4, <2>1
    <3>4. CASE k > n + 1
      <4>1. Less(s[n + 1], s[k], sorts) /\ s[k] \in W /\ s[n + 1] \in W
        BY <1>1, <1>5, <2>1, <3>4
      <4> QED
        BY <4>1, <3>2 DEF StrictOrder
    <3> QED
      BY <1>1, <2>6, <3>3, <3>4
  <2>8. \A i \in 1..n + 1 : i \in 1..n \/ i = n + 1
    OBVIOUS
  <2> QED
    BY <2>1, <2>2, <2>4, <2>7, <2>8, <1>2
<1> HIDE DEF T
<1>10. S \in T
  BY <1>8, <1>9, SetInduction
<1> QED
  BY <1>1, <1>2, <1>10 DEF T, Begins

LEMMA OneOrder ==
  ASSUME NEW W, NEW sorts, StrictOrder(W, sorts), NEW s \in Seq(W), NEW t \in Seq(W),
         InOrder(s, sorts), InOrder(t, sorts), ToSet(s) = ToSet(t)
  PROVE  s = t
<1>1. Begins(s, t) /\ Begins(t, s)
  BY OrderBegins
<1>2. Len(s) = Len(t) /\ \A i \in 1..Len(s) : s[i] = t[i]
  BY <1>1 DEF Begins
<1> QED
  BY <1>2, SeqEqual

\* A list read so far and the next part of it are a longer beginning.
LEMMA BeginsMore ==
  ASSUME NEW W, NEW s \in Seq(W), NEW t \in Seq(W), Begins(s, t),
         NEW e \in Nat, Len(s) <= e, e <= Len(t)
  PROVE  /\ Len(SubSeq(t, Len(s) + 1, e)) = e - Len(s)
         /\ s \o SubSeq(t, Len(s) + 1, e) \in Seq(W)
         /\ Len(s \o SubSeq(t, Len(s) + 1, e)) = e
         /\ Begins(s \o SubSeq(t, Len(s) + 1, e), t)
<1>1. PICK S \in Nat : S = Len(s)
  OBVIOUS
<1>2. PICK N \in Nat : N = Len(t) /\ \A i \in 1..N : t[i] \in W
  OBVIOUS
<1> DEFINE r == SubSeq(t, S + 1, e)
           u == s \o r
<1>3. /\ r \in Seq(W) /\ Len(r) = e - S
      /\ \A i \in 1..e - S : r[i] = t[S + i]
  <2>1. \A i \in S + 1..e : t[i] \in W
    BY <1>1, <1>2
  <2>2. /\ r \in Seq(W) /\ Len(r) = (IF S + 1 <= e THEN e - (S + 1) + 1 ELSE 0)
        /\ \A i \in 1..e - (S + 1) + 1 : r[i] = t[(S + 1) + i - 1]
    BY <2>1, SubSeqProperties
  <2> HIDE DEF r
  <2>3. e - (S + 1) + 1 = e - S /\ \A i \in 1..e - S : (S + 1) + i - 1 = S + i
    BY <1>1
  <2>4. Len(r) = e - S
    BY <1>1, <2>2
  <2> QED
    BY <2>2, <2>3, <2>4
<1> HIDE DEF r
<1>4. /\ u \in Seq(W) /\ Len(u) = Len(s) + Len(r)
      /\ \A i \in 1..Len(s) + Len(r) : u[i] = IF i <= Len(s) THEN s[i] ELSE r[i - Len(s)]
  BY <1>3, ConcatProperties
<1> HIDE DEF u
<1>5. S + (e - S) = e
  BY <1>1
<1>6. Len(u) = e /\ \A i \in 1..e : u[i] = IF i <= S THEN s[i] ELSE r[i - S]
  BY <1>1, <1>3, <1>4, <1>5
<1>7. ASSUME NEW i \in 1..e PROVE u[i] = t[i]
  <2>1. CASE i <= S
    <3>1. i \in 1..Len(s)
      BY <1>1, <2>1
    <3> QED
      BY <3>1, <2>1, <1>6 DEF Begins
  <2>2. CASE i > S
    <3>1. i - S \in 1..e - S /\ S + (i - S) = i /\ ~(i <= S)
      BY <1>1, <2>2
    <3>2. u[i] = r[i - S]
      BY <3>1, <1>6
    <3>3. r[i - S] = t[S + (i - S)]
      BY <3>1, <1>3
    <3> QED
      BY <3>1, <3>2, <3>3
  <2> QED
    BY <1>1, <2>1, <2>2
<1>8. Begins(u, t)
  BY <1>2, <1>6, <1>7 DEF Begins
<1>9. r = SubSeq(t, Len(s) + 1, e) /\ u = s \o SubSeq(t, Len(s) + 1, e)
  BY <1>1 DEF r, u
<1> QED
  BY <1>1, <1>3, <1>4, <1>6, <1>8, <1>9

(***************************************************************************)
(* The sorts of a query, and the order its property speaks of.             *)
(***************************************************************************)
LEMMA FieldValues ==
  ASSUME Ordered, Calls, NEW x \in cluster, NEW f \in FieldNames
  PROVE  x[f] \in Values(f) \cap Seq(Int)
<1>1. cluster \in Workspaces
  BY DEF Calls
<1>2. x[f] \in Text
  BY <1>1, QueryConstants
<1>3. x[f] \in Seq(Int)
  <2> DEFINE B == 0..255
  <2>1. x[f] \in Seq(B) /\ \A b \in B : b \in Int
    BY <1>2 DEF Text
  <2> HIDE DEF B
  <2> QED
    BY <2>1
<1>4. x.memory = Unset \/ x.memory \in DOMAIN Magnitude
  BY <1>1 DEF Ordered, Parses
<1> QED
  BY <1>3, <1>4 DEF Values

LEMMA SortsFit ==
  ASSUME Ordered, Calls
  PROVE  Sorts \in Seq(SortSet) /\ Fit(cluster, Sorts)
<1>1. cluster \in Workspaces /\ payload \in Payloads
  BY DEF Calls
<1>2. payload.sorts \in Seq(SortSet)
  BY <1>1 DEF Ordered, SortSet
<1>3. DefaultSort \in Seq(SortSet)
  BY DEF DefaultSort, SortSet, FieldNames
<1>4. Sorts \in Seq(SortSet)
  BY <1>2, <1>3 DEF Sorts
<1>5. \A x, y \in cluster :
        (\A i \in DOMAIN Sorts : x[Sorts[i].field] = y[Sorts[i].field]) => x = y
  BY <1>1, Zenon DEF Ordered, Sorts
<1> HIDE DEF Sorts
<1>6. PICK N \in Nat : N = Len(Sorts) /\ DOMAIN Sorts = 1..N /\ \A i \in 1..N : Sorts[i] \in SortSet
  BY <1>4
<1>7. \A i \in 1..N : Sorts[i].field \in FieldNames
  BY <1>6 DEF SortSet
<1>8. \A x \in cluster, i \in 1..N : x[Sorts[i].field] \in Values(Sorts[i].field) \cap Seq(Int)
  BY <1>7, FieldValues
<1>9. Fit(cluster, Sorts)
  BY <1>5, <1>6, <1>8 DEF Fit
<1> QED
  BY <1>4, <1>9

LEMMA SortsOrder ==
  ASSUME Ordered, Calls
  PROVE  StrictOrder(cluster, Sorts)
  BY SortsFit, LessOrders

LEMMA ValueOfOrder ==
  ASSUME Ordered, Calls, NEW x \in cluster, NEW y \in cluster, NEW f \in FieldNames
  PROVE  /\ ValueOf(x, f) = ValueOf(y, f) => x[f] = y[f]
         /\ TextLess(ValueOf(x, f), ValueOf(y, f)) => ValueLess(f, x[f], y[f])
<1>1. CASE f # "memory"
  BY <1>1 DEF ValueOf, ValueLess
<1>2. CASE f = "memory"
  <2> DEFINE v == x[f]
             u == y[f]
             vx == <<Rank(v)>>
             vy == <<Rank(u)>>
  <2>1. ValueOf(x, f) = vx /\ ValueOf(y, f) = vy
    BY <1>2 DEF ValueOf, Rank
  <2>2. v \in Values(f) \cap Seq(Int) /\ u \in Values(f) \cap Seq(Int)
    BY FieldValues
  <2> HIDE DEF v, u
  <2>3. /\ Rank(v) \in Int /\ Rank(u) \in Int /\ (v # u => Rank(v) # Rank(u))
        /\ ValueLess(f, v, u) <=> Rank(v) < Rank(u)
    BY <1>2, <2>2, QuantityOrder
  <2>4. /\ vx \in Seq(Int) /\ Len(vx) = 1 /\ vx[1] = Rank(v)
        /\ vy \in Seq(Int) /\ Len(vy) = 1 /\ vy[1] = Rank(u)
    BY <2>3
  <2> HIDE DEF vx, vy
  <2>5. vx = vy => v = u
    BY <2>3, <2>4
  <2>6. ASSUME TextLess(vx, vy) PROVE ValueLess(f, v, u)
    <3>1. PICK n \in Nat : SplitAt(vx, vy, n)
      BY <2>4, <2>6, TextSplits
    <3>2. n = 0 /\ vx[1] < vy[1]
      BY <3>1, <2>4 DEF SplitAt
    <3> QED
      BY <3>2, <2>3, <2>4
  <2> QED
    BY <2>1, <2>5, <2>6 DEF v, u
<1> QED
  BY <1>1, <1>2

LEMMA NotBefore ==
  ASSUME Ordered, Calls, NEW x \in cluster, NEW y \in cluster, Less(x, y, Sorts)
  PROVE  ~Before(y, x, payload.sorts)
<1> SUFFICES ASSUME Before(y, x, payload.sorts) PROVE FALSE
  OBVIOUS
<1> DEFINE S == payload.sorts
<1>1. payload \in Payloads
  BY DEF Calls
<1>2. S \in Seq(SortSet)
  BY <1>1 DEF Ordered, SortSet
<1>3. PICK i \in DOMAIN S :
        /\ \A j \in 1..i - 1 : ValueOf(y, S[j].field) = ValueOf(x, S[j].field)
        /\ IF S[i].desc THEN TextLess(ValueOf(x, S[i].field), ValueOf(y, S[i].field))
           ELSE TextLess(ValueOf(y, S[i].field), ValueOf(x, S[i].field))
  BY Zenon DEF Before
<1>4. S = Sorts
  <2>1. S # <<>>
    BY <1>3
  <2> QED
    BY <2>1 DEF Sorts
<1> HIDE DEF S
<1>5. PICK N \in Nat : N = Len(S) /\ DOMAIN S = 1..N /\ \A k \in 1..N : S[k] \in SortSet
  BY <1>2
<1>6. \A k \in 1..N : S[k].field \in FieldNames /\ S[k].desc \in BOOLEAN
  BY <1>5 DEF SortSet
<1>7. i \in 1..N /\ \A j \in 1..i - 1 : j \in 1..N
  BY <1>3, <1>5
<1>8. \A j \in 1..i - 1 : y[S[j].field] = x[S[j].field]
  BY <1>3, <1>6, <1>7, ValueOfOrder
<1> DEFINE f == S[i].field
           v == y[f]
           u == x[f]
<1>9. f \in FieldNames /\ v \in Values(f) \cap Seq(Int) /\ u \in Values(f) \cap Seq(Int)
  BY <1>6, <1>7, FieldValues
<1>10. IF S[i].desc THEN ValueLess(f, u, v) ELSE ValueLess(f, v, u)
  BY <1>3, <1>9, ValueOfOrder
<1>11. v # u /\ ~(ValueLess(f, u, v) /\ ValueLess(f, v, u))
  <2>1. ~(ValueLess(f, u, v) /\ ValueLess(f, v, u)) /\ ~(ValueLess(f, u, u) /\ ValueLess(f, u, u))
    BY <1>9, ValueOrder
  <2> QED
    BY <1>10, <2>1
<1>12. Ahead(S[i], v, u)
  <2>1. ValueLess(f, v, u) \in BOOLEAN
    <3>1. TextLess(v, u) \in BOOLEAN
      BY Zenon DEF TextLess
    <3>2. (Magnitude[v] < Magnitude[u]) \in BOOLEAN
      OBVIOUS
    <3> QED
      BY <3>1, <3>2, Zenon DEF ValueLess
  <2>2. S[i].desc \in BOOLEAN
    BY <1>6, <1>7
  <2> HIDE DEF v, u
  <2>3. CASE S[i].desc
    <3>1. ~ValueLess(f, v, u)
      BY <1>10, <1>11, <2>3
    <3> QED
      BY <2>1, <2>2, <2>3, <3>1 DEF Ahead
  <2>4. CASE ~S[i].desc
    <3>1. ValueLess(f, v, u)
      BY <1>10, <2>4
    <3> QED
      BY <2>1, <2>2, <2>4, <3>1 DEF Ahead
  <2> QED
    BY <2>3, <2>4
<1>13. LessBy(y, x, S, i)
  BY <1>8, <1>11, <1>12, Zenon DEF LessBy
<1>14. Less(y, x, S)
  BY <1>2, <1>5, <1>7, <1>13, LessSplits
<1> QED
  BY <1>4, <1>14, SortsOrder DEF StrictOrder

(***************************************************************************)
(* The pages of a client.  While nobody is granted the role or loses it,   *)
(* every call resolves the same scope and lists the same workspaces; there *)
(* is one list of them in order, and what the client has read begins it.   *)
(***************************************************************************)
FullScope ==
    [organization |-> OrgOf,
     usernames    |-> IF payload.obligations.roles THEN IntersectUsernames(NamesOf, ToSet(holders))
                      ELSE NamesOf]

Listed ==
    {w \in cluster : /\ Selected(w, Narrow(FullScope, PushdownOptionsFromPayload(payload)))
                     /\ ScopeMatches(FullScope, w)
                     /\ MatchesFilters(w, payload) = "yes"}

Walk ==
    /\ InOrder(walked, Sorts)
    /\ \A s \in Seq(cluster) : ToSet(s) = Listed /\ InOrder(s, Sorts) => Begins(walked, s)

Covered ==
    \A w \in cluster : Allowed(w, always) /\ MatchesFilters(w, payload) = "yes" => w \in ToSet(walked)

Paged ==
    /\ pc = "roles" => Begins(usersSeen, holders)
    /\ pc = "fetch" => scope = FullScope
    /\ pc \in {"call", "roles", "fetch"} => offset = Len(walked)
    /\ pc = "answered" => offset + Len(result) = Len(walked)
    /\ pc = "answered" /\ result = <<>> /\ payload.limit > 0 => Covered
    /\ Walk

PagesInv == LowerCase /\ Ordered /\ grants + revokes = 0 => Paged

LEMMA WalkSame ==
  ASSUME Walk, UNCHANGED <<cluster, payload, holders, walked>>
  PROVE  Walk'
<1>1. cluster' = cluster /\ payload' = payload /\ holders' = holders /\ walked' = walked
  OBVIOUS
<1>2. FullScope' = FullScope /\ Sorts' = Sorts
  BY <1>1 DEF FullScope, Sorts, OrgOf, NamesOf, NameOf
<1>3. Listed' = Listed
  BY <1>1, <1>2 DEF Listed
<1> QED
  BY <1>1, <1>2, <1>3, Zenon DEF Walk

LEMMA CoveredSame ==
  ASSUME Covered, UNCHANGED <<cluster, payload, always, walked>>
  PROVE  Covered'
  BY DEF Covered, Allowed

\* A step that leaves the calls alone.
LEMMA PagedSame ==
  ASSUME Paged, UNCHANGED <<cluster, payload, holders, always, pc, callVars>>
  PROVE  Paged'
<1>1. /\ cluster' = cluster /\ payload' = payload /\ holders' = holders /\ always' = always
      /\ pc' = pc /\ offset' = offset /\ usersSeen' = usersSeen /\ scope' = scope
      /\ result' = result /\ walked' = walked
  BY DEF callVars
<1>2. Walk'
  BY <1>1, WalkSame DEF Paged
<1>3. FullScope' = FullScope
  BY <1>1 DEF FullScope, OrgOf, NamesOf, NameOf
<1>4. Covered => Covered'
  BY <1>1, CoveredSame
<1> QED
  BY <1>1, <1>2, <1>3, <1>4 DEF Paged

LEMMA PagedResolve ==
  ASSUME Calls, Paged, ResolveScope
  PROVE  Paged'
<1>1. /\ cluster' = cluster /\ payload' = payload /\ holders' = holders /\ offset' = offset
      /\ result' = result /\ walked' = walked /\ usersSeen' = <<>> /\ pc = "call"
      /\ pc' = IF payload.obligations.roles THEN "roles" ELSE "fetch"
      /\ scope' = [organization |-> OrgOf, usernames |-> NamesOf]
  BY DEF ResolveScope, OrgOf, NamesOf, NameOf
<1>2. Walk'
  BY <1>1, WalkSame DEF Paged
<1>3. FullScope' = FullScope
  BY <1>1 DEF FullScope, OrgOf, NamesOf, NameOf
<1>4. pc' = "fetch" => scope' = FullScope
  BY <1>1 DEF FullScope
<1>5. Begins(usersSeen', holders)
  BY <1>1 DEF Begins, Calls
<1>6. pc' # "answered"
  BY <1>1
<1> QED
  BY <1>1, <1>2, <1>3, <1>4, <1>5, <1>6 DEF Paged

LEMMA PagedUsers ==
  ASSUME LeakInv, LowerCase, Complete, Paged, GetUsers
  PROVE  Paged'
<1>1. /\ cluster' = cluster /\ payload' = payload /\ holders' = holders /\ always' = always
      /\ offset' = offset /\ walked' = walked /\ pc = "roles"
  BY DEF GetUsers, roles
<1>2. Calls /\ Scoped
  BY DEF LeakInv
<1>3. payload.obligations.roles /\ scope = [organization |-> OrgOf, usernames |-> NamesOf]
  BY <1>1, <1>2 DEF Scoped
<1>4. Walk'
  BY <1>1, WalkSame DEF Paged
<1>5. FullScope' = FullScope
  BY <1>1 DEF FullScope, OrgOf, NamesOf, NameOf
<1>6. /\ offset = Len(walked) /\ Begins(usersSeen, holders)
      /\ holders \in Seq(Users) /\ usersSeen \in Seq(Users)
  BY <1>1, <1>2 DEF Paged, Calls
<1>7. CASE UsersPage # <<>>
  <2>1. usersSeen' = usersSeen \o UsersPage /\ pc' = "roles"
    BY <1>1, <1>7 DEF GetUsers, UsersPage
  <2> DEFINE k == Len(usersSeen) + PageSize
  <2>2. /\ Len(holders) \in Nat /\ Len(usersSeen) \in Nat /\ PageSize \in Nat
        /\ Len(usersSeen) <= Len(holders)
    BY <1>6, PageSizeAssumption DEF Begins
  <2>3. Min({k, Len(holders)}) = IF k <= Len(holders) THEN k ELSE Len(holders)
    <3>1. k \in Int /\ Len(holders) \in Int
      BY <2>2
    <3> QED
      BY <3>1, OfTwo
  <2>4. PICK e \in Nat : e = Min({k, Len(holders)}) /\ Len(usersSeen) <= e /\ e <= Len(holders)
    BY <2>2, <2>3
  <2>5. UsersPage = SubSeq(holders, Len(usersSeen) + 1, e)
    BY <2>4, Zenon DEF UsersPage
  <2>6. Begins(usersSeen \o SubSeq(holders, Len(usersSeen) + 1, e), holders)
    BY <1>6, <2>4, BeginsMore
  <2>7. Begins(usersSeen', holders)
    BY <2>1, <2>5, <2>6
  <2> QED
    BY <1>1, <1>4, <1>6, <2>1, <2>7 DEF Paged
<1>8. CASE UsersPage = <<>>
  <2>1. usersSeen = holders
    <3>1. Len(holders) <= Len(usersSeen)
      BY <1>6, <1>8, PageOfUsers
    <3>2. Len(usersSeen) = Len(holders) /\ \A i \in 1..Len(usersSeen) : usersSeen[i] = holders[i]
      BY <1>6, <3>1 DEF Begins
    <3> QED
      BY <1>6, <3>2, SeqEqual
  <2>2. /\ scope' = [scope EXCEPT !.usernames = NamesOfRole]
        /\ pc' = (IF NamesOfRole = {} THEN "answered" ELSE "fetch") /\ result' = <<>>
    <3>1. scope.usernames = NamesOf
      BY <1>3
    <3> QED
      BY <1>8, <3>1 DEF GetUsers, UsersPage, NamesOfRole
  <2>3. scope' = FullScope
    <3>1. NamesOfRole = IntersectUsernames(NamesOf, ToSet(holders))
      BY <2>1 DEF NamesOfRole
    <3>2. FullScope = [organization |-> OrgOf, usernames |-> NamesOfRole]
      BY <1>3, <3>1 DEF FullScope
    <3> QED
      BY <1>3, <2>2, <3>2
  <2>4. offset + Len(<<>>) = Len(walked)
    <3>1. Len(walked) \in Nat /\ Len(<<>>) = 0
      BY <1>2 DEF Calls
    <3> QED
      BY <1>6, <3>1
  <2>5. ASSUME pc' = "answered" PROVE Covered'
    <3>1. NamesOfRole = {}
      BY <2>2, <2>5
    <3>2. \A w \in cluster : ~Allowed(w, always)
      BY <1>1, <1>8, <3>1, NamesAllowed
    <3>3. \A w \in cluster' : ~Allowed(w, always)'
      BY <1>1, <3>2 DEF Allowed
    <3> QED
      BY <3>3 DEF Covered
  <2> QED
    BY <1>1, <1>4, <1>5, <1>6, <2>2, <2>3, <2>4, <2>5 DEF Paged
<1> QED
  BY <1>7, <1>8

LEMMA PagedFetch ==
  ASSUME LeakInv, LowerCase, Ordered, Complete, Paged, FetchPage
  PROVE  Paged'
<1>1. Calls
  BY DEF LeakInv
<1>2. /\ cluster' = cluster /\ payload' = payload /\ holders' = holders /\ always' = always
      /\ offset' = offset /\ usersSeen' = usersSeen /\ scope' = scope /\ pc = "fetch"
  BY DEF FetchPage, roles
<1>3. Filtered = Listed
  <2>1. scope = FullScope
    BY <1>2 DEF Paged
  <2> QED
    BY <2>1 DEF Filtered, InScope, Fetched, Listed
<1>4. FullScope' = FullScope /\ Sorts' = Sorts
  BY <1>2 DEF FullScope, Sorts, OrgOf, NamesOf, NameOf
<1>5. Listed' = Listed
  BY <1>2, <1>4 DEF Listed
<1>6. CASE pc' = "error" /\ UNCHANGED <<result, walked>>
  <2>1. Walk'
    BY <1>2, <1>6, WalkSame DEF Paged
  <2> QED
    BY <1>6, <2>1 DEF Paged
<1>7. CASE \E list \in SetToSeqs(Filtered) :
             /\ result' = PageWorkspaces(SortWorkspaces(list, Sorts), offset, payload.limit)
             /\ walked' = walked \o result'
             /\ pc' = "answered"
  <2>1. PICK list \in SetToSeqs(Filtered) :
             /\ result' = PageWorkspaces(SortWorkspaces(list, Sorts), offset, payload.limit)
             /\ walked' = walked \o result'
             /\ pc' = "answered"
    BY <1>7
  <2>2. IsFiniteSet(cluster) /\ payload.limit \in Nat
    BY <1>1, QueryConstants DEF Calls
  <2>3. Filtered \subseteq cluster
    BY DEF Filtered, InScope, Fetched
  <2>4. IsFiniteSet(Filtered)
    BY <2>2, <2>3, FS_Subset
  <2>5. /\ list \in Seq(Filtered) /\ ToSet(list) = Filtered
        /\ \A i, j \in 1..Len(list) : i # j => list[i] # list[j]
    BY <2>4, Listing, ListingOnce
  <2>6. list \in Seq(cluster)
    BY <2>3, <2>5
  <2>7. StrictOrder(cluster, Sorts)
    BY <1>1, SortsOrder
  <2> DEFINE S == SortWorkspaces(list, Sorts)
  <2>8. S \in Seq(cluster) /\ ToSet(S) = Listed
    BY <1>3, <2>5, <2>6, SortKeeps
  <2>9. InOrder(S, Sorts)
    BY <2>5, <2>6, <2>7, SortInOrder
  <2>10. result' = PageWorkspaces(S, offset, payload.limit)
    BY <2>1
  <2> HIDE DEF S
  <2>11. walked \in Seq(cluster) /\ Begins(walked, S) /\ offset = Len(walked)
    BY <1>1, <1>2, <2>8, <2>9 DEF Calls, Paged, Walk
  <2>12. PICK n \in Nat : n = Len(S)
    BY <2>8
  <2>13. PICK o \in Nat : o = Len(walked) /\ o <= n
    BY <2>11, <2>12 DEF Begins
  <2>14. PICK e \in Nat : /\ e = PageEnd(n, o, payload.limit) /\ o <= e /\ e <= n
                          /\ payload.limit > 0 /\ e = o => e = n
    BY <2>2, <2>13 DEF PageEnd
  <2>15. result' = SubSeq(S, Len(walked) + 1, e)
    BY <2>10, <2>11, <2>12, <2>13, <2>14 DEF PageWorkspaces
  <2>16. /\ Len(SubSeq(S, Len(walked) + 1, e)) = e - Len(walked)
         /\ walked \o SubSeq(S, Len(walked) + 1, e) \in Seq(cluster)
         /\ Len(walked \o SubSeq(S, Len(walked) + 1, e)) = e
         /\ Begins(walked \o SubSeq(S, Len(walked) + 1, e), S)
    BY <2>8, <2>11, <2>12, <2>13, <2>14, BeginsMore
  <2>17. /\ Len(result') = e - o /\ walked' \in Seq(cluster) /\ Len(walked') = e
         /\ Begins(walked', S)
    BY <2>1, <2>13, <2>15, <2>16
  <2>18. offset + Len(result') = Len(walked')
    <3>1. o + (e - o) = e
      BY <2>13
    <3> QED
      BY <2>11, <2>13, <2>17, <3>1
  <2>19. InOrder(walked', Sorts)
    <3>1. \A i \in 1..e : walked'[i] = S[i] /\ i \in 1..n
      BY <2>12, <2>14, <2>17 DEF Begins
    <3>2. \A i, j \in 1..n : i < j => Less(S[i], S[j], Sorts)
      BY <2>9, <2>12 DEF InOrder
    <3>3. \A i, j \in 1..e : i < j => Less(walked'[i], walked'[j], Sorts)
      BY <3>1, <3>2
    <3> QED
      BY <2>17, <3>3 DEF InOrder
  <2>20. ASSUME NEW s \in Seq(cluster), ToSet(s) = Listed, InOrder(s, Sorts)
         PROVE  Begins(walked', s)
    <3>1. s = S
      BY <2>7, <2>8, <2>9, <2>20, OneOrder
    <3> QED
      BY <3>1, <2>17
  <2>21. Walk'
    BY <1>2, <1>4, <1>5, <2>19, <2>20, Zenon DEF Walk
  <2>22. ASSUME result' = <<>>, payload.limit > 0 PROVE Covered'
    <3>1. e = o
      <4>1. Len(result') = 0
        BY <2>22
      <4> QED
        BY <2>13, <2>17, <4>1
    <3>2. e = n
      BY <2>14, <2>22, <3>1
    <3>3. walked' = S
      <4>1. Len(walked') = Len(S) /\ \A i \in 1..Len(walked') : walked'[i] = S[i]
        BY <2>12, <2>17, <3>2 DEF Begins
      <4> QED
        BY <2>8, <2>17, <4>1, SeqEqual
    <3>4. ASSUME NEW w \in cluster, Allowed(w, always), MatchesFilters(w, payload) = "yes"
          PROVE  w \in ToSet(walked')
      <4>1. Reached(w)
        BY <1>2, <3>4 DEF Complete
      <4>2. w \in Filtered
        BY <1>1, <3>4, <4>1, ReachedIsListed
      <4> QED
        BY <1>3, <2>8, <3>3, <4>2
    <3>5. \A w : Allowed(w, always)' <=> Allowed(w, always)
      BY <1>2 DEF Allowed
    <3> QED
      BY <1>2, <3>4, <3>5 DEF Covered
  <2> QED
    BY <1>2, <2>1, <2>18, <2>21, <2>22 DEF Paged
<1> QED
  BY <1>6, <1>7 DEF FetchPage, Filtered, InScope, Fetched, Sorts

LEMMA PagesStep == LeakInv /\ KeepInv /\ PagesInv /\ [QueryNext]_queryVars => PagesInv'
<1>l. (LowerCase' => LowerCase) /\ (Ordered' => Ordered)
  BY DEF LowerCase, Ordered
<1> SUFFICES ASSUME LeakInv, KeepInv, PagesInv, [QueryNext]_queryVars, LowerCase, Ordered,
                    grants' + revokes' = 0
             PROVE  Paged'
  BY <1>l DEF PagesInv
<1>1. grants \in Nat /\ revokes \in Nat /\ grants' \in Nat /\ revokes' \in Nat
  BY LeakStep DEF LeakInv, Calls
<1>2. ~Grant /\ ~Revoke
  <2>1. grants' = 0 /\ revokes' = 0
    <3>1. \A g, r \in Nat : g + r = 0 => g = 0 /\ r = 0
      OBVIOUS
    <3>2. grants' + revokes' = 0
      OBVIOUS
    <3> QED
      BY <1>1, <3>1, <3>2
  <2> QED
    BY <1>1, <2>1 DEF Grant, Revoke
<1>3. grants' = grants /\ revokes' = revokes
  BY <1>2 DEF QueryNext, ResolveScope, GetUsers, FetchPage, Fail, NextPage, roles, queryVars
<1>4. grants + revokes = 0 /\ revokes = 0
  BY <1>1, <1>3
<1>5. Paged /\ Complete
  BY <1>4 DEF PagesInv, KeepInv
<1>6. CASE ResolveScope
  BY <1>5, <1>6, PagedResolve DEF LeakInv
<1>7. CASE GetUsers
  BY <1>5, <1>7, PagedUsers
<1>8. CASE FetchPage
  BY <1>5, <1>8, PagedFetch
<1>9. CASE Fail
  <2>1. /\ pc' = "error" /\ cluster' = cluster /\ payload' = payload /\ holders' = holders
        /\ walked' = walked
    BY <1>9 DEF Fail, callVars, roles
  <2>2. Walk'
    BY <1>5, <2>1, WalkSame DEF Paged
  <2> QED
    BY <2>1, <2>2 DEF Paged
<1>10. CASE NextPage
  <2>1. /\ pc = "answered" /\ pc' = "call" /\ offset' = offset + Len(result)
        /\ cluster' = cluster /\ payload' = payload /\ holders' = holders /\ walked' = walked
    BY <1>10 DEF NextPage, roles
  <2>2. Walk'
    BY <1>5, <2>1, WalkSame DEF Paged
  <2>3. offset' = Len(walked')
    BY <1>5, <2>1 DEF Paged
  <2> QED
    BY <2>1, <2>2, <2>3 DEF Paged
<1>11. CASE UNCHANGED queryVars
  BY <1>5, <1>11, PagedSame DEF queryVars, roles
<1> QED
  BY <1>2, <1>6, <1>7, <1>8, <1>9, <1>10, <1>11 DEF QueryNext

LEMMA PagesBegin == QueryInit => PagesInv
<1> SUFFICES ASSUME QueryInit PROVE Paged
  BY DEF PagesInv
<1>1. pc = "call" /\ offset = 0 /\ walked = <<>>
  BY DEF QueryInit
<1>2. Len(walked) = 0
  BY <1>1
<1>3. Walk
  BY <1>2 DEF Walk, InOrder, Begins
<1> QED
  BY <1>1, <1>2, <1>3 DEF Paged

\* A client that reads page by page until a page is empty has seen everything
\* that matches and is allowed, once and in the order of its sorts, although
\* every call lists the workspaces in an order of its own: with any number of
\* workspaces, sorts and page sizes, as long as the sorts tell workspaces
\* apart (Ordered), values are in the case of the labels (LowerCase) and the
\* role stays with its holders.
THEOREM PagesComplete ==
  ASSUME LowerCase, Ordered
  PROVE  QuerySpec => []PagesCover
<1>1. ASSUME LeakInv, PagesInv PROVE PagesCover
  <2> SUFFICES ASSUME grants + revokes = 0
               PROVE  /\ \A i, j \in DOMAIN walked : i < j => ~Before(walked[j], walked[i], payload.sorts)
                      /\ pc = "answered" /\ result = <<>> /\ payload.limit > 0 =>
                           /\ \A i, j \in DOMAIN walked : walked[i] = walked[j] => i = j
                           /\ \A w \in cluster : Allowed(w, always) /\ MatchesFilters(w, payload) = "yes" =>
                                  w \in ToSet(walked)
    BY DEF PagesCover
  <2>1. Calls /\ Paged
    BY <1>1 DEF LeakInv, PagesInv
  <2>2. PICK n \in Nat : n = Len(walked) /\ DOMAIN walked = 1..n /\ \A i \in 1..n : walked[i] \in cluster
    BY <2>1 DEF Calls
  <2>3. \A i, j \in 1..n : i < j => Less(walked[i], walked[j], Sorts)
    BY <2>1, <2>2 DEF Paged, Walk, InOrder
  <2>4. \A i, j \in 1..n : i < j => ~Before(walked[j], walked[i], payload.sorts)
    BY <2>1, <2>2, <2>3, NotBefore
  <2>5. \A i, j \in 1..n : walked[i] = walked[j] => i = j
    <3> SUFFICES ASSUME NEW i \in 1..n, NEW j \in 1..n, walked[i] = walked[j], i # j PROVE FALSE
      OBVIOUS
    <3>1. i < j \/ j < i
      BY <2>2
    <3>2. Less(walked[i], walked[i], Sorts)
      BY <2>3, <3>1
    <3> QED
      BY <2>1, <2>2, <3>2, SortsOrder DEF StrictOrder
  <2> QED
    BY <2>1, <2>2, <2>4, <2>5 DEF Paged, Covered
<1>2. QueryInit => KeepInv
  BY DEF QueryInit, KeepInv, Complete
<1> QED
  BY <1>1, <1>2, KeepStep, PagesBegin, PagesStep, LeakAlways, PTL DEF QuerySpec
=============================================================================
