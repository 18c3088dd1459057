--------------------------- MODULE PermissionsProofs ---------------------------
(* Proofs about Permissions, for every catalog, every set of documents,       *)
(* routes, methods, parameters and patterns, and stacks of any height.        *)
EXTENDS Permissions, SequenceTheorems, TLAPS

-----------------------------------------------------------------------------
(* Lookups *)

LEMMA AnythingIsEmpty ==
  ASSUME NEW S, NEW T
  PROVE  DOMAIN Anything = {} /\ IsMap(Anything, S, T)
<1>1. DOMAIN Anything = {}
  BY EmptySeq, LenProperties DEF Anything
<1>2. Anything \in [{} -> T]
  BY <1>1, EmptySeq, SeqDef DEF Anything
<1> QED
  BY <1>1, <1>2 DEF IsMap

\* A key that both sides answer for is a candidate, or neither names it.
LEMMA CandidateOfBoth ==
  ASSUME NEW parent, NEW child, NEW k, k # Star, Resolves(parent, k), Resolves(child, k)
  PROVE  \/ k \in Candidates(parent, child)
         \/ /\ k \notin DOMAIN parent /\ k \notin DOMAIN child
            /\ Star \in Candidates(parent, child)
BY DEF Resolves, KeyOf, Candidates

\* The wildcard of both sides is a candidate, and looks itself up.
LEMMA StarLooksUp ==
  ASSUME NEW map, Star \in DOMAIN map
  PROVE  /\ Resolves(map, Star) /\ Look(map, Star) = map[Star]
         /\ \A k : Resolves(map, k)
         /\ \A k : k \notin DOMAIN map => Look(map, k) = map[Star]
BY DEF Resolves, Look, KeyOf

LEMMA OwnKeyLooksUp ==
  ASSUME NEW map, NEW k \in DOMAIN map
  PROVE  Resolves(map, k) /\ Look(map, k) = map[k]
BY DEF Resolves, Look, KeyOf

-----------------------------------------------------------------------------
(* Types of the algebra *)

LEMMA MergeTypes ==
  ASSUME NEW parent \in Kept, NEW child \in Kept
  PROVE  MergePatterns(parent, child) \in Kept
BY DEF Kept, MergePatterns

IsQuery(query) == IsMap(query, Keys \union {Star}, Kept)

LEMMA LookKept ==
  ASSUME NEW query, IsQuery(query), NEW k, Resolves(query, k)
  PROVE  Look(query, k) \in Kept
BY DEF IsQuery, IsMap, Resolves, Look

\* The keys of two queries that are both restricted.
BothAnswer(parent, child) ==
  {c \in Candidates(parent, child) : Resolves(parent, c) /\ Resolves(child, c)}
Merged(parent, child) ==
  [k \in BothAnswer(parent, child) |-> MergePatterns(Look(parent, k), Look(child, k))]

LEMMA MergedTypes ==
  ASSUME NEW parent, NEW child, IsQuery(parent), IsQuery(child)
  PROVE  IsQuery(Merged(parent, child))
<1>1. BothAnswer(parent, child) \subseteq Keys \union {Star}
  BY DEF BothAnswer, Candidates, IsQuery, IsMap
<1>2. ASSUME NEW k \in BothAnswer(parent, child)
      PROVE  MergePatterns(Look(parent, k), Look(child, k)) \in Kept
  BY LookKept, MergeTypes DEF BothAnswer
<1> QED
  BY <1>1, <1>2 DEF Merged, IsQuery, IsMap

LEMMA IntersectQueryCases ==
  ASSUME NEW parent, NEW child
  PROVE  IntersectQuery(parent, child) =
           IF IsQueryOpen(parent) THEN (IF IsQueryOpen(child) THEN Anything ELSE child)
           ELSE IF IsQueryOpen(child) THEN parent
           ELSE Merged(parent, child)
BY DEF IntersectQuery, Merged, BothAnswer

LEMMA IntersectQueryTypes ==
  ASSUME NEW parent, NEW child, IsQuery(parent), IsQuery(child)
  PROVE  IsQuery(IntersectQuery(parent, child))
<1>1. IsQuery(Anything)
  BY AnythingIsEmpty DEF IsQuery
<1> QED
  BY <1>1, MergedTypes, IntersectQueryCases

LEMMA IntersectMethodsTypes ==
  ASSUME NEW parent, NEW child, parent \subseteq Methods \union {Star},
         child \subseteq Methods \union {Star}
  PROVE  IntersectMethods(parent, child) \subseteq Methods \union {Star}
BY DEF IntersectMethods

Rule(methods, query) == [methods |-> methods, query |-> query]

LEMMA RuleTypes ==
  ASSUME NEW methods, NEW query, NEW kind, methods \subseteq Methods \union {Star},
         IsMap(query, Keys \union {Star}, kind)
  PROVE  IsRule(Rule(methods, query), kind)
BY DEF Rule, IsRule

LEMMA LookRule ==
  ASSUME NEW api, IsApi(api, Kept), NEW p, Resolves(api, p)
  PROVE  /\ Look(api, p).methods \subseteq Methods \union {Star}
         /\ IsQuery(Look(api, p).query)
BY DEF IsApi, IsRule, IsQuery, Resolves, Look

\* What the intersection of two documents is, path by path.
LEMMA IntersectPaths ==
  ASSUME NEW parent, NEW child, IsApi(parent, Kept), IsApi(child, Kept)
  PROVE  /\ IsApi(Intersect(parent, child), Kept)
         /\ \A p : p \in DOMAIN Intersect(parent, child) <=>
              /\ p \in Candidates(parent, child) /\ Resolves(parent, p) /\ Resolves(child, p)
              /\ IntersectMethods(Look(parent, p).methods, Look(child, p).methods) # {}
         /\ \A p \in DOMAIN Intersect(parent, child) :
              /\ Intersect(parent, child)[p].methods =
                   IntersectMethods(Look(parent, p).methods, Look(child, p).methods)
              /\ Intersect(parent, child)[p].query =
                   IntersectQuery(Look(parent, p).query, Look(child, p).query)
<1> DEFINE api == Intersect(parent, child)
           M(p) == IntersectMethods(Look(parent, p).methods, Look(child, p).methods)
           Q(p) == IntersectQuery(Look(parent, p).query, Look(child, p).query)
           D == {c \in Candidates(parent, child) :
                   Resolves(parent, c) /\ Resolves(child, c) /\ M(c) # {}}
<1>1. api = [p \in D |-> Rule(M(p), Q(p))]
  BY DEF Intersect, Rule
<1>2. D \subseteq Paths \union {Star}
  BY DEF Candidates, IsApi
<1>3. ASSUME NEW p \in D PROVE IsRule(Rule(M(p), Q(p)), Kept)
  <2>1. M(p) \subseteq Methods \union {Star}
    BY LookRule, IntersectMethodsTypes
  <2>2. IsQuery(Q(p))
    BY LookRule, IntersectQueryTypes
  <2> QED
    BY <2>1, <2>2, RuleTypes DEF IsQuery
<1>4. ASSUME NEW p \in D PROVE Rule(M(p), Q(p)).methods = M(p) /\ Rule(M(p), Q(p)).query = Q(p)
  BY DEF Rule
<1> HIDE DEF M, Q
<1>5. IsApi(api, Kept)
  BY <1>1, <1>2, <1>3 DEF IsApi
<1>6. DOMAIN api = D /\ \A p \in D : api[p].methods = M(p) /\ api[p].query = Q(p)
  BY <1>1, <1>4
<1> QED
  BY <1>5, <1>6 DEF M, Q

LEMMA ExpandedTypes ==
  ASSUME NEW grants
  PROVE  /\ IsApi(ExpandGrants(grants), Kept)
         /\ \A p \in DOMAIN ExpandGrants(grants) : ExpandGrants(grants)[p].query = Anything
<1> DEFINE keys == UNION {MatchCatalog(g) : g \in grants}
           On(p) == {k \in keys : p \in DOMAIN Catalog[k]}
           D == UNION {DOMAIN Catalog[k] : k \in keys}
           M(p) == UNION {Catalog[k][p] : k \in On(p)}
<1>1. ExpandGrants(grants) = [p \in D |-> Rule(M(p), Anything)]
  BY DEF ExpandGrants, Rule
<1>2. keys \subseteq DOMAIN Catalog
  BY DEF MatchCatalog
<1> HIDE DEF keys
<1>3. D \subseteq Paths
  BY <1>2, CatalogAssumption DEF IsMap
<1>4. ASSUME NEW p \in D PROVE M(p) \subseteq Methods \union {Star}
  <2>1. ASSUME NEW k \in On(p) PROVE Catalog[k][p] \subseteq Methods
    BY <1>2, CatalogAssumption DEF IsMap
  <2> QED
    BY <2>1
<1> HIDE DEF D, M
<1>5. ASSUME NEW p \in D PROVE IsRule(Rule(M(p), Anything), Kept)
  BY <1>4, RuleTypes, AnythingIsEmpty
<1>6. ASSUME NEW p \in D PROVE Rule(M(p), Anything).query = Anything
  BY DEF Rule
<1> QED
  BY <1>1, <1>3, <1>5, <1>6 DEF IsApi

LEMMA LayerTypes ==
  ASSUME NEW d \in Documents
  PROVE  IsApi(Layer(d), Kept)
<1> DEFINE expanded == ExpandGrants(d.grants)
           D == DOMAIN d.api \union DOMAIN expanded
           R(p) == IF p \in DOMAIN d.api
                   THEN Rule(d.api[p].methods, SinglePatterns(d.api[p].query))
                   ELSE expanded[p]
<1>1. Layer(d) = [p \in D |-> R(p)]
  BY DEF Layer, Rule
<1>2. IsApi(expanded, Kept) /\ IsApi(d.api, Patterns \union {Star})
  BY ExpandedTypes, DocumentsAssumption
<1> HIDE DEF expanded
<1>3. D \subseteq Paths \union {Star}
  BY <1>2 DEF IsApi
<1>4. ASSUME NEW p \in D PROVE IsRule(R(p), Kept)
  <2>1. CASE p \in DOMAIN d.api
    <3>1. /\ d.api[p].methods \subseteq Methods \union {Star}
          /\ IsMap(d.api[p].query, Keys \union {Star}, Patterns \union {Star})
      BY <1>2, <2>1 DEF IsApi, IsRule
    <3>2. \A q \in Patterns \union {Star} : {q} \in Kept
      BY DEF Kept
    <3>3. IsMap(SinglePatterns(d.api[p].query), Keys \union {Star}, Kept)
      BY <3>1, <3>2 DEF IsMap, SinglePatterns
    <3> QED
      BY <2>1, <3>1, <3>3, RuleTypes
  <2>2. CASE p \notin DOMAIN d.api
    BY <1>2, <2>2 DEF IsApi
  <2> QED
    BY <2>1, <2>2
<1> HIDE DEF D, R
<1> QED
  BY <1>1, <1>3, <1>4 DEF IsApi

-----------------------------------------------------------------------------
(* Queries *)

\* An open query that mentions nothing else lets every call through.
LEMMA OpenAllowsAll ==
  ASSUME NEW query, IsQueryOpen(query), OpenIsAlone(query),
         NEW params, DOMAIN params \subseteq Keys
  PROVE  IsQueryAllowed(params, query)
<1>1. CASE DOMAIN query = {}
  BY <1>1 DEF IsQueryAllowed
<1>2. CASE Star \in DOMAIN query /\ query[Star] = {Star}
  <2>1. DOMAIN query = {Star}
    BY <1>2 DEF OpenIsAlone
  <2> QED
    BY <1>2, <2>1, StarLooksUp, StarAssumption DEF IsQueryAllowed
<1> QED
  BY <1>1, <1>2 DEF IsQueryOpen

\* The patterns of an intersection are those of its sides, wildcards aside.
LEMMA MergedPatterns ==
  ASSUME NEW parent \in Kept, NEW child \in Kept
  PROVE  /\ \A q \in MergePatterns(parent, child) : q = Star \/ q \in parent \/ q \in child
         /\ \A q \in parent \union child : q = Star \/ q \in MergePatterns(parent, child)
         /\ MergePatterns(parent, child) = {Star} => parent = {Star} /\ child = {Star}
BY DEF MergePatterns, Kept

LEMMA MergedLooksUp ==
  ASSUME NEW parent, NEW child, IsQuery(parent), IsQuery(child), NEW k, k # Star,
         Resolves(parent, k), Resolves(child, k)
  PROVE  /\ Resolves(Merged(parent, child), k)
         /\ Look(Merged(parent, child), k) = MergePatterns(Look(parent, k), Look(child, k))
<1> DEFINE m == Merged(parent, child)
<1>1. DOMAIN m = BothAnswer(parent, child)
  BY DEF Merged
<1>2. \A c \in DOMAIN m : m[c] = MergePatterns(Look(parent, c), Look(child, c))
  BY <1>1 DEF Merged
<1>3. CASE k \in Candidates(parent, child)
  <2>1. k \in DOMAIN m
    BY <1>1, <1>3 DEF BothAnswer
  <2> QED
    BY <1>2, <2>1, OwnKeyLooksUp
<1>4. CASE k \notin Candidates(parent, child)
  <2>1. /\ k \notin DOMAIN parent /\ k \notin DOMAIN child
        /\ Star \in Candidates(parent, child)
    BY <1>4, CandidateOfBoth
  <2>2. Star \in DOMAIN parent /\ Star \in DOMAIN child
    BY <2>1 DEF Resolves, KeyOf
  <2>3. Star \in DOMAIN m /\ k \notin DOMAIN m
    BY <1>1, <1>4, <2>1, <2>2, StarLooksUp DEF BothAnswer
  <2>4. Look(m, k) = m[Star] /\ Resolves(m, k)
    BY <2>3, StarLooksUp
  <2>5. Look(parent, k) = Look(parent, Star) /\ Look(child, k) = Look(child, Star)
    BY <2>1, <2>2, StarLooksUp
  <2> QED
    BY <1>2, <2>3, <2>4, <2>5
<1> QED
  BY <1>3, <1>4

\* A key of the intersection is a key both answer for.
LEMMA MergedResolves ==
  ASSUME NEW parent, NEW child, NEW k, Resolves(Merged(parent, child), k)
  PROVE  Resolves(parent, k) /\ Resolves(child, k)
<1>1. KeyOf(Merged(parent, child), k) \in BothAnswer(parent, child)
  BY DEF Resolves, Merged
<1> QED
  BY <1>1, StarLooksUp DEF BothAnswer, Resolves, KeyOf

\* Parameters both queries take are taken by their intersection.
LEMMA QueryOfBoth ==
  ASSUME NEW parent, NEW child, IsQuery(parent), IsQuery(child),
         NEW params, DOMAIN params \subseteq Keys,
         IsQueryAllowed(params, parent), IsQueryAllowed(params, child)
  PROVE  IsQueryAllowed(params, IntersectQuery(parent, child))
<1>1. CASE IsQueryOpen(parent) \/ IsQueryOpen(child)
  BY <1>1, IntersectQueryCases, AnythingIsEmpty DEF IsQueryAllowed
<1>2. CASE ~IsQueryOpen(parent) /\ ~IsQueryOpen(child)
  <2>1. IntersectQuery(parent, child) = Merged(parent, child)
    BY <1>2, IntersectQueryCases
  <2>2. ASSUME NEW k \in DOMAIN params
        PROVE  /\ Resolves(Merged(parent, child), k)
               /\ \A q \in Look(Merged(parent, child), k) : q = Star \/ params[k] \in q
    <3>1. k # Star
      BY StarAssumption
    <3>2. /\ Resolves(parent, k) /\ \A q \in Look(parent, k) : q = Star \/ params[k] \in q
          /\ Resolves(child, k) /\ \A q \in Look(child, k) : q = Star \/ params[k] \in q
      BY <1>2 DEF IsQueryAllowed, IsQueryOpen
    <3>3. Look(parent, k) \in Kept /\ Look(child, k) \in Kept
      BY <3>2, LookKept
    <3> QED
      BY <3>1, <3>2, <3>3, MergedLooksUp, MergedPatterns
  <2> QED
    BY <2>1, <2>2 DEF IsQueryAllowed
<1> QED
  BY <1>1, <1>2

\* A restricted intersection is not open by accident.
LEMMA MergedStaysRestricted ==
  ASSUME NEW parent, NEW child, IsQuery(parent), IsQuery(child),
         ~IsQueryOpen(parent), ~IsQueryOpen(child)
  PROVE  IsQueryOpen(Merged(parent, child)) => DOMAIN Merged(parent, child) = {}
<1> DEFINE m == Merged(parent, child)
<1>1. ASSUME Star \in DOMAIN m, m[Star] = {Star} PROVE FALSE
  <2>1. /\ Star \in DOMAIN parent /\ Star \in DOMAIN child
        /\ m[Star] = MergePatterns(Look(parent, Star), Look(child, Star))
    BY <1>1, StarLooksUp DEF Merged, BothAnswer, Candidates
  <2>2. /\ Look(parent, Star) = parent[Star] /\ parent[Star] \in Kept
        /\ Look(child, Star) = child[Star] /\ child[Star] \in Kept
    BY <2>1, StarLooksUp, LookKept
  <2>3. parent[Star] = {Star}
    BY <1>1, <2>1, <2>2, MergedPatterns
  <2> QED
    BY <2>1, <2>3 DEF IsQueryOpen
<1> QED
  BY <1>1 DEF IsQueryOpen

\* Of queries that are comparable, the intersection is, and takes no more than each.
LEMMA QueryOfEach ==
  ASSUME NEW parent, NEW child, IsQuery(parent), IsQuery(child),
         OpenIsAlone(parent), OpenIsAlone(child),
         NEW k \in Keys, Mentions(parent, k), Mentions(child, k)
  PROVE  /\ OpenIsAlone(IntersectQuery(parent, child))
         /\ Mentions(IntersectQuery(parent, child), k)
         /\ \A params : (DOMAIN params \subseteq Keys
                           /\ IsQueryAllowed(params, IntersectQuery(parent, child))) =>
              IsQueryAllowed(params, parent) /\ IsQueryAllowed(params, child)
<1>1. CASE IsQueryOpen(parent) \/ IsQueryOpen(child)
  <2>1. OpenIsAlone(Anything) /\ Mentions(Anything, k)
    BY AnythingIsEmpty DEF OpenIsAlone, Mentions
  <2> QED
    BY <1>1, <2>1, IntersectQueryCases, OpenAllowsAll
<1>2. CASE ~IsQueryOpen(parent) /\ ~IsQueryOpen(child)
  <2> DEFINE m == Merged(parent, child)
  <2>1. IntersectQuery(parent, child) = m
    BY <1>2, IntersectQueryCases
  <2>2. k # Star /\ Resolves(parent, k) /\ Resolves(child, k)
    BY <1>2, StarAssumption DEF Mentions, IsQueryOpen
  <2>3. Resolves(m, k)
    BY <2>2, MergedLooksUp
  <2>4. DOMAIN m # {}
    BY <2>3 DEF Resolves
  <2>5. ~IsQueryOpen(m)
    BY <1>2, <2>4, MergedStaysRestricted
  <2>6. ASSUME NEW params, DOMAIN params \subseteq Keys, IsQueryAllowed(params, m)
        PROVE  IsQueryAllowed(params, parent) /\ IsQueryAllowed(params, child)
    <3>1. ASSUME NEW c \in DOMAIN params
          PROVE  /\ Resolves(parent, c) /\ \A q \in Look(parent, c) : q = Star \/ params[c] \in q
                 /\ Resolves(child, c) /\ \A q \in Look(child, c) : q = Star \/ params[c] \in q
      <4>1. c # Star
        BY <2>6, StarAssumption
      <4>2. Resolves(m, c) /\ \A q \in Look(m, c) : q = Star \/ params[c] \in q
        BY <2>4, <2>6 DEF IsQueryAllowed
      <4>3. Resolves(parent, c) /\ Resolves(child, c)
        BY <4>2, MergedResolves
      <4>4. Look(parent, c) \in Kept /\ Look(child, c) \in Kept
        BY <4>3, LookKept
      <4> QED
        BY <4>1, <4>2, <4>3, <4>4, MergedLooksUp, MergedPatterns
    <3> QED
      BY <3>1 DEF IsQueryAllowed
  <2> QED
    BY <2>1, <2>3, <2>5, <2>6 DEF OpenIsAlone, Mentions
<1> QED
  BY <1>1, <1>2

-----------------------------------------------------------------------------
(* Methods *)

LEMMA MethodOfBoth ==
  ASSUME NEW m \in Methods, NEW parent, NEW child,
         IsMethodAllowed(m, parent), IsMethodAllowed(m, child)
  PROVE  /\ IsMethodAllowed(m, IntersectMethods(parent, child))
         /\ IntersectMethods(parent, child) # {}
BY DEF IsMethodAllowed, IntersectMethods

LEMMA MethodOfEach ==
  ASSUME NEW m \in Methods, NEW parent, NEW child,
         IsMethodAllowed(m, IntersectMethods(parent, child))
  PROVE  IsMethodAllowed(m, parent) /\ IsMethodAllowed(m, child)
BY DEF IsMethodAllowed, IntersectMethods

LEMMA MethodsWithinBoth ==
  ASSUME NEW c1, NEW p1, NEW c2, NEW p2, MethodsWithin(c1, p1), MethodsWithin(c2, p2)
  PROVE  MethodsWithin(IntersectMethods(c1, c2), IntersectMethods(p1, p2))
BY DEF MethodsWithin, IntersectMethods

LEMMA MethodOfWider ==
  ASSUME NEW m, NEW child, NEW parent, MethodsWithin(child, parent), IsMethodAllowed(m, child)
  PROVE  IsMethodAllowed(m, parent)
BY DEF MethodsWithin, IsMethodAllowed

-----------------------------------------------------------------------------
(* The guard on an intersection *)

LEMMA CallTypes ==
  ASSUME NEW call \in Calls
  PROVE  /\ call.path \in Paths /\ call.path # Star
         /\ call.method \in Methods
         /\ DOMAIN call.query \subseteq Keys
BY StarAssumption DEF Calls

\* Where no path takes more methods than "*", a rule of any key that answers for the
\* path is enough for the guard to take the method.
LEMMA AnyMethodWillDo ==
  ASSUME NEW api, StarTakesMost(api), NEW call,
         NEW p \in {Star, call.path}, Resolves(api, p),
         IsMethodAllowed(call.method, Look(api, p).methods)
  PROVE  TakesMethod(api, call)
<1>1. CASE Star \in DOMAIN api
  <2>1. GuardKey(api, call.path) = Star
    BY <1>1 DEF GuardKey
  <2>2. IsMethodAllowed(call.method, api[Star].methods)
    <3>1. CASE p \in DOMAIN api
      <4>1. MethodsWithin(api[p].methods, api[Star].methods)
        BY <1>1, <3>1 DEF StarTakesMost
      <4> QED
        BY <3>1, <4>1, OwnKeyLooksUp, MethodOfWider
    <3>2. CASE p \notin DOMAIN api
      BY <1>1, <3>2, StarLooksUp
    <3> QED
      BY <3>1, <3>2
  <2> QED
    BY <1>1, <2>1, <2>2 DEF TakesMethod
<1>2. CASE Star \notin DOMAIN api
  <2>1. p \in DOMAIN api /\ p = call.path /\ Look(api, p) = api[p]
    BY <1>2 DEF Resolves, KeyOf, Look
  <2> QED
    BY <1>2, <2>1 DEF TakesMethod, GuardKey
<1> QED
  BY <1>1, <1>2

\* And its query is that rule's, or open to everything.
LEMMA AnyQueryWillDo ==
  ASSUME NEW api, Tidy(api), NEW call \in Calls,
         NEW p \in {Star, call.path}, Resolves(api, p)
  PROVE  \/ api[GuardKey(api, call.path)].query = Look(api, p).query
         \/ IsQueryAllowed(call.query, api[GuardKey(api, call.path)].query)
<1>1. CASE Star \in DOMAIN api
  <2>1. GuardKey(api, call.path) = Star
    BY <1>1 DEF GuardKey
  <2>2. IsQueryOpen(api[Star].query) /\ OpenIsAlone(api[Star].query)
    BY <1>1 DEF Tidy, StarOpensMost
  <2> QED
    BY <2>1, <2>2, CallTypes, OpenAllowsAll
<1>2. CASE Star \notin DOMAIN api
  BY <1>2 DEF Resolves, KeyOf, Look, GuardKey
<1> QED
  BY <1>1, <1>2

LEMMA AnyRuleWillDo ==
  ASSUME NEW api, Tidy(api), NEW call \in Calls,
         NEW p \in {Star, call.path}, Resolves(api, p),
         IsMethodAllowed(call.method, Look(api, p).methods),
         IsQueryAllowed(call.query, Look(api, p).query)
  PROVE  Allows(api, call)
<1>1. TakesMethod(api, call)
  BY AnyMethodWillDo DEF Tidy, StarOpensMost
<1>2. IsQueryAllowed(call.query, api[GuardKey(api, call.path)].query)
  BY AnyQueryWillDo
<1> QED
  BY <1>1, <1>2 DEF TakesMethod, Allows

\* Intersections keep "*" the widest, and take no method a side does not.
LEMMA MethodsIntersection ==
  ASSUME NEW parent, NEW child, IsApi(parent, Kept), IsApi(child, Kept),
         StarTakesMost(parent), StarTakesMost(child)
  PROVE  /\ StarTakesMost(Intersect(parent, child))
         /\ \A call \in Calls :
              TakesMethod(Intersect(parent, child), call) =>
                TakesMethod(parent, call) /\ TakesMethod(child, call)
<1> DEFINE api == Intersect(parent, child)
<1>1. ASSUME NEW p \in DOMAIN api
      PROVE  /\ Resolves(parent, p) /\ Resolves(child, p)
             /\ api[p].methods = IntersectMethods(Look(parent, p).methods, Look(child, p).methods)
             /\ p = Star => Star \in DOMAIN parent /\ Star \in DOMAIN child
  <2>1. p \in Candidates(parent, child)
    BY IntersectPaths
  <2> QED
    BY <2>1, IntersectPaths DEF Candidates
<1> HIDE DEF api
<1>2. ASSUME NEW p \in DOMAIN api, Star \in DOMAIN api
      PROVE  MethodsWithin(api[p].methods, api[Star].methods)
  <2>1. /\ Star \in DOMAIN parent /\ Look(parent, Star) = parent[Star]
        /\ Star \in DOMAIN child /\ Look(child, Star) = child[Star]
    BY <1>1, <1>2, StarLooksUp
  <2>2. ASSUME NEW side, StarTakesMost(side), Star \in DOMAIN side
        PROVE  MethodsWithin(Look(side, p).methods, side[Star].methods)
    <3>1. KeyOf(side, p) \in DOMAIN side
      BY <2>2 DEF KeyOf
    <3> QED
      BY <2>2, <3>1 DEF StarTakesMost, Look
  <2> QED
    BY <1>1, <1>2, <2>1, <2>2, MethodsWithinBoth
<1>3. StarTakesMost(api)
  BY <1>2 DEF StarTakesMost
<1>4. ASSUME NEW call \in Calls, TakesMethod(api, call)
      PROVE  TakesMethod(parent, call) /\ TakesMethod(child, call)
  <2> DEFINE p == GuardKey(api, call.path)
  <2>1. /\ p \in DOMAIN api /\ p \in {Star, call.path}
        /\ IsMethodAllowed(call.method, api[p].methods)
    BY <1>4 DEF TakesMethod, GuardKey
  <2> HIDE DEF p
  <2>2. /\ IsMethodAllowed(call.method, Look(parent, p).methods)
        /\ IsMethodAllowed(call.method, Look(child, p).methods)
    BY <1>1, <2>1, CallTypes, MethodOfEach
  <2> QED
    BY <1>1, <2>1, <2>2, AnyMethodWillDo
<1> QED
  BY <1>3, <1>4 DEF api

\* A document whose rules say something of parameter k.
TidyFor(api, k) == Tidy(api) /\ \A p \in DOMAIN api : Mentions(api[p].query, k)

LEMMA LookTidy ==
  ASSUME NEW api, NEW k, TidyFor(api, k), NEW p, Resolves(api, p)
  PROVE  OpenIsAlone(Look(api, p).query) /\ Mentions(Look(api, p).query, k)
BY DEF TidyFor, Tidy, Resolves, Look

\* Comparable documents intersect into one, which allows no more than each.
LEMMA TidyIntersection ==
  ASSUME NEW parent, NEW child, IsApi(parent, Kept), IsApi(child, Kept),
         NEW k \in Keys, TidyFor(parent, k), TidyFor(child, k)
  PROVE  /\ TidyFor(Intersect(parent, child), k)
         /\ \A call \in Calls :
              Allows(Intersect(parent, child), call) => Allows(parent, call) /\ Allows(child, call)
<1> DEFINE api == Intersect(parent, child)
<1>1. ASSUME NEW p \in DOMAIN api
      PROVE  /\ Resolves(parent, p) /\ Resolves(child, p)
             /\ api[p].methods = IntersectMethods(Look(parent, p).methods, Look(child, p).methods)
             /\ api[p].query = IntersectQuery(Look(parent, p).query, Look(child, p).query)
             /\ p = Star => Star \in DOMAIN parent /\ Star \in DOMAIN child
  <2>1. p \in Candidates(parent, child)
    BY IntersectPaths
  <2> QED
    BY <2>1, IntersectPaths DEF Candidates
<1>2. ASSUME NEW p \in DOMAIN api
      PROVE  /\ OpenIsAlone(api[p].query) /\ Mentions(api[p].query, k)
             /\ \A params : (DOMAIN params \subseteq Keys /\ IsQueryAllowed(params, api[p].query)) =>
                  /\ IsQueryAllowed(params, Look(parent, p).query)
                  /\ IsQueryAllowed(params, Look(child, p).query)
  <2>1. /\ OpenIsAlone(Look(parent, p).query) /\ Mentions(Look(parent, p).query, k)
        /\ OpenIsAlone(Look(child, p).query) /\ Mentions(Look(child, p).query, k)
    BY <1>1, LookTidy
  <2>2. IsQuery(Look(parent, p).query) /\ IsQuery(Look(child, p).query)
    BY <1>1, LookRule
  <2> QED
    BY <1>1, <2>1, <2>2, QueryOfEach
<1> HIDE DEF api
<1>3. StarTakesMost(api)
  BY MethodsIntersection DEF api, TidyFor, Tidy, StarOpensMost
<1>4. TidyFor(api, k)
  <2>1. ASSUME Star \in DOMAIN api PROVE IsQueryOpen(api[Star].query)
    <3>1. /\ Star \in DOMAIN parent /\ Look(parent, Star) = parent[Star]
          /\ Star \in DOMAIN child /\ Look(child, Star) = child[Star]
      BY <1>1, <2>1, StarLooksUp
    <3>2. IsQueryOpen(parent[Star].query) /\ IsQueryOpen(child[Star].query)
      BY <3>1 DEF TidyFor, Tidy, StarOpensMost
    <3>3. api[Star].query = IntersectQuery(parent[Star].query, child[Star].query)
      BY <1>1, <2>1, <3>1
    <3> QED
      BY <3>2, <3>3, IntersectQueryCases, AnythingIsEmpty DEF IsQueryOpen
  <2> QED
    BY <1>2, <1>3, <2>1 DEF TidyFor, Tidy, StarOpensMost
<1>5. ASSUME NEW call \in Calls, Allows(api, call)
      PROVE  Allows(parent, call) /\ Allows(child, call)
  <2> DEFINE p == GuardKey(api, call.path)
  <2>1. /\ p \in DOMAIN api /\ p \in {Star, call.path}
        /\ IsMethodAllowed(call.method, api[p].methods)
        /\ IsQueryAllowed(call.query, api[p].query)
    BY <1>5 DEF Allows, GuardKey
  <2> HIDE DEF p
  <2>2. /\ IsMethodAllowed(call.method, Look(parent, p).methods)
        /\ IsMethodAllowed(call.method, Look(child, p).methods)
    BY <1>1, <2>1, CallTypes, MethodOfEach
  <2>3. /\ IsQueryAllowed(call.query, Look(parent, p).query)
        /\ IsQueryAllowed(call.query, Look(child, p).query)
    BY <1>2, <2>1, CallTypes
  <2> QED
    BY <1>1, <2>1, <2>2, <2>3, AnyRuleWillDo DEF TidyFor
<1> QED
  BY <1>4, <1>5 DEF api

\* Documents whose "*" is alone intersect into one, which allows all that both do.
LEMMA LoneStarIntersection ==
  ASSUME NEW parent, NEW child, IsApi(parent, Kept), IsApi(child, Kept),
         StarIsAlone(parent), StarIsAlone(child)
  PROVE  /\ StarIsAlone(Intersect(parent, child))
         /\ \A call \in Calls :
              Allows(parent, call) /\ Allows(child, call) => Allows(Intersect(parent, child), call)
<1> DEFINE api == Intersect(parent, child)
<1>1. Star \in DOMAIN api => DOMAIN api = {Star}
  <2>1. ASSUME Star \in DOMAIN api, NEW p \in DOMAIN api PROVE p = Star
    BY <2>1, IntersectPaths DEF Candidates, StarIsAlone
  <2> QED
    BY <2>1
<1>2. ASSUME NEW call \in Calls, Allows(parent, call), Allows(child, call)
      PROVE  Allows(api, call)
  <2> DEFINE p == IF Star \in DOMAIN parent /\ Star \in DOMAIN child THEN Star ELSE call.path
  <2>1. ASSUME NEW side, StarIsAlone(side), Allows(side, call)
        PROVE  /\ Resolves(side, call.path)
               /\ IsMethodAllowed(call.method, Look(side, call.path).methods)
               /\ IsQueryAllowed(call.query, Look(side, call.path).query)
               /\ Star \in DOMAIN side => Look(side, call.path) = Look(side, Star)
    BY <2>1, CallTypes DEF StarIsAlone, Allows, GuardKey, Resolves, KeyOf, Look
  <2>2. /\ Resolves(parent, p) /\ IsMethodAllowed(call.method, Look(parent, p).methods)
        /\ IsQueryAllowed(call.query, Look(parent, p).query)
        /\ Resolves(child, p) /\ IsMethodAllowed(call.method, Look(child, p).methods)
        /\ IsQueryAllowed(call.query, Look(child, p).query)
    BY <1>2, <2>1, StarLooksUp
  <2>3. p \in Candidates(parent, child)
    <3>1. CASE Star \in DOMAIN parent /\ Star \in DOMAIN child
      BY <3>1 DEF Candidates
    <3>2. CASE ~(Star \in DOMAIN parent /\ Star \in DOMAIN child)
      BY <2>2, <3>2, CallTypes DEF Candidates, Resolves, KeyOf
    <3> QED
      BY <3>1, <3>2
  <2>4. Star \in DOMAIN api => p = Star
    BY IntersectPaths DEF Candidates
  <2> HIDE DEF p
  <2>5. p \in DOMAIN api
    BY <2>2, <2>3, IntersectPaths, CallTypes, MethodOfBoth
  <2>6. IsMethodAllowed(call.method, api[p].methods)
    BY <2>2, <2>5, IntersectPaths, CallTypes, MethodOfBoth
  <2>7. IsQueryAllowed(call.query, api[p].query)
    BY <2>2, <2>5, IntersectPaths, CallTypes, LookRule, QueryOfBoth
  <2>8. GuardKey(api, call.path) = p
    BY <2>4, <2>5 DEF GuardKey, p
  <2> QED
    BY <2>5, <2>6, <2>7, <2>8 DEF Allows
<1> QED
  BY <1>1, <1>2 DEF StarIsAlone

-----------------------------------------------------------------------------
(* The stack *)

LEMMA StackGrows ==
  ASSUME TypeOK, NEW d \in Documents, ResolveNext(d)
  PROVE  /\ layers' \in Seq(Documents) /\ Len(layers') = Len(layers) + 1
         /\ Stacked' = Stacked \union {Layer(d)}
         /\ layers = << >> => Stacked = {} /\ resolved' = Layer(d)
         /\ layers # << >> => Len(layers) > 0 /\ resolved' = Intersect(resolved, Layer(d))
<1>1. layers \in Seq(Documents) /\ Len(layers) \in Nat /\ layers' = Append(layers, d)
  BY LenProperties DEF TypeOK, ResolveNext
<1>2. /\ layers' \in Seq(Documents) /\ Len(layers') = Len(layers) + 1
      /\ \A i \in 1..Len(layers) : layers'[i] = layers[i]
      /\ layers'[Len(layers) + 1] = d
  BY <1>1
<1>3. 1..Len(layers') = (1..Len(layers)) \union {Len(layers) + 1}
  BY <1>1, <1>2
<1>4. Stacked' = Stacked \union {Layer(d)}
  BY <1>2, <1>3 DEF Stacked
<1>5. layers = << >> => Len(layers) = 0
  BY EmptySeq
<1>6. layers = << >> => Stacked = {}
  BY <1>1, <1>5 DEF Stacked
<1>7. layers # << >> => Len(layers) > 0
  BY <1>1, EmptySeq
<1> QED
  BY <1>2, <1>4, <1>6, <1>7 DEF ResolveNext

LEMMA NextKeepsTypes == TypeOK /\ [Next]_vars => TypeOK'
<1> SUFFICES ASSUME TypeOK, [Next]_vars PROVE TypeOK'
  OBVIOUS
<1>1. ASSUME NEW d \in Documents, ResolveNext(d) PROVE TypeOK'
  <2>1. IsApi(resolved, Kept) /\ IsApi(Layer(d), Kept) /\ Len(layers) \in Nat
    BY LayerTypes, LenProperties DEF TypeOK
  <2>2. CASE layers = << >>
    <3>1. Len(layers') = 1
      BY <1>1, <2>2, StackGrows, EmptySeq
    <3> QED
      BY <1>1, <2>1, <2>2, <3>1, StackGrows DEF TypeOK
  <2>3. CASE layers # << >>
    <3>1. resolved' = Intersect(resolved, Layer(d))
      BY <1>1, <2>3, StackGrows
    <3>2. \A p \in DOMAIN resolved' : resolved'[p].methods # {}
      BY <2>1, <3>1, IntersectPaths
    <3> QED
      BY <1>1, <2>1, <3>1, <3>2, StackGrows, IntersectPaths DEF TypeOK
  <2> QED
    BY <2>2, <2>3
<1>2. CASE UNCHANGED vars
  BY <1>2 DEF TypeOK, vars
<1> QED
  BY <1>1, <1>2 DEF Next

\* The result of Resolve is a document, and no path of it has nothing to call.
THEOREM TypeCorrect == Spec => []TypeOK
<1>1. Init => TypeOK
  BY EmptySeq, AnythingIsEmpty DEF Init, TypeOK, IsApi, Anything
<1> QED
  BY <1>1, NextKeepsTypes, PTL DEF Spec

\* The induction behind NoLayerIsWidened: comparable layers leave a document
\* comparable with the next one.
Narrows ==
  \A k \in Keys :
    (\A api \in Stacked : TidyFor(api, k)) =>
      /\ TidyFor(resolved, k)
      /\ \A call \in Calls : Allows(resolved, call) => \A api \in Stacked : Allows(api, call)

LEMMA AlwaysNarrows == Spec => []Narrows
<1>1. Init => Narrows
  <2>1. Init => DOMAIN resolved = {} /\ layers = << >>
    BY AnythingIsEmpty DEF Init, Anything
  <2>2. layers = << >> => Stacked = {}
    BY EmptySeq DEF Stacked
  <2>3. DOMAIN resolved = {} => \A k \in Keys : TidyFor(resolved, k)
    BY DEF TidyFor, Tidy, StarOpensMost, StarTakesMost
  <2> QED
    BY <2>1, <2>2, <2>3 DEF Narrows
<1>2. TypeOK /\ Narrows /\ [Next]_vars => Narrows'
  <2> SUFFICES ASSUME TypeOK, Narrows, [Next]_vars PROVE Narrows'
    OBVIOUS
  <2>1. ASSUME NEW d \in Documents, ResolveNext(d) PROVE Narrows'
    <3>1. SUFFICES ASSUME NEW k \in Keys, \A api \in Stacked' : TidyFor(api, k)
                   PROVE  /\ TidyFor(resolved', k)
                          /\ \A call \in Calls :
                               Allows(resolved', call) => \A api \in Stacked' : Allows(api, call)
      BY DEF Narrows
    <3>2. TidyFor(Layer(d), k) /\ \A api \in Stacked : TidyFor(api, k)
      BY <2>1, <3>1, StackGrows
    <3>3. /\ TidyFor(resolved, k)
          /\ \A call \in Calls : Allows(resolved, call) => \A api \in Stacked : Allows(api, call)
      BY <3>2 DEF Narrows
    <3>4. CASE layers = << >>
      <4>1. resolved' = Layer(d) /\ Stacked' = {Layer(d)}
        BY <2>1, <3>4, StackGrows
      <4> QED
        BY <3>2, <4>1
    <3>5. CASE layers # << >>
      <4>1. resolved' = Intersect(resolved, Layer(d)) /\ Stacked' = Stacked \union {Layer(d)}
        BY <2>1, <3>5, StackGrows
      <4>2. IsApi(resolved, Kept) /\ IsApi(Layer(d), Kept)
        BY LayerTypes DEF TypeOK
      <4>3. /\ TidyFor(resolved', k)
            /\ \A call \in Calls :
                 Allows(resolved', call) => Allows(resolved, call) /\ Allows(Layer(d), call)
        BY <3>2, <3>3, <4>1, <4>2, TidyIntersection
      <4> QED
        BY <3>3, <4>1, <4>3
    <3> QED
      BY <3>4, <3>5
  <2>2. CASE UNCHANGED vars
    <3>1. resolved' = resolved /\ Stacked' = Stacked
      BY <2>2 DEF vars, Stacked
    <3> QED
      BY <3>1 DEF Narrows
  <2> QED
    BY <2>1, <2>2 DEF Next
<1> QED
  BY <1>1, <1>2, TypeCorrect, PTL DEF Spec

LEMMA ComparableMeansTidy ==
  ASSUME Narrows, Comparable(Stacked)
  PROVE  /\ Tidy(resolved)
         /\ \A call \in Calls : Allows(resolved, call) => \A api \in Stacked : Allows(api, call)
<1>1. PICK k \in Keys : \A api \in Stacked : TidyFor(api, k)
  BY DEF Comparable, TidyFor
<1> QED
  BY <1>1 DEF Narrows, TidyFor

\* The same for methods alone, which holds of more documents.
TakesLess ==
  (\A api \in Stacked : StarTakesMost(api)) =>
    /\ StarTakesMost(resolved)
    /\ \A call \in Calls :
         TakesMethod(resolved, call) => \A api \in Stacked : TakesMethod(api, call)

LEMMA AlwaysTakesLess == Spec => []TakesLess
<1>1. Init => TakesLess
  <2>1. Init => DOMAIN resolved = {} /\ layers = << >>
    BY AnythingIsEmpty DEF Init, Anything
  <2>2. layers = << >> => Stacked = {}
    BY EmptySeq DEF Stacked
  <2> QED
    BY <2>1, <2>2 DEF TakesLess, StarTakesMost
<1>2. TypeOK /\ TakesLess /\ [Next]_vars => TakesLess'
  <2> SUFFICES ASSUME TypeOK, TakesLess, [Next]_vars PROVE TakesLess'
    OBVIOUS
  <2>1. ASSUME NEW d \in Documents, ResolveNext(d) PROVE TakesLess'
    <3>1. SUFFICES ASSUME \A api \in Stacked' : StarTakesMost(api)
                   PROVE  /\ StarTakesMost(resolved')
                          /\ \A call \in Calls :
                               TakesMethod(resolved', call) =>
                                 \A api \in Stacked' : TakesMethod(api, call)
      BY DEF TakesLess
    <3>2. StarTakesMost(Layer(d)) /\ \A api \in Stacked : StarTakesMost(api)
      BY <2>1, <3>1, StackGrows
    <3>3. /\ StarTakesMost(resolved)
          /\ \A call \in Calls :
               TakesMethod(resolved, call) => \A api \in Stacked : TakesMethod(api, call)
      BY <3>2 DEF TakesLess
    <3>4. CASE layers = << >>
      <4>1. resolved' = Layer(d) /\ Stacked' = {Layer(d)}
        BY <2>1, <3>4, StackGrows
      <4> QED
        BY <3>2, <4>1
    <3>5. CASE layers # << >>
      <4>1. resolved' = Intersect(resolved, Layer(d)) /\ Stacked' = Stacked \union {Layer(d)}
        BY <2>1, <3>5, StackGrows
      <4>2. IsApi(resolved, Kept) /\ IsApi(Layer(d), Kept)
        BY LayerTypes DEF TypeOK
      <4>3. /\ StarTakesMost(resolved')
            /\ \A call \in Calls :
                 TakesMethod(resolved', call) =>
                   TakesMethod(resolved, call) /\ TakesMethod(Layer(d), call)
        BY <3>2, <3>3, <4>1, <4>2, MethodsIntersection
      <4> QED
        BY <3>3, <4>1, <4>3
    <3> QED
      BY <3>4, <3>5
  <2>2. CASE UNCHANGED vars
    <3>1. resolved' = resolved /\ Stacked' = Stacked
      BY <2>2 DEF vars, Stacked
    <3> QED
      BY <3>1 DEF TakesLess
  <2> QED
    BY <2>1, <2>2 DEF Next
<1> QED
  BY <1>1, <1>2, TypeCorrect, PTL DEF Spec

\* Whatever the catalog and the documents, no layer is widened by those around it, if
\* they are comparable, nor its routes and methods, if they are not.
THEOREM ComparableLayersNarrow == Spec => []NoLayerIsWidened
<1>1. Narrows /\ TakesLess => NoLayerIsWidened
  <2> SUFFICES ASSUME Narrows, TakesLess PROVE NoLayerIsWidened
    OBVIOUS
  <2>1. \A call : Allows(resolved, call) => TakesMethod(resolved, call)
    BY DEF Allows, TakesMethod
  <2>2. Comparable(Stacked) =>
          \A call \in Calls : Allows(resolved, call) => \A api \in Stacked : Allows(api, call)
    BY ComparableMeansTidy
  <2> QED
    BY <2>1, <2>2 DEF NoLayerIsWidened, TakesLess
<1> QED
  BY <1>1, AlwaysNarrows, AlwaysTakesLess, PTL

\* The induction behind NothingIsLost.
Retains ==
  (layers # << >> /\ \A api \in Stacked : StarIsAlone(api)) =>
    /\ StarIsAlone(resolved)
    /\ \A call \in Calls :
         (\A api \in Stacked : Allows(api, call)) => Allows(resolved, call)

\* A call that every layer allows survives any stack of them.
THEOREM CommonCallsSurvive == Spec => []NothingIsLost
<1>1. Init => Retains
  BY DEF Init, Retains
<1>2. TypeOK /\ Retains /\ [Next]_vars => Retains'
  <2> SUFFICES ASSUME TypeOK, Retains, [Next]_vars PROVE Retains'
    OBVIOUS
  <2>1. ASSUME NEW d \in Documents, ResolveNext(d) PROVE Retains'
    <3>1. SUFFICES ASSUME \A api \in Stacked' : StarIsAlone(api)
                   PROVE  /\ StarIsAlone(resolved')
                          /\ \A call \in Calls :
                               (\A api \in Stacked' : Allows(api, call)) => Allows(resolved', call)
      BY DEF Retains
    <3>2. StarIsAlone(Layer(d)) /\ \A api \in Stacked : StarIsAlone(api)
      BY <2>1, <3>1, StackGrows
    <3>3. CASE layers = << >>
      <4>1. resolved' = Layer(d) /\ Stacked' = {Layer(d)}
        BY <2>1, <3>3, StackGrows
      <4> QED
        BY <3>2, <4>1
    <3>4. CASE layers # << >>
      <4>1. resolved' = Intersect(resolved, Layer(d)) /\ Stacked' = Stacked \union {Layer(d)}
        BY <2>1, <3>4, StackGrows
      <4>2. IsApi(resolved, Kept) /\ IsApi(Layer(d), Kept)
        BY LayerTypes DEF TypeOK
      <4>3. /\ StarIsAlone(resolved)
            /\ \A call \in Calls :
                 (\A api \in Stacked : Allows(api, call)) => Allows(resolved, call)
        BY <3>2, <3>4 DEF Retains
      <4> QED
        BY <3>2, <4>1, <4>2, <4>3, LoneStarIntersection
    <3> QED
      BY <3>3, <3>4
  <2>2. CASE UNCHANGED vars
    <3>1. layers' = layers /\ resolved' = resolved /\ Stacked' = Stacked
      BY <2>2 DEF vars, Stacked
    <3> QED
      BY <3>1 DEF Retains
  <2> QED
    BY <2>1, <2>2 DEF Next
<1>3. Retains => NothingIsLost
  BY DEF Retains, NothingIsLost
<1> QED
  BY <1>1, <1>2, <1>3, TypeCorrect, PTL DEF Spec

-----------------------------------------------------------------------------
(* Grants and ceilings *)

\* A grant of the catalog expands into its own routes at least.
LEMMA GrantExpands ==
  ASSUME NEW g \in DOMAIN Catalog, NEW p \in DOMAIN Catalog[g]
  PROVE  /\ p \in DOMAIN ExpandGrants({g})
         /\ Catalog[g][p] \subseteq ExpandGrants({g})[p].methods
         /\ ExpandGrants({g})[p].query = Anything
<1>1. g \in MatchCatalog(g)
  BY DEF MatchCatalog
<1> DEFINE keys == UNION {MatchCatalog(h) : h \in {g}}
           On(q) == {k \in keys : q \in DOMAIN Catalog[k]}
           D == UNION {DOMAIN Catalog[k] : k \in keys}
           M(q) == UNION {Catalog[k][q] : k \in On(q)}
<1>2. ExpandGrants({g}) = [q \in D |-> Rule(M(q), Anything)]
  BY DEF ExpandGrants, Rule
<1>3. g \in keys
  BY <1>1
<1> HIDE DEF keys
<1>4. g \in On(p) /\ p \in D
  BY <1>3
<1>5. Catalog[g][p] \subseteq M(p)
  BY <1>4
<1> HIDE DEF D, M
<1>6. Rule(M(p), Anything).methods = M(p)
  BY DEF Rule
<1> QED
  BY <1>2, <1>4, <1>5, <1>6, ExpandedTypes

\* What a resolved document reports as granted, the guard delivers.
THEOREM ReportedGrantsOpen == Spec => []GrantsAreDelivered
<1>1. TypeOK /\ Narrows => GrantsAreDelivered
  <2> SUFFICES ASSUME TypeOK, Narrows, Comparable(Stacked),
                      NEW g \in GrantsWithin(resolved), NEW call \in Calls,
                      call.path \in DOMAIN Catalog[g], call.method \in Catalog[g][call.path]
               PROVE  Allows(resolved, call)
    BY DEF GrantsAreDelivered
  <2> DEFINE p == call.path
             rule == ExpandGrants({g})[p]
  <2>1. Tidy(resolved) /\ IsApi(resolved, Kept)
    BY ComparableMeansTidy DEF TypeOK
  <2>2. g \in DOMAIN Catalog /\ WithinApi(ExpandGrants({g}), resolved)
    BY DEF GrantsWithin
  <2>3. /\ p \in DOMAIN ExpandGrants({g})
        /\ call.method \in rule.methods /\ rule.query = Anything
    BY <2>2, GrantExpands
  <2>4. /\ Resolves(resolved, p)
        /\ MethodsWithin(rule.methods, Look(resolved, p).methods)
        /\ QueryWithin(rule.query, Look(resolved, p).query)
    BY <2>2, <2>3 DEF WithinApi
  <2>5. IsMethodAllowed(call.method, Look(resolved, p).methods)
    BY <2>3, <2>4 DEF MethodsWithin, IsMethodAllowed
  <2>6. IsQueryOpen(Look(resolved, p).query)
    <3>1. IsQueryOpen(Anything)
      BY AnythingIsEmpty DEF IsQueryOpen
    <3> QED
      BY <2>3, <2>4, <3>1 DEF QueryWithin
  <2>7. OpenIsAlone(Look(resolved, p).query)
    BY <2>1, <2>4 DEF Tidy, Resolves, Look
  <2>8. IsQueryAllowed(call.query, Look(resolved, p).query)
    BY <2>6, <2>7, CallTypes, OpenAllowsAll
  <2> QED
    BY <2>1, <2>4, <2>5, <2>8, AnyRuleWillDo
<1> QED
  BY <1>1, TypeCorrect, AlwaysNarrows, PTL

\* A query of layers takes no more than its patterns as alternatives do, and as much
\* if it has one for each parameter.
LEMMA AllowedByOne ==
  ASSUME NEW query, IsQuery(query), NEW params
  PROVE  /\ IsQueryAllowed(params, query) => IsQueryAllowedByOne(params, query)
         /\ Simple(query) => (IsQueryAllowedByOne(params, query) => IsQueryAllowed(params, query))
<1>1. \A k : Resolves(query, k) => Look(query, k) # {}
  BY LookKept DEF Kept
<1>2. Simple(query) => \A k : Resolves(query, k) => \A p, q \in Look(query, k) : p = q
  BY DEF Simple, Resolves, Look
<1>3. IsQueryAllowed(params, query) => IsQueryAllowedByOne(params, query)
  BY <1>1 DEF IsQueryAllowed, IsQueryAllowedByOne
<1>4. ASSUME Simple(query), IsQueryAllowedByOne(params, query)
      PROVE  IsQueryAllowed(params, query)
  BY <1>2, <1>4 DEF IsQueryAllowed, IsQueryAllowedByOne
<1> QED
  BY <1>3, <1>4

\* A restricted query within another takes no parameters all its patterns refuse.
LEMMA QueryOfWider ==
  ASSUME NEW child, NEW parent, IsQuery(child), IsQuery(parent), StarIsAlone(parent),
         OpenIsAlone(parent), QueryWithin(child, parent),
         NEW params, DOMAIN params \subseteq Keys, IsQueryAllowed(params, child)
  PROVE  IsQueryAllowedByOne(params, parent)
<1>1. CASE IsQueryOpen(parent)
  BY <1>1, OpenAllowsAll, AllowedByOne
<1>2. CASE ~IsQueryOpen(parent)
  <2>1. /\ DOMAIN child # {}
        /\ \A k \in DOMAIN child :
             Resolves(parent, k) /\ (Star \in Look(parent, k) \/ child[k] \subseteq Look(parent, k))
    BY <1>2 DEF QueryWithin, IsQueryOpen
  <2>2. ASSUME NEW k \in DOMAIN params
        PROVE  Resolves(parent, k) /\ \E q \in Look(parent, k) : q = Star \/ params[k] \in q
    <3> DEFINE c == KeyOf(child, k)
    <3>1. /\ c \in DOMAIN child /\ c \in {k, Star} /\ Look(child, k) = child[c]
          /\ \A q \in child[c] : q = Star \/ params[k] \in q
      BY <2>1 DEF IsQueryAllowed, Resolves, KeyOf, Look
    <3> HIDE DEF c
    <3>2. Resolves(parent, c) /\ (Star \in Look(parent, c) \/ child[c] \subseteq Look(parent, c))
      BY <2>1, <3>1
    <3>3. Resolves(parent, k) /\ Look(parent, k) = Look(parent, c)
      <4>1. CASE c = k
        BY <3>2, <4>1
      <4>2. CASE c = Star
        <5>1. Star \in DOMAIN parent
          BY <3>2, <4>2 DEF Resolves, KeyOf
        <5>2. DOMAIN parent = {Star}
          BY <5>1 DEF StarIsAlone
        <5> QED
          BY <4>2, <5>1, <5>2, StarLooksUp DEF Resolves, KeyOf, Look
      <4> QED
        BY <3>1, <4>1, <4>2
    <3>4. child[c] # {}
      BY <3>1 DEF IsQuery, IsMap, Kept
    <3> QED
      BY <3>1, <3>2, <3>3, <3>4
  <2> QED
    BY <2>2 DEF IsQueryAllowedByOne
<1> QED
  BY <1>1, <1>2

\* A profile that fits within a ceiling lets nobody past it, its patterns for a
\* parameter being alternatives if they are several.
THEOREM CeilingsHold == Spec => []WithinExceedsNothing
<1>1. TypeOK => WithinExceedsNothing
  <2> SUFFICES ASSUME TypeOK, Tidy(resolved),
                      \A p \in DOMAIN resolved : StarIsAlone(resolved[p].query),
                      NEW d \in Documents, IsWithin(d, resolved),
                      NEW call \in Calls, Allows(Layer(d), call)
               PROVE  /\ AllowsByOne(resolved, call)
                      /\ (\A p \in DOMAIN resolved : Simple(resolved[p].query))
                           => Allows(resolved, call)
    BY DEF WithinExceedsNothing
  <2> DEFINE layer == Layer(d)
             p == GuardKey(layer, call.path)
  <2>1. IsApi(layer, Kept) /\ IsApi(resolved, Kept) /\ WithinApi(layer, resolved)
    BY LayerTypes DEF TypeOK, IsWithin
  <2>2. /\ p \in DOMAIN layer /\ p \in {Star, call.path}
        /\ IsMethodAllowed(call.method, layer[p].methods)
        /\ IsQueryAllowed(call.query, layer[p].query)
    BY DEF Allows, GuardKey
  <2> HIDE DEF layer, p
  <2>3. /\ Resolves(resolved, p)
        /\ MethodsWithin(layer[p].methods, Look(resolved, p).methods)
        /\ QueryWithin(layer[p].query, Look(resolved, p).query)
    BY <2>1, <2>2 DEF WithinApi
  <2>4. IsQuery(layer[p].query) /\ IsQuery(Look(resolved, p).query)
    BY <2>1, <2>2, <2>3, LookRule, OwnKeyLooksUp
  <2>5. StarIsAlone(Look(resolved, p).query) /\ OpenIsAlone(Look(resolved, p).query)
    BY <2>3 DEF Tidy, Resolves, Look
  <2>6. IsMethodAllowed(call.method, Look(resolved, p).methods)
    BY <2>2, <2>3, MethodOfWider
  <2>7. IsQueryAllowedByOne(call.query, Look(resolved, p).query)
    BY <2>2, <2>3, <2>4, <2>5, CallTypes, QueryOfWider
  <2> DEFINE g == GuardKey(resolved, call.path)
  <2>8. TakesMethod(resolved, call)
    BY <2>2, <2>3, <2>6, AnyMethodWillDo DEF Tidy, StarOpensMost
  <2>9. g \in DOMAIN resolved /\ IsMethodAllowed(call.method, resolved[g].methods)
    BY <2>8 DEF TakesMethod
  <2>10. IsQuery(resolved[g].query)
    BY <2>1, <2>9, LookRule, OwnKeyLooksUp
  <2>11. \/ resolved[g].query = Look(resolved, p).query
         \/ IsQueryAllowed(call.query, resolved[g].query)
    BY <2>2, <2>3, AnyQueryWillDo
  <2>12. IsQueryAllowedByOne(call.query, resolved[g].query)
    BY <2>7, <2>10, <2>11, AllowedByOne
  <2>13. AllowsByOne(resolved, call)
    BY <2>8, <2>12 DEF AllowsByOne
  <2>14. Simple(resolved[g].query) => IsQueryAllowed(call.query, resolved[g].query)
    BY <2>10, <2>12, AllowedByOne
  <2> QED
    BY <2>9, <2>13, <2>14 DEF Allows
<1> QED
  BY <1>1, TypeCorrect, PTL

-----------------------------------------------------------------------------
(* Grants and calls *)

\* Nothing but routes of the catalog, each open to any parameters.
IsOpening(api) ==
  /\ IsApi(api, Kept)
  /\ DOMAIN api \subseteq Paths
  /\ \A p \in DOMAIN api :
       api[p].methods \subseteq Methods /\ api[p].methods # {} /\ api[p].query = Anything

LEMMA GrantsOpenRoutes ==
  ASSUME NEW grants
  PROVE  IsOpening(ExpandGrants(grants))
<1> DEFINE keys == UNION {MatchCatalog(g) : g \in grants}
           On(p) == {k \in keys : p \in DOMAIN Catalog[k]}
           D == UNION {DOMAIN Catalog[k] : k \in keys}
           M(p) == UNION {Catalog[k][p] : k \in On(p)}
<1>1. ExpandGrants(grants) = [p \in D |-> Rule(M(p), Anything)]
  BY DEF ExpandGrants, Rule
<1>2. keys \subseteq DOMAIN Catalog
  BY DEF MatchCatalog
<1> HIDE DEF keys
<1>3. D \subseteq Paths
  BY <1>2, CatalogAssumption DEF IsMap
<1>4. ASSUME NEW p \in D PROVE M(p) \subseteq Methods /\ M(p) # {}
  <2>1. ASSUME NEW k \in On(p) PROVE Catalog[k][p] \subseteq Methods /\ Catalog[k][p] # {}
    BY <1>2, CatalogAssumption DEF IsMap
  <2>2. PICK k \in keys : p \in DOMAIN Catalog[k]
    OBVIOUS
  <2>3. k \in On(p)
    BY <2>2
  <2> QED
    BY <2>1, <2>3
<1> HIDE DEF D, M
<1>5. ASSUME NEW p \in D PROVE Rule(M(p), Anything).methods = M(p)
  BY DEF Rule
<1> QED
  BY <1>1, <1>3, <1>4, <1>5, ExpandedTypes DEF IsOpening

\* A document of grants alone is what its grants open.
LEMMA GrantsAlone ==
  ASSUME NEW d, DOMAIN d.api = {}
  PROVE  Layer(d) = ExpandGrants(d.grants)
<1> DEFINE expanded == ExpandGrants(d.grants)
<1>1. Layer(d) = [p \in DOMAIN expanded |-> expanded[p]]
  BY DEF Layer
<1>2. expanded = [p \in DOMAIN expanded |-> expanded[p]]
  BY ExpandedTypes DEF IsApi
<1> QED
  BY <1>1, <1>2

LEMMA CallsOf ==
  ASSUME NEW p \in Paths, NEW m \in Methods, NEW call \in Calls
  PROVE  [path |-> p, method |-> m, query |-> call.query] \in Calls
BY DEF Calls

LEMMA CallWithoutParameters ==
  ASSUME NEW p \in Paths, NEW m \in Methods
  PROVE  \E call \in Calls : call.path = p /\ call.method = m
<1> DEFINE none == [k \in {} |-> k]
<1>1. none \in [{} -> Values] /\ {} \in SUBSET Keys
  OBVIOUS
<1>2. none \in UNION {[D -> Values] : D \in SUBSET Keys}
  BY <1>1
<1> HIDE DEF none
<1>3. [path |-> p, method |-> m, query |-> none] \in Calls
  BY <1>2 DEF Calls
<1> QED
  BY <1>3

\* What the guard lets through such a document.
LEMMA OpeningAllows ==
  ASSUME NEW api, IsOpening(api), NEW call \in Calls
  PROVE  Allows(api, call) <=>
           call.path \in DOMAIN api /\ call.method \in api[call.path].methods
<1>1. Star \notin DOMAIN api /\ GuardKey(api, call.path) = call.path
  BY StarAssumption DEF IsOpening, GuardKey
<1>2. ASSUME call.path \in DOMAIN api
      PROVE  /\ IsQueryAllowed(call.query, api[call.path].query)
             /\ IsMethodAllowed(call.method, api[call.path].methods)
                  <=> call.method \in api[call.path].methods
  <2>1. IsQueryAllowed(call.query, api[call.path].query)
    BY <1>2, AnythingIsEmpty DEF IsOpening, IsQueryAllowed
  <2>2. Star \notin api[call.path].methods
    BY <1>2, StarAssumption DEF IsOpening
  <2> QED
    BY <2>1, <2>2 DEF IsMethodAllowed
<1> QED
  BY <1>1, <1>2 DEF Allows

\* An opening that opens no more than a document fits within it.
LEMMA NoMoreFits ==
  ASSUME NEW api, IsOpening(api), NEW ceiling, IsApi(ceiling, Kept), StarIsAlone(ceiling),
         \A p \in DOMAIN ceiling : Decides(ceiling[p].query),
         OpensNoMore(api, ceiling)
  PROVE  WithinApi(api, ceiling)
<1>1. SUFFICES ASSUME NEW p \in DOMAIN api
               PROVE  /\ Resolves(ceiling, p)
                      /\ MethodsWithin(api[p].methods, Look(ceiling, p).methods)
                      /\ QueryWithin(api[p].query, Look(ceiling, p).query)
  BY DEF WithinApi
<1>2. /\ p \in Paths /\ p # Star /\ api[p].methods \subseteq Methods
      /\ api[p].query = Anything
  BY StarAssumption DEF IsOpening
<1>3. PICK m \in Methods : m \in api[p].methods
  BY DEF IsOpening
\* Every call of a method the opening has is one the ceiling has a rule for.
<1>4. ASSUME NEW call \in Calls, call.path = p, call.method \in api[p].methods
      PROVE  /\ Resolves(ceiling, p)
             /\ IsMethodAllowed(call.method, Look(ceiling, p).methods)
             /\ IsQueryAllowed(call.query, Look(ceiling, p).query)
  <2>1. Allows(ceiling, call)
    BY <1>4, OpeningAllows DEF OpensNoMore
  <2>2. GuardKey(ceiling, p) \in DOMAIN ceiling /\ GuardKey(ceiling, p) = KeyOf(ceiling, p)
    BY <1>2, <1>4, <2>1 DEF Allows, GuardKey, KeyOf, StarIsAlone
  <2> QED
    BY <1>4, <2>1, <2>2 DEF Allows, Resolves, Look
<1>5. Resolves(ceiling, p)
  <2>1. PICK call \in Calls : call.path = p /\ call.method = m
    BY <1>2, CallWithoutParameters
  <2> QED
    BY <1>3, <1>4, <2>1
<1>6. MethodsWithin(api[p].methods, Look(ceiling, p).methods)
  <2>1. ASSUME NEW n \in api[p].methods PROVE IsMethodAllowed(n, Look(ceiling, p).methods)
    <3>1. PICK call \in Calls : call.path = p /\ call.method = n
      BY <1>2, CallWithoutParameters
    <3> QED
      BY <1>4, <2>1, <3>1
  <2> QED
    BY <2>1 DEF MethodsWithin, IsMethodAllowed
<1>7. IsQueryOpen(Look(ceiling, p).query)
  <2>1. KeyOf(ceiling, p) \in DOMAIN ceiling /\ Look(ceiling, p) = ceiling[KeyOf(ceiling, p)]
    BY <1>5 DEF Resolves, Look
  <2>2. Decides(Look(ceiling, p).query)
    BY <2>1
  <2>3. SUFFICES ASSUME NEW call \in Calls, ~IsQueryAllowed(call.query, Look(ceiling, p).query)
                 PROVE  FALSE
    BY <2>2 DEF Decides
  <2>4. PICK other : other = [path |-> p, method |-> m, query |-> call.query]
    OBVIOUS
  <2>5. /\ other \in Calls /\ other.path = p /\ other.method = m
        /\ other.query = call.query
    BY <1>2, <2>4, CallsOf
  <2> QED
    BY <1>3, <1>4, <2>3, <2>5
<1> QED
  BY <1>5, <1>6, <1>7 DEF QueryWithin

\* Whoever opens no more than the ceiling is told so: the check of a profile of
\* grants, and the summary of a document as grants, refuse nothing in vain.
THEOREM SmallerProfilesFit == Spec => []NothingIsWithheld
<1>1. TypeOK => NothingIsWithheld
  <2> SUFFICES ASSUME TypeOK, StarIsAlone(resolved),
                      \A p \in DOMAIN resolved : Decides(resolved[p].query)
               PROVE  /\ \A g \in DOMAIN Catalog :
                           OpensNoMore(ExpandGrants({g}), resolved) => g \in GrantsWithin(resolved)
                      /\ \A d \in Documents :
                           (DOMAIN d.api = {} /\ OpensNoMore(Layer(d), resolved))
                             => IsWithin(d, resolved)
    BY DEF NothingIsWithheld
  <2>1. IsApi(resolved, Kept)
    BY DEF TypeOK
  <2>2. ASSUME NEW grants, OpensNoMore(ExpandGrants(grants), resolved)
        PROVE  WithinApi(ExpandGrants(grants), resolved)
    BY <2>1, <2>2, GrantsOpenRoutes, NoMoreFits
  <2> QED
    BY <2>2, GrantsAlone DEF GrantsWithin, IsWithin
<1> QED
  BY <1>1, TypeCorrect, PTL

-----------------------------------------------------------------------------
(* Documents of grants are sets of calls *)

LEMMA OpeningsIntersect ==
  ASSUME NEW parent, NEW child, IsOpening(parent), IsOpening(child)
  PROVE  /\ IsOpening(Intersect(parent, child))
         /\ \A call \in Calls :
              Allows(Intersect(parent, child), call) <=> Allows(parent, call) /\ Allows(child, call)
<1> DEFINE api == Intersect(parent, child)
<1>1. IsApi(parent, Kept) /\ IsApi(child, Kept) /\ Star \notin DOMAIN parent /\ Star \notin DOMAIN child
  BY StarAssumption DEF IsOpening
<1>2. ASSUME NEW p, p # Star
      PROVE  /\ Resolves(parent, p) <=> p \in DOMAIN parent
             /\ Resolves(child, p) <=> p \in DOMAIN child
             /\ p \in DOMAIN parent => Look(parent, p) = parent[p]
             /\ p \in DOMAIN child => Look(child, p) = child[p]
  BY <1>1 DEF Resolves, KeyOf, Look
<1>3. ASSUME NEW p \in DOMAIN parent \intersect DOMAIN child
      PROVE  /\ IntersectMethods(parent[p].methods, child[p].methods)
                  = parent[p].methods \intersect child[p].methods
             /\ IntersectQuery(parent[p].query, child[p].query) = Anything
  <2>1. Star \notin parent[p].methods /\ Star \notin child[p].methods
    BY StarAssumption DEF IsOpening
  <2>2. parent[p].query = Anything /\ child[p].query = Anything
    BY DEF IsOpening
  <2>3. IsQueryOpen(Anything)
    BY AnythingIsEmpty DEF IsQueryOpen
  <2> QED
    BY <2>1, <2>2, <2>3, IntersectQueryCases DEF IntersectMethods
<1>4. ASSUME NEW p
      PROVE  p \in DOMAIN api <=>
               /\ p \in DOMAIN parent /\ p \in DOMAIN child
               /\ parent[p].methods \intersect child[p].methods # {}
  <2>1. p \in DOMAIN api => p # Star /\ Resolves(parent, p) /\ Resolves(child, p)
    BY <1>1, IntersectPaths DEF Candidates
  <2>2. p \in DOMAIN parent /\ p \in DOMAIN child => p # Star /\ p \in Candidates(parent, child)
    BY <1>1 DEF Candidates
  <2>3. ASSUME p \in DOMAIN parent, p \in DOMAIN child
        PROVE  IntersectMethods(Look(parent, p).methods, Look(child, p).methods)
                 = parent[p].methods \intersect child[p].methods
    BY <1>2, <1>3, <2>2, <2>3
  <2>4. p \in DOMAIN api <=>
          /\ p \in Candidates(parent, child) /\ Resolves(parent, p) /\ Resolves(child, p)
          /\ IntersectMethods(Look(parent, p).methods, Look(child, p).methods) # {}
    BY <1>1, IntersectPaths
  <2>5. CASE p \in DOMAIN parent /\ p \in DOMAIN child
    BY <1>2, <2>2, <2>3, <2>4, <2>5
  <2>6. CASE ~(p \in DOMAIN parent /\ p \in DOMAIN child)
    BY <1>2, <2>1, <2>6
  <2> QED
    BY <2>5, <2>6
<1>5. ASSUME NEW p \in DOMAIN api
      PROVE  /\ api[p].methods = parent[p].methods \intersect child[p].methods
             /\ api[p].query = Anything
  <2>1. p # Star /\ p \in DOMAIN parent /\ p \in DOMAIN child
    BY <1>1, <1>4
  <2> QED
    BY <1>1, <1>2, <1>3, <2>1, IntersectPaths
<1>6. IsApi(api, Kept)
  BY <1>1, IntersectPaths
<1> HIDE DEF api
<1>7. IsOpening(api)
  BY <1>4, <1>5, <1>6 DEF IsOpening
<1>8. ASSUME NEW call \in Calls
      PROVE  Allows(api, call) <=> Allows(parent, call) /\ Allows(child, call)
  <2>1. /\ Allows(api, call) <=> call.path \in DOMAIN api /\ call.method \in api[call.path].methods
        /\ Allows(parent, call) <=>
             call.path \in DOMAIN parent /\ call.method \in parent[call.path].methods
        /\ Allows(child, call) <=>
             call.path \in DOMAIN child /\ call.method \in child[call.path].methods
    BY <1>7, OpeningAllows
  <2> QED
    BY <1>4, <1>5, <2>1
<1> QED
  BY <1>7, <1>8 DEF api

\* Of layers that hold grants only, the result opens the calls all of them open, and
\* a profile of grants is within it when the calls it opens are among those: such
\* documents may be thought of, and are in the module of the profiles, as sets, Resolve
\* as their intersection and IsWithin as inclusion.
GrantsAreSets ==
  (layers # << >> /\ \A i \in 1..Len(layers) : DOMAIN layers[i].api = {}) =>
    /\ \A call \in Calls :
         Allows(resolved, call) <=> \A api \in Stacked : Allows(api, call)
    /\ \A d \in Documents :
         DOMAIN d.api = {} =>
           (IsWithin(d, resolved) <=>
              \A call \in Calls :
                Allows(Layer(d), call) => \A api \in Stacked : Allows(api, call))

\* The induction behind it.
Opened ==
  (layers # << >> /\ \A api \in Stacked : IsOpening(api)) =>
    /\ IsOpening(resolved)
    /\ \A call \in Calls :
         Allows(resolved, call) <=> \A api \in Stacked : Allows(api, call)

LEMMA AlwaysOpened == Spec => []Opened
<1>1. Init => Opened
  BY DEF Init, Opened
<1>2. TypeOK /\ Opened /\ [Next]_vars => Opened'
  <2> SUFFICES ASSUME TypeOK, Opened, [Next]_vars PROVE Opened'
    OBVIOUS
  <2>1. ASSUME NEW d \in Documents, ResolveNext(d) PROVE Opened'
    <3>1. SUFFICES ASSUME \A api \in Stacked' : IsOpening(api)
                   PROVE  /\ IsOpening(resolved')
                          /\ \A call \in Calls :
                               Allows(resolved', call) <=> \A api \in Stacked' : Allows(api, call)
      BY DEF Opened
    <3>2. IsOpening(Layer(d)) /\ \A api \in Stacked : IsOpening(api)
      BY <2>1, <3>1, StackGrows
    <3>3. CASE layers = << >>
      <4>1. resolved' = Layer(d) /\ Stacked' = {Layer(d)}
        BY <2>1, <3>3, StackGrows
      <4> QED
        BY <3>2, <4>1
    <3>4. CASE layers # << >>
      <4>1. resolved' = Intersect(resolved, Layer(d)) /\ Stacked' = Stacked \union {Layer(d)}
        BY <2>1, <3>4, StackGrows
      <4>2. /\ IsOpening(resolved)
            /\ \A call \in Calls :
                 Allows(resolved, call) <=> \A api \in Stacked : Allows(api, call)
        BY <3>2, <3>4 DEF Opened
      <4>3. /\ IsOpening(resolved')
            /\ \A call \in Calls :
                 Allows(resolved', call) <=> Allows(resolved, call) /\ Allows(Layer(d), call)
        BY <3>2, <4>1, <4>2, OpeningsIntersect
      <4> QED
        BY <4>1, <4>2, <4>3
    <3> QED
      BY <3>3, <3>4
  <2>2. CASE UNCHANGED vars
    <3>1. layers' = layers /\ resolved' = resolved /\ Stacked' = Stacked
      BY <2>2 DEF vars, Stacked
    <3> QED
      BY <3>1 DEF Opened
  <2> QED
    BY <2>1, <2>2 DEF Next
<1> QED
  BY <1>1, <1>2, TypeCorrect, PTL DEF Spec

\* An opening is within another exactly when it opens no more.
LEMMA OpeningsCompare ==
  ASSUME NEW api, NEW ceiling, IsOpening(api), IsOpening(ceiling)
  PROVE  WithinApi(api, ceiling) <=> OpensNoMore(api, ceiling)
<1>1. Star \notin DOMAIN ceiling /\ IsApi(ceiling, Kept)
  BY StarAssumption DEF IsOpening
<1>2. ASSUME WithinApi(api, ceiling), NEW call \in Calls, Allows(api, call)
      PROVE  Allows(ceiling, call)
  <2> DEFINE p == call.path
  <2>1. p \in DOMAIN api /\ call.method \in api[p].methods
    BY <1>2, OpeningAllows
  <2>2. Resolves(ceiling, p) /\ MethodsWithin(api[p].methods, Look(ceiling, p).methods)
    BY <1>2, <2>1 DEF WithinApi
  <2>3. p \in DOMAIN ceiling /\ Look(ceiling, p) = ceiling[p]
    BY <1>1, <2>2 DEF Resolves, KeyOf, Look
  <2>4. Star \notin ceiling[p].methods
    BY <2>3, StarAssumption DEF IsOpening
  <2>5. call.method \in ceiling[p].methods
    BY <2>1, <2>2, <2>3, <2>4 DEF MethodsWithin
  <2> QED
    BY <2>3, <2>5, OpeningAllows
<1>3. StarIsAlone(ceiling)
  BY <1>1 DEF StarIsAlone
<1>4. \A p \in DOMAIN ceiling : Decides(ceiling[p].query)
  BY AnythingIsEmpty DEF IsOpening, Decides, IsQueryOpen
<1>5. OpensNoMore(api, ceiling) => WithinApi(api, ceiling)
  BY <1>1, <1>3, <1>4, NoMoreFits
<1> QED
  BY <1>2, <1>5 DEF OpensNoMore

\* Grants compose like sets, whatever the catalog.
THEOREM GrantDocumentsAreSets == Spec => []GrantsAreSets
<1>1. TypeOK /\ Opened => GrantsAreSets
  <2> SUFFICES ASSUME TypeOK, Opened, layers # << >>,
                      \A i \in 1..Len(layers) : DOMAIN layers[i].api = {}
               PROVE  /\ \A call \in Calls :
                           Allows(resolved, call) <=> \A api \in Stacked : Allows(api, call)
                      /\ \A d \in Documents :
                           DOMAIN d.api = {} =>
                             (IsWithin(d, resolved) <=>
                                \A call \in Calls :
                                  Allows(Layer(d), call) => \A api \in Stacked : Allows(api, call))
    BY DEF GrantsAreSets
  <2>1. \A api \in Stacked : IsOpening(api)
    <3>1. ASSUME NEW i \in 1..Len(layers) PROVE IsOpening(Layer(layers[i]))
      <4>1. Layer(layers[i]) = ExpandGrants(layers[i].grants)
        BY GrantsAlone
      <4> QED
        BY <4>1, GrantsOpenRoutes
    <3> QED
      BY <3>1 DEF Stacked
  <2>2. /\ IsOpening(resolved)
        /\ \A call \in Calls : Allows(resolved, call) <=> \A api \in Stacked : Allows(api, call)
    BY <2>1 DEF Opened
  <2>3. ASSUME NEW d \in Documents, DOMAIN d.api = {}
        PROVE  IsWithin(d, resolved) <=>
                 \A call \in Calls :
                   Allows(Layer(d), call) => \A api \in Stacked : Allows(api, call)
    <3>1. Layer(d) = ExpandGrants(d.grants)
      BY <2>3, GrantsAlone
    <3>2. IsOpening(Layer(d))
      BY <3>1, GrantsOpenRoutes
    <3>3. IsWithin(d, resolved) <=> OpensNoMore(Layer(d), resolved)
      BY <2>2, <3>2, OpeningsCompare DEF IsWithin
    <3> QED
      BY <2>2, <3>3 DEF OpensNoMore
  <2> QED
    BY <2>2, <2>3
<1> QED
  BY <1>1, TypeCorrect, AlwaysOpened, PTL
=============================================================================
