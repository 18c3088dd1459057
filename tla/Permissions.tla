------------------------------ MODULE Permissions ------------------------------
(***************************************************************************)
(* The permission algebra: a document of grants and hand written rules is  *)
(* expanded into route patterns, the documents of the layers - pool,       *)
(* organization, participant - are intersected one by one, and the guard   *)
(* of a route asks the result.                                             *)
(*                                                                         *)
(* A regular expression is the set of the parameter values it matches.     *)
(* Lists of methods and of patterns are sets: the code only asks for       *)
(* membership, and compares methods whatever their case.                   *)
(***************************************************************************)
EXTENDS Naturals, Sequences

CONSTANTS
  Star,         \* "*": any path, any method, any parameter, any value
  Paths, Methods, Keys, Values,
  Patterns,     \* the regular expressions documents use
  Catalog,      \* the map from a grant to the routes and the methods it opens
  Documents,    \* what profiles.permissions may hold
  MaxLayers     \* bound: documents one call of Resolve is given

ASSUME StarAssumption ==
  Star \notin Paths /\ Star \notin Methods /\ Star \notin Keys /\ Star \notin Patterns
ASSUME PatternsAssumption == Patterns \subseteq SUBSET Values

\* Maps of the code: functions from some of S to T.
IsMap(f, S, T) == f \in [DOMAIN f -> T] /\ DOMAIN f \subseteq S

\* A rule whose keys have patterns of a given kind: one in a document, a set of
\* them after Resolve.
IsRule(rule, kind) ==
  /\ rule = [methods |-> rule.methods, query |-> rule.query]
  /\ rule.methods \subseteq Methods \union {Star}
  /\ IsMap(rule.query, Keys \union {Star}, kind)

IsApi(api, kind) ==
  /\ api = [p \in DOMAIN api |-> api[p]]
  /\ DOMAIN api \subseteq Paths \union {Star}
  /\ \A p \in DOMAIN api : IsRule(api[p], kind)

Kept == (SUBSET (Patterns \union {Star})) \ {{}}

ASSUME CatalogAssumption ==
  \A g \in DOMAIN Catalog : IsMap(Catalog[g], Paths, (SUBSET Methods) \ {{}})
ASSUME DocumentsAssumption ==
  \A d \in Documents : IsApi(d.api, Patterns \union {Star})

VARIABLES
  layers,       \* the documents stacked so far, outermost first
  resolved      \* resolved.Api: what is left of them

vars == <<layers, resolved>>

-----------------------------------------------------------------------------
(* From a document to a layer *)

Anything == << >>

\* Any wildcard makes the subfeature of a grant a don't care.
MatchCatalog(g) ==
  IF Star \notin {g.feature, g.action} THEN {g} \intersect DOMAIN Catalog
  ELSE {k \in DOMAIN Catalog : /\ g.feature \in {Star, k.feature}
                               /\ g.action \in {Star, k.action}}

\* Grants union the methods of a path and leave its query open.
ExpandGrants(grants) ==
  LET keys == UNION {MatchCatalog(g) : g \in grants}
      On(p) == {k \in keys : p \in DOMAIN Catalog[k]}
  IN  [p \in UNION {DOMAIN Catalog[k] : k \in keys} |->
         [methods |-> UNION {Catalog[k][p] : k \in On(p)}, query |-> Anything]]

SinglePatterns(query) == [k \in DOMAIN query |-> {query[k]}]

\* resolved(): api replaces the expansion of the grants for a path.
Layer(d) ==
  LET expanded == ExpandGrants(d.grants)
  IN  [p \in DOMAIN d.api \union DOMAIN expanded |->
         IF p \in DOMAIN d.api
         THEN [methods |-> d.api[p].methods, query |-> SinglePatterns(d.api[p].query)]
         ELSE expanded[p]]

-----------------------------------------------------------------------------
(* Intersection *)

\* The key a map answers for: its own, or the wildcard.
KeyOf(map, k) == IF k \in DOMAIN map THEN k ELSE Star
Resolves(map, k) == KeyOf(map, k) \in DOMAIN map
Look(map, k) == map[KeyOf(map, k)]

\* Keys both sides spell out, and not those a wildcard of one side covers.
SpeltOutByBoth(parent, child) == DOMAIN parent \intersect DOMAIN child

\* A concrete key of one side is a candidate, the wildcard only if of both.
Candidates(parent, child) ==
  ((DOMAIN parent \union DOMAIN child) \ {Star})
    \union (DOMAIN parent \intersect DOMAIN child)

IntersectMethods(parent, child) ==
  IF Star \in parent THEN child
  ELSE IF Star \in child THEN parent
  ELSE parent \intersect child

\* One side wins, as if two patterns could be one.
MergeKeepsChild(parent, child) == child

MergePatterns(parent, child) ==
  LET concrete == (parent \union child) \ {Star}
  IN  IF concrete = {} THEN {Star} ELSE concrete

\* An empty query, or one whose wildcard takes any value.
IsQueryOpen(query) ==
  DOMAIN query = {} \/ (Star \in DOMAIN query /\ query[Star] = {Star})

IntersectQuery(parent, child) ==
  IF IsQueryOpen(parent) THEN (IF IsQueryOpen(child) THEN Anything ELSE child)
  ELSE IF IsQueryOpen(child) THEN parent
  ELSE [k \in {c \in Candidates(parent, child) : Resolves(parent, c) /\ Resolves(child, c)} |->
          MergePatterns(Look(parent, k), Look(child, k))]

\* Intersect that keeps a path whose methods cancel out.
IntersectWithoutDropping(parent, child) ==
  [p \in {c \in Candidates(parent, child) : Resolves(parent, c) /\ Resolves(child, c)} |->
     [methods |-> IntersectMethods(Look(parent, p).methods, Look(child, p).methods),
      query |-> IntersectQuery(Look(parent, p).query, Look(child, p).query)]]

Intersect(parent, child) ==
  [p \in {c \in Candidates(parent, child) :
            /\ Resolves(parent, c) /\ Resolves(child, c)
            /\ IntersectMethods(Look(parent, c).methods, Look(child, c).methods) # {}} |->
     [methods |-> IntersectMethods(Look(parent, p).methods, Look(child, p).methods),
      query |-> IntersectQuery(Look(parent, p).query, Look(child, p).query)]]

-----------------------------------------------------------------------------
(* Containment *)

\* Sharing a method is not having all of them.
MethodsOverlap(child, parent) == Star \in parent \/ child \intersect parent # {}

MethodsWithin(child, parent) == Star \in parent \/ child \subseteq parent

\* The keys of the child alone, an empty query having none.
QueryKeysWithin(child, parent) ==
  \/ IsQueryOpen(parent)
  \/ \A k \in DOMAIN child :
       /\ Resolves(parent, k)
       /\ Star \in Look(parent, k) \/ child[k] \subseteq Look(parent, k)

QueryWithin(child, parent) ==
  \/ IsQueryOpen(parent)
  \/ /\ ~IsQueryOpen(child)
     /\ \A k \in DOMAIN child :
          /\ Resolves(parent, k)
          /\ Star \in Look(parent, k) \/ child[k] \subseteq Look(parent, k)

\* The wildcard of the parent answers for no path but its own.
WithinSpeltOut(child, parent) ==
  \A p \in DOMAIN child :
    /\ p \in DOMAIN parent
    /\ MethodsWithin(child[p].methods, parent[p].methods)
    /\ QueryWithin(child[p].query, parent[p].query)

WithinApi(child, parent) ==
  \A p \in DOMAIN child :
    /\ Resolves(parent, p)
    /\ MethodsWithin(child[p].methods, Look(parent, p).methods)
    /\ QueryWithin(child[p].query, Look(parent, p).query)

\* IsWithin against a resolved ceiling, IsSubsetOf against a layer.
IsWithin(d, ceiling) == WithinApi(Layer(d), ceiling)

\* resolved.Grants: the catalog keys whose whole expansion fits.
GrantsWithin(api) == {g \in DOMAIN Catalog : WithinApi(ExpandGrants({g}), api)}

-----------------------------------------------------------------------------
(* The guard *)

\* A call as PermissionsGuard sees it: the pattern of its route, its method, its
\* parameters.
Calls == [path : Paths, method : Methods, query : UNION {[D -> Values] : D \in SUBSET Keys}]

\* findMatchingPermission looks the wildcard up first, unlike Look.
GuardKey(api, path) == IF Star \in DOMAIN api THEN Star ELSE path

IsMethodAllowed(method, methods) == {Star, method} \intersect methods # {}

IsQueryAllowed(params, query) ==
  \/ DOMAIN query = {}
  \/ \A k \in DOMAIN params :
       /\ Resolves(query, k)
       /\ \A pattern \in Look(query, k) : pattern = Star \/ params[k] \in pattern

Allows(api, call) ==
  LET k == GuardKey(api, call.path)
  IN  /\ k \in DOMAIN api
      /\ IsMethodAllowed(call.method, api[k].methods)
      /\ IsQueryAllowed(call.query, api[k].query)

-----------------------------------------------------------------------------
(* Resolve: one step per document *)

Init == layers = << >> /\ resolved = << >>

ResolveNext(d) ==
  /\ Len(layers) < MaxLayers
  /\ layers' = Append(layers, d)
  /\ resolved' = IF layers = << >> THEN Layer(d) ELSE Intersect(resolved, Layer(d))

Next == \E d \in Documents : ResolveNext(d)

Spec == Init /\ [][Next]_vars

-----------------------------------------------------------------------------
(* What documents may hold that the algebra and the guard read alike *)

Stacked == {Layer(layers[i]) : i \in 1..Len(layers)}

\* "*" in front of other paths takes at least their methods, and is open.  The
\* seeded ADMIN is such a document: its grants name the catalog.
StarTakesMost(api) ==
  \A p \in DOMAIN api :
    Star \in DOMAIN api => MethodsWithin(api[p].methods, api[Star].methods)

StarOpensMost(api) ==
  StarTakesMost(api) /\ (Star \in DOMAIN api => IsQueryOpen(api[Star].query))

\* The wildcard of a map, alone.
StarIsAlone(map) == Star \in DOMAIN map => DOMAIN map = {Star}

\* {"*": "*"} is the only query that mentions "*": "*".
OpenIsAlone(query) == IsQueryOpen(query) => DOMAIN query \subseteq {Star}

\* Restricted queries say something of parameter k.
Mentions(query, k) == DOMAIN query = {} \/ Resolves(query, k)

\* A query that restricts each parameter once.
Simple(query) == \A k \in DOMAIN query : \A p, q \in query[k] : p = q

\* The guard, its queries aside: what no pattern can take away.
TakesMethod(api, call) ==
  LET k == GuardKey(api, call.path)
  IN  k \in DOMAIN api /\ IsMethodAllowed(call.method, api[k].methods)

\* The guard, the patterns of a parameter being alternatives and not demands.
IsQueryAllowedByOne(params, query) ==
  \/ DOMAIN query = {}
  \/ \A k \in DOMAIN params :
       /\ Resolves(query, k)
       /\ \E pattern \in Look(query, k) : pattern = Star \/ params[k] \in pattern

AllowsByOne(api, call) ==
  TakesMethod(api, call) /\ IsQueryAllowedByOne(call.query, api[GuardKey(api, call.path)].query)

Tidy(api) == StarOpensMost(api) /\ \A p \in DOMAIN api : OpenIsAlone(api[p].query)

\* A query that is open, or that some parameters do not meet: no pattern of it is
\* ".*" in disguise, and nobody lists all the parameters there are.
Decides(query) ==
  IsQueryOpen(query) \/ \E call \in Calls : ~IsQueryAllowed(call.query, query)

OpensNoMore(api, ceiling) ==
  \A call \in Calls : Allows(api, call) => Allows(ceiling, call)

Comparable(apis) ==
  /\ \A api \in apis : Tidy(api)
  /\ \E k \in Keys : \A api \in apis : \A p \in DOMAIN api : Mentions(api[p].query, k)

-----------------------------------------------------------------------------
(* Properties *)

\* Types, and that no path is left with nothing to call ("kept as an entry that
\* can only deny").
TypeOK ==
  /\ layers \in Seq(Documents)
  /\ IsApi(resolved, Kept)
  /\ Len(layers) > 1 => \A p \in DOMAIN resolved : resolved[p].methods # {}

\* "None of them can widen what came before" (Resolve), as far as it is true: of
\* comparable documents, a call the guard lets through is one every layer allows; of
\* any, whatever their queries do to each other, it is one of a route and a method
\* every layer takes.
NoLayerIsWidened ==
  /\ Comparable(Stacked) =>
       \A call \in Calls :
         Allows(resolved, call) => \A api \in Stacked : Allows(api, call)
  /\ (\A api \in Stacked : StarTakesMost(api)) =>
       \A call \in Calls :
         Allows(resolved, call) => \A api \in Stacked : TakesMethod(api, call)

\* "What survives" (Resolve): a call every layer allows is not lost, a layer of "*"
\* collapsing onto the others.
NothingIsLost ==
  (layers # << >> /\ \A api \in Stacked : StarIsAlone(api)) =>
    \A call \in Calls :
      (\A api \in Stacked : Allows(api, call)) => Allows(resolved, call)

\* "Grants never promises more than it delivers": whoever is shown a grant can call
\* every route of it, with any parameters.
GrantsAreDelivered ==
  Comparable(Stacked) =>
    \A g \in GrantsWithin(resolved) : \A call \in Calls :
      (call.path \in DOMAIN Catalog[g] /\ call.method \in Catalog[g][call.path])
        => Allows(resolved, call)

\* "Whether child exceeds parent anywhere" (IsSubsetOf, IsWithin): a profile that
\* fits a ceiling opens no call the ceiling refuses.  Where the ceiling has several
\* patterns for a parameter it may bring one of them, and never a call they all
\* refuse.
WithinExceedsNothing ==
  (Tidy(resolved) /\ \A p \in DOMAIN resolved : StarIsAlone(resolved[p].query)) =>
    \A d \in Documents : IsWithin(d, resolved) =>
      \A call \in Calls : Allows(Layer(d), call) =>
        /\ AllowsByOne(resolved, call)
        /\ (\A p \in DOMAIN resolved : Simple(resolved[p].query)) => Allows(resolved, call)

\* The converse, for grants: grantsWithin reports every grant of which the result
\* opens all the routes, and IsWithin accepts every profile of grants that opens no
\* more than the ceiling does.
NothingIsWithheld ==
  (StarIsAlone(resolved) /\ \A p \in DOMAIN resolved : Decides(resolved[p].query)) =>
    /\ \A g \in DOMAIN Catalog :
         OpensNoMore(ExpandGrants({g}), resolved) => g \in GrantsWithin(resolved)
    /\ \A d \in Documents :
         (DOMAIN d.api = {} /\ OpensNoMore(Layer(d), resolved)) => IsWithin(d, resolved)

-----------------------------------------------------------------------------
(* What comments of the code say, and the code does not do *)

\* "Each one limits everything that comes after it, and none of them can widen
\* what came before" (Resolve).
LayersOnlyNarrow ==
  \A call \in Calls :
    Allows(resolved, call) => \A api \in Stacked : Allows(api, call)
=============================================================================
