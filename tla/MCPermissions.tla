----------------------------- MODULE MCPermissions -----------------------------
(* The algebra over two routes, two methods, two parameters and a small catalog. *)
EXTENDS Permissions

CONSTANTS skip, limit, list, one, get, put, v1, v2, v3

Grant(f, s, a) == [feature |-> f, sub |-> s, action |-> a]

MCCatalog ==
  [g \in {Grant("users", "", "READ"), Grant("users", "", "UPDATE"), Grant("users", "me", "READ")} |->
    IF g = Grant("users", "", "READ") THEN [p \in {list, one} |-> {get}]
    ELSE IF g = Grant("users", "", "UPDATE") THEN [p \in {one} |-> {put}]
    ELSE [p \in {list} |-> {get, put}]]

On(k, x) == [c \in {k} |-> x]
Both(f, g) == [c \in DOMAIN f \union DOMAIN g |-> IF c \in DOMAIN f THEN f[c] ELSE g[c]]

MCPatterns == {{v1}, {v2}, {v3}}

\* Open, closed on one parameter in three ways (two for a ceiling, one to exceed it),
\* on two, on all, on all with an exception, and the open look-alike of the latter.
MCQueries == {<< >>, On(Star, Star), On(skip, {v1}), On(skip, {v2}), On(skip, {v3}), On(limit, {v1}),
  Both(On(skip, {v1}), On(limit, {v2})),
  On(Star, {v1}), Both(On(Star, {v1}), On(skip, {v2})), Both(On(Star, Star), On(skip, {v2}))}

Rule(m, q) == [methods |-> m, query |-> q]
MCRules == {Rule({get}, q) : q \in MCQueries}
             \union {Rule(m, << >>) : m \in {{put}, {get, put}, {Star}}}

\* api alone, grants alone, and the two together.
MCDocuments ==
  LET doc(api, grants) == [api |-> api, grants |-> grants]
      some == {Rule({get}, On(skip, {v1})), Rule({get}, << >>), Rule({put}, << >>), Rule({Star}, << >>)}
  IN  {doc(On(list, r), {}) : r \in MCRules}
      \union {doc(On(Star, r), {}) : r \in some}
      \union {doc(Both(On(Star, r), On(list, s)), {}) : r \in some, s \in some}
      \union {doc(<< >>, g) : g \in
                {{}, {Grant("users", "", "READ")}, {Grant("users", "me", "READ")},
                 {Grant("users", "", "READ"), Grant("users", "", "UPDATE")},
                 {Grant("users", "", "UPDATE"), Grant("nobody", "", "READ")},
                 {Grant(Star, "", "READ")}, {Grant("users", "", Star)}}}
      \union {doc(On(Star, Rule({Star}, << >>)), {Grant(Star, "", Star)}),
              doc(On(list, Rule({get}, On(skip, {v1}))), {Grant("users", "", "READ")})}

\* Every organization lists with its own parameter.
MCListingDocuments ==
  {[api |-> On(list, Rule({get}, On(k, {v1}))), grants |-> {}] : k \in {skip, limit}}
=============================================================================
