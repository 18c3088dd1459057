------------------------------ MODULE MCSessions ------------------------------
(* Sessions on small instances: users, addresses and handlers are             *)
(* interchangeable, and a refresh window outlives its access token by a tick. *)
EXTENDS Sessions, TLC

MCAccessTtl == [a \in Apps |-> 1]
MCRefreshTtl == [a \in Apps |-> 2]

Symmetry == Permutations(Users) \union Permutations(Ips) \union Permutations(Requests)
=============================================================================
