------------------------------ MODULE MCGovernance ------------------------------
(* A platform with two members, one of which owns an organization the other is in. *)
EXTENDS Governance, TLC

CONSTANTS acme, ann, bob, editor, viewer, k, l, v

MCOwners == {<<acme, ann, ManagerProfile>>}
MCAuthored ==
  {<<editor, Root, {"as::organizations::CREATE", "as::organizations::participants::UPDATE",
                    "as::profiles::CREATE", "as::profiles::UPDATE", "as::users_pool::UPDATE"}>>,
   <<viewer, Root, {"as::organizations::switch::UPDATE"}>>}
MCJoined == {<<ann, Root, editor>>, <<bob, Root, viewer>>, <<bob, acme, LoginProfile>>}

MCLoginGrants == {"as::organizations::switch::UPDATE", "as::users::me::UPDATE"}
MCManagerGrants == Grants

MCDocuments == {{"as::apps::UPDATE"}}
MCPatches == {[x \in {k, l} |-> IF x = k THEN v ELSE Null]}
MCStored == [x \in {l} |-> v]

Alike == Permutations(Requests)
=============================================================================
