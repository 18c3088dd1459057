-------------------------------- MODULE MCAvatar --------------------------------
(* Two keys of one owner, none of the other: a picture that fits and one that is *)
(* too large.                                                                   *)
EXTENDS Avatar, TLC

CONSTANTS o1, o2, k1, k2, picture, large

OwnerOfDef == (k1 :> o1) @@ (k2 :> o1)
FitsDef == {k1, k2} \X (Files \ {large})
Alike == Permutations(Handlers) \union Permutations({k1, k2})
=============================================================================
