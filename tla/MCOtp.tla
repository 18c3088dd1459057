--------------------------------- MODULE MCOtp ---------------------------------
(* Codes on small instances: users, addresses and handlers are interchangeable. *)
EXTENDS Otp, TLC

Symmetry == Permutations(Users) \union Permutations(Addresses) \union Permutations(Requests)
=============================================================================
