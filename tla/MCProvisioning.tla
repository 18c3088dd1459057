----------------------------- MODULE MCProvisioning -----------------------------
(* Signups into one pool, the two behind one address or behind two. *)
EXTENDS Provisioning, TLC

CONSTANTS r1, r2, e1, e2

\* Addresses are interchangeable: that of the first signup is called e1.
AskedDef == (r1 :> {e1}) @@ (r2 :> {e1, e2})
=============================================================================
