----------------------------- MODULE SessionBook -----------------------------
(***************************************************************************)
(* What the sessions of the service promise, without handlers, clocks or   *)
(* detached goroutines: a book of sessions that only grows, in which an    *)
(* entry moves from "active" to "superseded" to "closed" and never back.   *)
(*                                                                         *)
(*   superseded  another login of the same user on the same app took its   *)
(*               access token; its refresh token still works               *)
(*   closed      logged out: both tokens are dead for good                 *)
(*                                                                         *)
(* Sessions implements this book; see Sessions!Book.                       *)
(***************************************************************************)
EXTENDS Naturals, Sequences

CONSTANT Owners     \* the (user, app) pairs a session may belong to

VARIABLES
  owner,            \* owner[i]: whom the i-th session of the book belongs to
  phase             \* phase[i]: "active", "superseded" or "closed"

bookVars == <<owner, phase>>

Phases == {"active", "superseded", "closed"}

BookInit ==
  /\ owner = << >>
  /\ phase = << >>

\* A login, a registration or a refresh opens a session.
Open(o) ==
  /\ owner' = Append(owner, o)
  /\ phase' = Append(phase, "active")

\* Session k takes the access token of every other session of its owner, and of
\* nobody else.
Supersede(k) ==
  /\ phase' = [i \in 1..Len(phase) |->
                 IF i # k /\ owner[i] = owner[k] /\ phase[i] = "active"
                 THEN "superseded" ELSE phase[i]]
  /\ UNCHANGED owner

\* The sessions in S, all of one owner, are logged out.
Close(S) ==
  /\ \A i, j \in S : owner[i] = owner[j]
  /\ phase' = [i \in 1..Len(phase) |-> IF i \in S THEN "closed" ELSE phase[i]]
  /\ UNCHANGED owner

BookNext ==
  \/ \E o \in Owners : Open(o)
  \/ \E k \in 1..Len(phase) : Supersede(k)
  \/ \E S \in SUBSET (1..Len(phase)) : Close(S)

BookSpec == BookInit /\ [][BookNext]_bookVars
=============================================================================
