---------------------------------- MODULE Otp ----------------------------------
(***************************************************************************)
(* One time codes and what they authorize: a code is generated for an      *)
(* action on an app, e-mailed to an address, possibly verified, and         *)
(* consumed by the endpoint that owns the action - register, login, reset  *)
(* of the password, verification or change of the address.                 *)
(*                                                                         *)
(* Consuming is a read (ValidateConsumable), the write it allows, and the  *)
(* invalidation of the code: three statements, the last one detached for   *)
(* login and registration.  Other handlers run in between.                 *)
(*                                                                         *)
(* Row i of `otps` is the i-th row inserted.  All the apps share one users *)
(* pool; sessions and passwords are in other modules.                      *)
(***************************************************************************)
EXTENDS Naturals, Sequences

CONSTANTS
  Users, NoUser,
  Addresses, NoAddress,   \* NoAddress: the account does not exist
  Apps,
  Requests,               \* handlers that may be in flight at once
  Lifetime,               \* OtpExpirationDuration
  RateLimit,              \* OtpRateLimitDuration
  MaxAttempts,            \* MaxOtpVerificationAttempts
  MaxOtps,                \* bound: rows ever inserted
  MaxTime                 \* bound: the last tick of the clock

ASSUME NobodyAssumption == NoUser \notin Users /\ NoAddress \notin Addresses
ASSUME LimitsAssumption ==
  /\ Lifetime \in Nat /\ RateLimit \in Nat /\ MaxAttempts \in Nat \ {0}
  /\ MaxOtps \in Nat /\ MaxTime \in Nat

VARIABLES
  otps,         \* the table of codes, in order of insertion
  email,        \* users.email
  verified,     \* users.verify_email
  requests,     \* the handlers in flight
  burning,      \* detached "invalidate otp", by code
  now,
  delivered,    \* codes that reached the address they were generated for
  presented,    \* history: codes an owning endpoint accepted
  vouched,      \* history: users an administrator wrote an address or a flag for
  lost          \* history: used codes whose invalidation did not happen

vars == <<otps, email, verified, requests, burning, now, delivered, presented,
          vouched, lost>>

-----------------------------------------------------------------------------
(* Rows, accounts and handlers *)

Actions == {"REGISTER", "LOGIN", "FORGOT_PASSWORD", "VERIFY_EMAIL", "CHANGE_EMAIL"}

\* The columns of a row, and two histories no code reads: the wrong codes that
\* were counted, and the writes the code authorized (2: more than one).
Row == [action : Actions, app : Apps, contact : Addresses, count : Nat,
        invalidated : BOOLEAN, createdAt : Nat, expiresAt : Nat,
        guesses : Nat, uses : 0..2]

\* What a handler keeps in memory: `otp` the row it works on (0: none yet),
\* `user` the account it found, `seen` the count it read.
Handler == [pc : {"limit", "create", "send", "count", "lock",
                  "validate", "find", "write", "invalidate", "detach"},
            action : Actions, app : Apps, contact : Addresses,
            otp : Nat, user : Users \union {NoUser}, seen : Nat]
Idle == [pc |-> "idle"]

Ids == 1..Len(otps)

Taken(c) == \E u \in Users : email[u] = c

\* Handlers that have a row in hand, and those that have used it and have yet to
\* invalidate it.
OnRow == {r \in Requests :
  requests[r].pc \in {"send", "count", "lock", "write", "invalidate", "detach"}
  \/ (requests[r].pc = "find" /\ requests[r].otp # 0)}
Owing == {requests[r].otp : r \in {q \in Requests : requests[q].pc \in {"invalidate", "detach"}}}

\* The types, and that what handlers and goroutines refer to is in the table.
TypeOK ==
  /\ otps \in Seq(Row)
  /\ email \in [Users -> Addresses \union {NoAddress}]
  /\ verified \in [Users -> BOOLEAN]
  /\ requests \in [Requests -> Handler \union {Idle}]
  /\ \A r \in OnRow : requests[r].otp \in Ids
  /\ now \in Nat
  /\ burning \subseteq Ids
  /\ delivered \subseteq Ids
  /\ presented \subseteq Ids
  /\ vouched \subseteq Users
  /\ lost \subseteq Ids

Init ==
  /\ otps = << >>
  /\ email = [u \in Users |-> NoAddress]
  /\ verified = [u \in Users |-> FALSE]
  /\ requests = [r \in Requests |-> Idle]
  /\ burning = {}
  /\ now = 0
  /\ delivered = {}
  /\ presented = {}
  /\ vouched = {}
  /\ lost = {}

\* Handler r goes on to its next statement, or answers.
Goes(r, h) == requests' = [requests EXCEPT ![r] = h]
accounts == <<email, verified, vouched>>
table == <<otps, delivered, presented, burning, lost>>

-----------------------------------------------------------------------------
(* GenerateConsumable *)

\* The address has to be free for the actions that take it, and taken for those
\* that are about its account.
GenerateReads(r, act, a, c) ==
  /\ requests[r] = Idle
  /\ Len(otps) < MaxOtps
  /\ Taken(c) <=> act \in {"LOGIN", "FORGOT_PASSWORD", "VERIFY_EMAIL"}
  /\ Goes(r, [pc |-> "limit", action |-> act, app |-> a, contact |-> c,
              otp |-> 0, user |-> NoUser, seen |-> 0])
  /\ UNCHANGED <<table, accounts, now>>

SameRequest(i, h) ==
  otps[i].contact = h.contact /\ otps[i].app = h.app /\ otps[i].action = h.action

\* FindLast, and the wait the newest code imposes.
CheckRateLimit(r) ==
  LET h == requests[r]
      earlier == {i \in Ids : SameRequest(i, h)}
      IsLast(i) == \A j \in earlier : j <= i
  IN  /\ h.pc = "limit"
      /\ \A i \in earlier : IsLast(i) => now - otps[i].createdAt >= RateLimit
      /\ Goes(r, [h EXCEPT !.pc = "create"])
      /\ UNCHANGED <<table, accounts, now>>

NewRow(h) ==
  [action |-> h.action, app |-> h.app, contact |-> h.contact, count |-> 0,
   invalidated |-> FALSE, createdAt |-> now, expiresAt |-> now + Lifetime,
   guesses |-> 0, uses |-> 0]

\* The insert, with the id of the row before it.
CreateWithStaleId(r) ==
  /\ requests[r].pc = "create"
  /\ Len(otps) < MaxOtps
  /\ otps' = Append(otps, NewRow(requests[r]))
  /\ Goes(r, [requests[r] EXCEPT !.pc = "send", !.otp = Len(otps)])
  /\ UNCHANGED <<delivered, presented, burning, lost, accounts, now>>

Create(r) ==
  /\ requests[r].pc = "create"
  /\ Len(otps) < MaxOtps
  /\ otps' = Append(otps, NewRow(requests[r]))
  /\ Goes(r, [requests[r] EXCEPT !.pc = "send", !.otp = Len(otps) + 1])
  /\ UNCHANGED <<delivered, presented, burning, lost, accounts, now>>

\* The e-mail arrives, whether or not the sender was told so.
Send(r) ==
  /\ requests[r].pc = "send"
  /\ delivered' = delivered \union {requests[r].otp}
  /\ Goes(r, Idle)
  /\ UNCHANGED <<otps, presented, burning, lost, accounts, now>>

-----------------------------------------------------------------------------
(* VerifyConsumable *)

Alive(i, a) == otps[i].app = a /\ ~otps[i].invalidated /\ otps[i].expiresAt >= now

\* Where VerifyConsumable goes after reading row i, if a good code burnt it.
VerifyBurnsGoodCodes(i, right) ==
  IF otps[i].count >= MaxAttempts \/ right THEN "lock" ELSE "count"

\* The ceiling comes first; a good code is left for the endpoint owning it.
AfterVerify(i, right) ==
  IF otps[i].count >= MaxAttempts THEN "lock"
  ELSE IF right THEN "idle" ELSE "count"

VerifyReads(r, i, right) ==
  LET next == AfterVerify(i, right)
  IN  /\ requests[r] = Idle
      /\ Alive(i, otps[i].app)
      /\ right => i \in delivered
      /\ next # "idle"
      /\ Goes(r, [pc |-> next, action |-> otps[i].action, app |-> otps[i].app,
                  contact |-> otps[i].contact, otp |-> i, user |-> NoUser,
                  seen |-> otps[i].count])
      /\ UNCHANGED <<table, accounts, now>>

\* Save(otp): every column as it was read, the count incremented.
CountWithSave(row, h) ==
  [row EXCEPT !.count = h.seen + 1, !.guesses = @ + 1, !.invalidated = FALSE]

\* The update dao: one column, from the count the handler read.
Counted(row, h) == [row EXCEPT !.count = h.seen + 1, !.guesses = @ + 1]

CountFailure(r) ==
  LET h == requests[r]
  IN  /\ h.pc = "count"
      /\ otps' = [otps EXCEPT ![h.otp] = Counted(@, h)]
      /\ Goes(r, Idle)
      /\ UNCHANGED <<delivered, presented, burning, lost, accounts, now>>

Burnt(row) == [row EXCEPT !.invalidated = TRUE]

\* The invalidation at the ceiling, and the one that ends a consumption.
Invalidate(r) ==
  /\ requests[r].pc \in {"lock", "invalidate"}
  /\ otps' = [otps EXCEPT ![requests[r].otp] = Burnt(@)]
  /\ Goes(r, Idle)
  /\ UNCHANGED <<delivered, presented, burning, lost, accounts, now>>

-----------------------------------------------------------------------------
(* ValidateConsumable and the endpoints that consume *)

\* ValidateConsumable without the comparison with the e-mail of the metadata.
AcceptsAnyAddress(i, h) ==
  i \in delivered /\ Alive(i, h.app) /\ otps[i].action = h.action

\* ValidateConsumable without the comparison of the actions.
AcceptsAnyAction(i, h) ==
  i \in delivered /\ Alive(i, h.app) /\ otps[i].contact = h.contact

\* ValidateConsumable, and the e-mail of the metadata against the one of the
\* body.  Only the address the code was sent to can present the right code.
Accepts(i, h) ==
  /\ i \in delivered
  /\ Alive(i, h.app)
  /\ otps[i].action = h.action
  /\ otps[i].contact = h.contact

Called(pc, act, a, c, u) ==
  [pc |-> pc, action |-> act, app |-> a, contact |-> c, otp |-> 0, user |-> u, seen |-> 0]

\* ResetPassword, VerifyEmail and ChangeEmail look at the code first.
ConsumeReads(r, act, a, c, u, i) ==
  LET h == Called("find", act, a, c, u)
  IN  /\ requests[r] = Idle
      /\ act \in {"FORGOT_PASSWORD", "VERIFY_EMAIL", "CHANGE_EMAIL"}
      /\ u # NoUser <=> act = "CHANGE_EMAIL"
      /\ u # NoUser => email[u] \notin {NoAddress, c}
      /\ Accepts(i, h)
      /\ presented' = presented \union {i}
      /\ Goes(r, [h EXCEPT !.otp = i])
      /\ UNCHANGED <<otps, delivered, burning, lost, accounts, now>>

\* FindUserInPool; a verified user is answered at once.  For a change of e-mail
\* it is the second check of availability.
ConsumeFinds(r, u) ==
  LET h == requests[r]
  IN  /\ h.pc = "find"
      /\ h.otp # 0
      /\ IF h.action = "CHANGE_EMAIL" THEN u = h.user /\ ~Taken(h.contact)
         ELSE email[u] = h.contact /\ (h.action = "VERIFY_EMAIL" => ~verified[u])
      /\ Goes(r, [h EXCEPT !.pc = "write", !.user = u])
      /\ UNCHANGED <<table, accounts, now>>

\* LoginWithOtp and RegisterWithOtp look at the account first.
EntryReads(r, act, a, c, u) ==
  /\ requests[r] = Idle
  /\ \/ act = "LOGIN" /\ u # NoUser /\ email[u] = c
     \/ act = "REGISTER" /\ u = NoUser /\ ~Taken(c)
  /\ Goes(r, Called("validate", act, a, c, u))
  /\ UNCHANGED <<table, accounts, now>>

\* A registration detaches the invalidation as soon as the code is accepted.
EntryValidates(r, i) ==
  LET h == requests[r]
  IN  /\ h.pc = "validate"
      /\ Accepts(i, h)
      /\ presented' = presented \union {i}
      /\ burning' = IF h.action = "REGISTER" THEN burning \union {i} ELSE burning
      /\ Goes(r, [h EXCEPT !.pc = "write", !.otp = i])
      /\ UNCHANGED <<otps, delivered, lost, accounts, now>>

Used(row) == [row EXCEPT !.uses = IF @ < 2 THEN @ + 1 ELSE 2]
Writes(r, act) == requests[r].pc = "write" /\ requests[r].action = act
UsesTheCode(r) == otps' = [otps EXCEPT ![requests[r].otp] = Used(@)]

\* SetPassword, then Invalidate.
ResetPassword(r) ==
  /\ Writes(r, "FORGOT_PASSWORD")
  /\ UsesTheCode(r)
  /\ Goes(r, [requests[r] EXCEPT !.pc = "invalidate"])
  /\ UNCHANGED <<delivered, presented, burning, lost, accounts, now>>

\* VerifyUserEmail by id, with nothing invalidated after it.
VerifyAndForget(r) ==
  /\ Writes(r, "VERIFY_EMAIL")
  /\ UsesTheCode(r)
  /\ verified' = [verified EXCEPT ![requests[r].user] = TRUE]
  /\ Goes(r, Idle)
  /\ UNCHANGED <<delivered, presented, burning, lost, email, vouched, now>>

\* VerifyUserEmail by id, whatever the address of the user has become.
VerifyEmail(r) ==
  /\ Writes(r, "VERIFY_EMAIL")
  /\ UsesTheCode(r)
  /\ verified' = [verified EXCEPT ![requests[r].user] = TRUE]
  /\ Goes(r, [requests[r] EXCEPT !.pc = "invalidate"])
  /\ UNCHANGED <<delivered, presented, burning, lost, email, vouched, now>>

\* The transaction of writeEmailChange; the unique index has the last word.
ChangeEmail(r) ==
  LET h == requests[r]
  IN  /\ Writes(r, "CHANGE_EMAIL")
      /\ ~Taken(h.contact)
      /\ UsesTheCode(r)
      /\ email' = [email EXCEPT ![h.user] = h.contact]
      /\ verified' = [verified EXCEPT ![h.user] = TRUE]
      /\ vouched' = vouched \ {h.user}
      /\ Goes(r, [h EXCEPT !.pc = "invalidate"])
      /\ UNCHANGED <<delivered, presented, burning, lost, now>>

\* The session of LoginWithOtp; its credentials come before the goroutine.
CreateSession(r) ==
  /\ Writes(r, "LOGIN")
  /\ UsesTheCode(r)
  /\ Goes(r, [requests[r] EXCEPT !.pc = "detach"])
  /\ UNCHANGED <<delivered, presented, burning, lost, accounts, now>>

DetachInvalidate(r) ==
  /\ requests[r].pc = "detach"
  /\ burning' = burning \union {requests[r].otp}
  /\ Goes(r, Idle)
  /\ UNCHANGED <<otps, delivered, presented, lost, accounts, now>>

\* The transaction of ProvisionUser, its unique index included.
ProvisionUser(r, u) ==
  LET h == requests[r]
  IN  /\ Writes(r, "REGISTER")
      /\ email[u] = NoAddress
      /\ ~Taken(h.contact)
      /\ UsesTheCode(r)
      /\ email' = [email EXCEPT ![u] = h.contact]
      /\ verified' = [verified EXCEPT ![u] = TRUE]
      /\ Goes(r, Idle)
      /\ UNCHANGED <<delivered, presented, burning, lost, vouched, now>>

-----------------------------------------------------------------------------
(* Accounts without codes, failures and time *)

\* RegisterWithPassword: an account nobody has proved the address of.
RegisterWithPassword(u, c) ==
  /\ email[u] = NoAddress
  /\ ~Taken(c)
  /\ email' = [email EXCEPT ![u] = c]
  /\ UNCHANGED <<verified, vouched, table, requests, now>>

\* UpdateForOrganization: an administrator writes the address, the flag or both,
\* and neither resets the other.
UpdateForOrganization(u, c, v) ==
  /\ email[u] # NoAddress
  /\ c # email[u] => ~Taken(c)
  /\ email' = [email EXCEPT ![u] = c]
  /\ verified' = [verified EXCEPT ![u] = v]
  /\ vouched' = vouched \union {u}
  /\ UNCHANGED <<table, requests, now>>

\* A read that refuses or a statement that fails: the handler answers an error,
\* or success when what failed is the invalidation, which is only logged.
Fail(r) ==
  /\ requests[r] # Idle
  /\ lost' = IF requests[r].pc \in {"invalidate", "detach"}
             THEN lost \union {requests[r].otp} ELSE lost
  /\ Goes(r, Idle)
  /\ UNCHANGED <<otps, delivered, presented, burning, accounts, now>>

Burn(i) ==
  /\ i \in burning
  /\ otps' = [otps EXCEPT ![i] = Burnt(@)]
  /\ burning' = burning \ {i}
  /\ UNCHANGED <<delivered, presented, lost, accounts, requests, now>>

BurnFails(i) ==
  /\ i \in burning
  /\ burning' = burning \ {i}
  /\ lost' = lost \union {i}
  /\ UNCHANGED <<otps, delivered, presented, accounts, requests, now>>

\* The process dies: handlers and detached goroutines with it, the rows stay.
Crash ==
  /\ requests' = [r \in Requests |-> Idle]
  /\ burning' = {}
  /\ lost' = lost \union burning \union Owing
  /\ UNCHANGED <<otps, delivered, presented, accounts, now>>

Tick ==
  /\ now < MaxTime
  /\ now' = now + 1
  /\ UNCHANGED <<table, accounts, requests>>

Generate(r) ==
  \/ \E act \in Actions, a \in Apps, c \in Addresses : GenerateReads(r, act, a, c)
  \/ CheckRateLimit(r) \/ Create(r) \/ Send(r)

Verify(r) ==
  \/ \E i \in Ids, right \in BOOLEAN : VerifyReads(r, i, right)
  \/ CountFailure(r)

Consume(r) ==
  \/ \E act \in Actions, a \in Apps, c \in Addresses, u \in Users \union {NoUser} :
       \/ \E i \in Ids : ConsumeReads(r, act, a, c, u, i)
       \/ EntryReads(r, act, a, c, u)
  \/ \E u \in Users : ConsumeFinds(r, u) \/ ProvisionUser(r, u)
  \/ \E i \in Ids : EntryValidates(r, i)
  \/ ResetPassword(r) \/ VerifyEmail(r) \/ ChangeEmail(r)
  \/ CreateSession(r) \/ DetachInvalidate(r) \/ Invalidate(r)

Account ==
  \E u \in Users, c \in Addresses :
    \/ RegisterWithPassword(u, c)
    \/ \E v \in BOOLEAN : UpdateForOrganization(u, c, v)

Next ==
  \/ \E r \in Requests : Generate(r) \/ Verify(r) \/ Consume(r) \/ Fail(r)
  \/ \E i \in burning : Burn(i) \/ BurnFails(i)
  \/ Account
  \/ Crash
  \/ Tick

Spec == Init /\ [][Next]_vars

-----------------------------------------------------------------------------
(* Safety *)

\* Handlers that accepted code i and have yet to act on it.
Holders(i) ==
  {r \in Requests : requests[r].pc \in {"find", "write"} /\ requests[r].otp = i}

\* Handlers past the rate limit that are about to insert a code like i, and those codes.
Cleared(i) == {r \in Requests : requests[r].pc = "create" /\ SameRequest(i, requests[r])}
CodesLike(i) == {j \in Ids : SameRequest(i, otps[j])}

IsDead(i) == otps[i].invalidated \/ otps[i].expiresAt < now
IsRecent(i) == now - otps[i].createdAt < RateLimit

\* A code that was invalidated or expired stays dead: the counter of a late
\* verification does not bring it back (the NOTE of OtpUpdateDao on the Save it
\* replaced).  It authorizes only what handlers that accepted it in time still do,
\* each once, and nobody joins them.
DeadForGood(i) ==
  /\ otps[i].invalidated => otps'[i].invalidated
  /\ IsDead(i)'
  /\ Holders(i)' \subseteq Holders(i)
  /\ otps'[i].uses # otps[i].uses => Holders(i)' # Holders(i)

\* While a code is recent nobody gets past the rate limit for another one like it:
\* the only ones to insert one are those that were past it before, each once.
KeepsOthersWaiting(i) ==
  /\ Cleared(i)' \subseteq Cleared(i)
  /\ CodesLike(i)' # CodesLike(i) =>
       \E r \in Cleared(i) \ Cleared(i)' :
         CodesLike(i)' \ CodesLike(i) = {requests'[r].otp}

\* What the table refuses it refuses to whoever asks from then on, for a code that
\* is spent and for one that was just sent: handlers that asked before are all that
\* can still act against it.
RefusalsAreFinal ==
  [][\A i \in Ids :
       /\ IsDead(i) => DeadForGood(i)
       /\ IsRecent(i) => KeepsOthersWaiting(i)]_vars

\* The flag that opens the protected routes means what RC-3 of the change of
\* e-mail says: a code for that very address reached it, unless an administrator
\* vouched for the user.
VerifiedMeansProven ==
  \A u \in Users \ vouched :
    verified[u] =>
      \E i \in delivered :
        /\ otps[i].contact = email[u]
        /\ otps[i].action \in {"REGISTER", "VERIFY_EMAIL", "CHANGE_EMAIL"}

\* "Verify then consume", under a ceiling: a code is invalidated because an endpoint
\* accepted it or because MaxAttempts wrong ones were counted, never for being
\* verified; and however many verifications are in flight, the counter stops there.
CodesDieForAReason ==
  \A i \in Ids :
    /\ otps[i].count <= MaxAttempts
    /\ otps[i].invalidated => i \in presented \/ otps[i].guesses >= MaxAttempts

\* A code that authorized something is dead, or somebody still has to kill it,
\* or that was lost.
UsedCodesAreDoomed ==
  \A i \in Ids :
    otps[i].uses > 0 =>
      otps[i].invalidated \/ i \in burning \/ i \in Owing \/ i \in lost

-----------------------------------------------------------------------------
(* The book *)

ProofsOf(codes) == {<<otps[i].action, otps[i].contact>> : i \in codes}

Book == INSTANCE AccountBook
          WITH mailed <- ProofsOf(delivered), proven <- ProofsOf(presented)

\* Whatever runs between the read of a code and the writes it allows, and whatever
\* is lost or crashes in between, accounts change as the book says: an address is
\* taken with a code mailed to it for that purpose, once it is free; a flag is set
\* for the address the account has when it is set, and only administrators clear it.
ImplementsBook == Book!BookSpec

-----------------------------------------------------------------------------
(* What comments of the code say, and the code does not do *)

\* "Generates a one time password" (the route of /otp/generate_consumable).
OneTimePassword == \A i \in Ids : otps[i].uses <= 1

\* Two concurrent verifications no longer clobber each other (OtpUpdateDao): the
\* column holds the number of failures that were written to it.
FailuresAreCounted == \A i \in Ids : otps[i].count = otps[i].guesses
=============================================================================
