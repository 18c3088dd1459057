------------------------------ MODULE Provisioning ------------------------------
(***************************************************************************)
(* Signing up: a transaction over five tables that ends on the row of the  *)
(* pool, and the goroutines that count the signup on that same row and     *)
(* queue the login on the row of the user.                                 *)
(*                                                                         *)
(* A statement waits for the locks that other transactions hold, as        *)
(* PostgreSQL has it: a foreign key takes KEY SHARE on the row it names,   *)
(* an UPDATE of other columns NO KEY UPDATE, SELECT ... FOR UPDATE the     *)
(* strongest.  A crash is a failure of everybody.                          *)
(***************************************************************************)
EXTENDS Naturals, Sequences, FiniteSets

CONSTANTS
  Requests,     \* signups, and the accounts they make
  Emails,
  Asked,        \* the addresses each signup may come with
  PeriodsKept,  \* tracking.Limit, of the months of a pool
  LoginsKept,   \* tracking.Limit, of the logins of a user
  MaxPeriod,    \* bound: the last month of the clock
  MaxLogins     \* bound: sessions past which none is minted

ASSUME AskedAssumption == Asked \in [Requests -> SUBSET Emails]
ASSUME LimitAssumption == PeriodsKept \in Nat \ {0} /\ LoginsKept \in Nat \ {0}
ASSUME BoundsAssumption == MaxPeriod \in Nat \ {0} /\ MaxLogins \in Nat

VARIABLES
  signups,      \* the handlers of /register
  rows,         \* committed rows: <<table, signup>>
  usersCount,   \* users_pool.users_count
  tracking,     \* users_pool.tracking: signups by period
  queues,       \* users.tracking: the last logins, newest first
  tracks,       \* goroutines: "track pool signup", one a signup
  logins,       \* goroutines: "track user login", by the order of their sessions
  period,       \* the clock
  counted,      \* history: signups whose Track has committed, by period
  recorded      \* history: logins whose Track has committed, of each user

vars == <<signups, rows, usersCount, tracking, queues, tracks, logins, period, counted, recorded>>

NoEmail == "none"
Idle == [pc |-> "arrived", email |-> NoEmail, ran |-> 0, count |-> 0]
Answered == [Idle EXCEPT !.pc = "answered"]

Periods == 1..MaxPeriod

Init ==
  /\ signups = [r \in Requests |-> Idle]
  /\ rows = {}
  /\ usersCount = 0
  /\ tracking = << >>
  /\ queues = [r \in Requests |-> << >>]
  /\ tracks = [r \in Requests |-> [pc |-> "none"]]
  /\ logins = << >>
  /\ period = 1
  /\ counted = [p \in Periods |-> 0]
  /\ recorded = [r \in Requests |-> << >>]

-----------------------------------------------------------------------------
(* Locks on the row of the pool, and who waits for whom *)

\* What ProvisionUser writes, in its order.
Statements == <<"organizations", "profiles", "users", "owners", "participants", "users_count">>

Ran(r) == {Statements[i] : i \in 1..signups[r].ran}
Runs(r) == IF signups[r].pc = "open" /\ signups[r].ran < Len(Statements)
           THEN {Statements[signups[r].ran + 1]} ELSE {}

\* The row locked whole, as the goroutine locks it.
LocksTheRow(statement) ==
  IF statement = "users_count" THEN {"UPDATE"}
  ELSE IF statement \in {"organizations", "users"} THEN {"KEY SHARE"} ELSE {}

\* The count as a value that is read and written back.
LocksWithoutCount(statement) ==
  IF statement \in {"organizations", "users", "users_count"} THEN {"KEY SHARE"} ELSE {}

\* Of a statement, on the row of the pool.
Locks(statement) ==
  IF statement = "users_count" THEN {"NO KEY UPDATE"}
  ELSE IF statement \in {"organizations", "users"} THEN {"KEY SHARE"} ELSE {}

Conflicts(held, wanted) ==
  \/ "UPDATE" \in {held, wanted}
  \/ held = "NO KEY UPDATE" /\ wanted = "NO KEY UPDATE"

\* Transactions: of a signup, or of the goroutine that tracks it.
Transactions == {"signup", "track"} \X Requests

Holds(t) ==
  IF t[1] = "signup" THEN UNION {Locks(s) : s \in Ran(t[2])}
  ELSE IF tracks[t[2]].pc = "locked" THEN {"UPDATE"} ELSE {}

Wants(t) ==
  IF t[1] = "signup" THEN UNION {Locks(s) : s \in Runs(t[2])}
  ELSE IF tracks[t[2]].pc = "called" THEN {"UPDATE"} ELSE {}

\* An insert of a user waits for the one that inserts the same address.
SameAddress(q, r) ==
  "users" \in Ran(q) /\ "users" \in Runs(r) /\ signups[q].email = signups[r].email

Blocks(s, t) ==
  /\ s # t
  /\ \/ \E held \in Holds(s), wanted \in Wants(t) : Conflicts(held, wanted)
     \/ s[1] = "signup" /\ t[1] = "signup" /\ SameAddress(s[2], t[2])

Free(t) == \A s \in Transactions : ~Blocks(s, t)

-----------------------------------------------------------------------------
(* Register *)

Registered == {r \in Requests : <<"users", r>> \in rows}
Taken(email) == \E r \in Registered : signups[r].email = email

Goes(r, h) == signups' = [signups EXCEPT ![r] = h]

\* IsAlreadyCreated, before anything is locked.
Register(r) ==
  /\ signups[r].pc = "arrived"
  /\ \E email \in Asked[r] :
       ~Taken(email) /\ Goes(r, [Idle EXCEPT !.pc = "open", !.email = email])
  /\ UNCHANGED <<rows, usersCount, tracking, queues, tracks, logins, period, counted, recorded>>

\* One statement of the transaction; the count is an expression, read under its lock.
Statement(r) ==
  /\ Runs(r) # {} /\ Free(<<"signup", r>>)
  /\ Runs(r) = {"users"} => ~Taken(signups[r].email)
  /\ Goes(r, [signups[r] EXCEPT !.ran = @ + 1,
                                !.count = IF Runs(r) = {"users_count"} THEN usersCount + 1 ELSE @])
  /\ UNCHANGED <<rows, usersCount, tracking, queues, tracks, logins, period, counted, recorded>>

\* Whoever waited for the address finds it taken.
FindTaken(r) ==
  /\ Runs(r) = {"users"} /\ Free(<<"signup", r>>) /\ Taken(signups[r].email)
  /\ Goes(r, Answered)
  /\ UNCHANGED <<rows, usersCount, tracking, queues, tracks, logins, period, counted, recorded>>

Written(r) == {<<table, r>> : table \in Ran(r) \ {"users_count"}}

\* The goroutine that counts the signup starts after the commit.
Commit(r) ==
  /\ signups[r].pc = "open" /\ signups[r].ran = Len(Statements)
  /\ rows' = rows \union Written(r)
  /\ usersCount' = signups[r].count
  /\ tracks' = [tracks EXCEPT ![r] = [pc |-> "detached"]]
  /\ Goes(r, [signups[r] EXCEPT !.pc = "provisioned", !.ran = 0])
  /\ UNCHANGED <<tracking, queues, logins, period, counted, recorded>>

\* A participation written on a connection of its own.
RollbackWithoutOption(r) ==
  /\ signups[r].pc \in {"arrived", "open"}
  /\ rows' = rows \union ({<<"participants", r>>} \intersect Written(r))
  /\ Goes(r, Answered)
  /\ UNCHANGED <<usersCount, tracking, queues, tracks, logins, period, counted, recorded>>

\* A refusal, or an error of any statement: the transaction rolls back.
Rollback(r) ==
  /\ signups[r].pc \in {"arrived", "open"}
  /\ Goes(r, Answered)
  /\ UNCHANGED <<rows, usersCount, tracking, queues, tracks, logins, period, counted, recorded>>

Detached(u) == [user |-> u, pc |-> "detached", queue |-> << >>]

\* CreateNew, out of the transaction, and the goroutine that queues the login.
MintSession(r) ==
  /\ signups[r].pc = "provisioned" /\ Len(logins) < MaxLogins
  /\ logins' = Append(logins, Detached(r))
  /\ Goes(r, [signups[r] EXCEPT !.pc = "answered"])
  /\ UNCHANGED <<rows, usersCount, tracking, queues, tracks, period, counted, recorded>>

\* The account is there and its client is told of an error.
FailToMint(r) ==
  /\ signups[r].pc = "provisioned"
  /\ Goes(r, [signups[r] EXCEPT !.pc = "answered"])
  /\ UNCHANGED <<rows, usersCount, tracking, queues, tracks, logins, period, counted, recorded>>

Login(r) ==
  /\ r \in Registered /\ Len(logins) < MaxLogins
  /\ logins' = Append(logins, Detached(r))
  /\ UNCHANGED <<signups, rows, usersCount, tracking, queues, tracks, period, counted, recorded>>

-----------------------------------------------------------------------------
(* Tracking of signups *)

\* The keys sorted the other way.
Oldest(periods) == {p \in periods : Cardinality({q \in periods : q < p}) < PeriodsKept}

Newest(periods) == {p \in periods : Cardinality({q \in periods : q > p}) < PeriodsKept}

\* One more in its period, and no more periods than fit.
RecordSignup(document, p) ==
  [q \in Newest(DOMAIN document \union {p}) |->
     (IF q \in DOMAIN document THEN document[q] ELSE 0) + (IF q = p THEN 1 ELSE 0)]

\* time.Now() is read before the row is locked.
CallTrack(r) ==
  /\ tracks[r].pc = "detached"
  /\ tracks' = [tracks EXCEPT ![r] = [pc |-> "called", at |-> period]]
  /\ UNCHANGED <<signups, rows, usersCount, tracking, queues, logins, period, counted, recorded>>

\* FindOneForUpdate
LockPool(r) ==
  /\ tracks[r].pc = "called" /\ Free(<<"track", r>>)
  /\ tracks' = [tracks EXCEPT ![r] = [pc |-> "locked", at |-> tracks[r].at,
                                      document |-> RecordSignup(tracking, tracks[r].at)]]
  /\ UNCHANGED <<signups, rows, usersCount, tracking, queues, logins, period, counted, recorded>>

\* Tried again although it was written.
WritePoolAndRetry(r) ==
  /\ tracks[r].pc = "locked"
  /\ tracking' = tracks[r].document
  /\ tracks' = [tracks EXCEPT ![r] = [pc |-> "detached"]]
  /\ counted' = [counted EXCEPT ![tracks[r].at] = @ + 1]
  /\ UNCHANGED <<signups, rows, usersCount, queues, logins, period, recorded>>

\* WriteTracking, and the commit that gives the row back.
WritePool(r) ==
  /\ tracks[r].pc = "locked"
  /\ tracking' = tracks[r].document
  /\ tracks' = [tracks EXCEPT ![r] = [pc |-> "ended"]]
  /\ counted' = [counted EXCEPT ![tracks[r].at] = @ + 1]
  /\ UNCHANGED <<signups, rows, usersCount, queues, logins, period, recorded>>

TrackFails(r) ==
  /\ tracks[r].pc \in {"detached", "called", "locked"}
  /\ tracks' = [tracks EXCEPT ![r] = [pc |-> "ended"]]
  /\ UNCHANGED <<signups, rows, usersCount, tracking, queues, logins, period, counted, recorded>>

-----------------------------------------------------------------------------
(* Tracking of logins *)

\* Nothing is dropped.
RecordEvery(queue, i) == <<i>> \o queue

FirstOf(events) == SubSeq(events, 1, IF Len(events) < LoginsKept THEN Len(events) ELSE LoginsKept)

\* To the front of the queue, and off its end what no longer fits.
RecordLogin(queue, i) == FirstOf(<<i>> \o queue)

\* A row nobody locks.
NobodyLocks(u) == TRUE

\* Only goroutines of its own lock the row of a user for long.
UserIsFree(u) == \A j \in 1..Len(logins) : logins[j].user = u => logins[j].pc # "locked"

LockUser(i) ==
  LET u == logins[i].user
  IN  /\ logins[i].pc = "detached" /\ UserIsFree(u)
      /\ logins' = [logins EXCEPT ![i] = [user |-> u, pc |-> "locked", queue |-> RecordLogin(queues[u], i)]]
      /\ UNCHANGED <<signups, rows, usersCount, tracking, queues, tracks, period, counted, recorded>>

WriteUser(i) ==
  LET u == logins[i].user
  IN  /\ logins[i].pc = "locked"
      /\ queues' = [queues EXCEPT ![u] = logins[i].queue]
      /\ logins' = [logins EXCEPT ![i] = [Detached(u) EXCEPT !.pc = "ended"]]
      /\ recorded' = [recorded EXCEPT ![u] = <<i>> \o @]
      /\ UNCHANGED <<signups, rows, usersCount, tracking, tracks, period, counted>>

LoginTrackFails(i) ==
  /\ logins[i].pc \in {"detached", "locked"}
  /\ logins' = [logins EXCEPT ![i] = [Detached(logins[i].user) EXCEPT !.pc = "ended"]]
  /\ UNCHANGED <<signups, rows, usersCount, tracking, queues, tracks, period, counted, recorded>>

-----------------------------------------------------------------------------
Tick ==
  /\ period < MaxPeriod /\ period' = period + 1
  /\ UNCHANGED <<signups, rows, usersCount, tracking, queues, tracks, logins, counted, recorded>>

SignupStep(r) == Register(r) \/ Statement(r) \/ FindTaken(r) \/ Commit(r) \/ MintSession(r)
TrackStep(r) == CallTrack(r) \/ LockPool(r) \/ WritePool(r)
LoginStep(i) == LockUser(i) \/ WriteUser(i)

Next ==
  \/ \E r \in Requests :
       \/ SignupStep(r) \/ Rollback(r) \/ FailToMint(r) \/ Login(r)
       \/ TrackStep(r) \/ TrackFails(r)
  \/ \E i \in 1..Len(logins) : LoginStep(i) \/ LoginTrackFails(i)
  \/ Tick

Spec == Init /\ [][Next]_vars

\* Handlers and goroutines run on; nothing needs to fail, and nobody needs to log in.
Fairness == \A r \in Requests : WF_vars(Statement(r) \/ FindTaken(r) \/ Commit(r)) /\ WF_vars(TrackStep(r))

FairSpec == Spec /\ Fairness

-----------------------------------------------------------------------------
(* Properties *)

Tables == {Statements[i] : i \in 1..Len(Statements)} \ {"users_count"}

IsDocument(d) == d \in [DOMAIN d -> Nat \ {0}] /\ DOMAIN d \subseteq Periods

IsTrack(t) ==
  /\ t.pc \in {"none", "detached", "called", "locked", "ended"}
  /\ t.pc \in {"called", "locked"} => t.at \in Periods
  /\ t.pc = "locked" => IsDocument(t.document)

\* Every variable has its shape, the documents hold no more than their limit and only
\* accounts that were committed log in.
TypeOK ==
  /\ signups \in [Requests -> [pc : {"arrived", "open", "provisioned", "answered"},
                               email : Emails \union {NoEmail},
                               ran : 0..Len(Statements), count : Nat]]
  /\ rows \subseteq Tables \X Requests
  /\ usersCount \in Nat
  /\ IsDocument(tracking) /\ Cardinality(DOMAIN tracking) \leq PeriodsKept
  /\ DOMAIN tracks = Requests /\ \A r \in Requests : IsTrack(tracks[r])
  /\ queues \in [Requests -> Seq(Nat)] /\ recorded \in [Requests -> Seq(Nat)]
  /\ \A r \in Requests : Len(queues[r]) \leq LoginsKept
  /\ logins \in Seq([user : Requests, pc : {"detached", "locked", "ended"}, queue : Seq(Nat)])
  /\ \A i \in 1..Len(logins) : logins[i].user \in Registered
  /\ period \in Periods /\ counted \in [Periods -> Nat]

\* "A read modify write would lose a concurrent signup" (IncrementUsersCount): the pool
\* counts the accounts that were committed into it, and no other.
CountMatches == usersCount = Cardinality(Registered)

\* "A user together with the organization it owns" (ProvisionUser): of an account there
\* is all or nothing, one for each address, and the pool has counted it, whoever fails
\* and whenever.
BornWhole ==
  /\ \A r \in Requests : {t \in Tables : <<t, r>> \in rows} \in {{}, Tables}
  /\ \A q, r \in Registered : signups[q].email = signups[r].email => q = r
  /\ CountMatches

\* The transactions that have begun, or are about to, and have not ended.
Unfinished ==
  {t \in Transactions : IF t[1] = "signup" THEN signups[t[2]].pc = "open"
                        ELSE tracks[t[2]].pc \in {"detached", "called", "locked"}}

\* "It has to stay last" (ProvisionUser): signups that wait for the pool, or for each
\* other's address, and goroutines that wait for both, never wait in a circle; nobody
\* waits for a transaction that has ended; so that of any that are left one can go on.
NoCircleOfWaits ==
  /\ \A circle \in (SUBSET Transactions) \ {{}} :
       \E t \in circle : \A s \in circle : ~Blocks(s, t)
  /\ Unfinished # {} => \E t \in Unfinished : Free(t)

\* "Serialize here instead of losing one of the two" (FindOneForUpdate), "the oldest goes
\* out": a month that is kept counts each of its signups that was ever tracked, and a
\* month that is not is older than every one of a full document, in whatever order the
\* goroutines came.
PeriodsAreExact ==
  LET tracked == {p \in Periods : counted[p] > 0}
      kept == DOMAIN tracking
  IN  /\ kept \subseteq tracked /\ \A p \in kept : tracking[p] = counted[p]
      /\ \A q \in tracked \ kept : Cardinality(kept) = PeriodsKept /\ \A p \in kept : q < p

\* "Keeps two concurrent logins of the same user from losing one another's event"
\* (UserService.Track): the queue is the end of all that was recorded.
QueuesLoseNothing ==
  \A r \in Requests : queues[r] = FirstOf(recorded[r])

Underway(r) == signups[r].pc = "open" \/ tracks[r].pc \in {"detached", "called", "locked"}

\* "That every other signup into the same pool then waits on": every transaction that
\* was opened ends, and so does every goroutine that waits for all of them.
TransactionsEnd == \A r \in Requests : Underway(r) ~> ~Underway(r)

-----------------------------------------------------------------------------
(* The book that all of this keeps *)

BookAccounts == [r \in Registered |-> signups[r].email]
BookToEnter == {r \in Requests : tracks[r].pc \in {"detached", "called", "locked"}}

Book == INSTANCE PoolBook
          WITH Users <- Requests, Addresses <- Emails, Months <- Periods, Logins <- 1..MaxLogins,
               MonthsShown <- PeriodsKept, LoginsShown <- LoginsKept,
               accounts <- BookAccounts, toEnter <- BookToEnter, entered <- counted,
               logged <- recorded, count <- usersCount, months <- tracking, last <- queues

\* Of signups that run at once, fail and wait for each other, and of goroutines that come
\* late or never, an administrator sees what one list of whole accounts, entered one by
\* one and never forgotten, would show: each signup in one month and once (Track).
ImplementsBook == Book!BookSpec
=============================================================================
