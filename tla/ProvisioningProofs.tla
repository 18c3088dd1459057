--------------------------- MODULE ProvisioningProofs ---------------------------
(* Proofs about Provisioning, for any number of signups and goroutines, and any *)
(* limits of the two documents.                                                *)
EXTENDS Provisioning, FiniteSetTheorems, SequenceTheorems, TLAPS

-----------------------------------------------------------------------------
(* Statements and locks *)

LEMMA StatementsAre ==
  /\ Len(Statements) = 6
  /\ Statements[1] = "organizations" /\ Statements[2] = "profiles" /\ Statements[3] = "users"
  /\ Statements[4] = "owners" /\ Statements[5] = "participants" /\ Statements[6] = "users_count"
BY DEF Statements

LEMMA TablesAre == Tables = {"organizations", "profiles", "users", "owners", "participants"}
<1>1. 1..6 = {1, 2, 3, 4, 5, 6}
  OBVIOUS
<1>2. Tables = {Statements[i] : i \in {1, 2, 3, 4, 5, 6}} \ {"users_count"}
  BY <1>1, StatementsAre DEF Tables
<1> QED
  BY <1>2, StatementsAre

LEMMA RanIs ==
  ASSUME NEW r \in Requests, signups[r].ran \in 0..6
  PROVE  /\ "users" \in Ran(r) <=> signups[r].ran \geq 3
         /\ "users_count" \in Ran(r) <=> signups[r].ran = 6
         /\ signups[r].ran = 6 => Ran(r) \ {"users_count"} = Tables
<1> DEFINE n == signups[r].ran
<1>1. \A s : s \in Ran(r) <=> \E i \in 1..n : Statements[i] = s
  BY DEF Ran
<1>2. "users" \in Ran(r) <=> n \geq 3
  <2>1. \A i \in 1..n : Statements[i] = "users" => i = 3
    BY StatementsAre
  <2> QED
    BY <1>1, <2>1, StatementsAre
<1>3. "users_count" \in Ran(r) <=> n = 6
  <2>1. \A i \in 1..n : Statements[i] = "users_count" => i = 6
    BY StatementsAre
  <2> QED
    BY <1>1, <2>1, StatementsAre
<1>4. n = 6 => Ran(r) \ {"users_count"} = Tables
  BY StatementsAre DEF Ran, Tables
<1> QED
  BY <1>2, <1>3, <1>4

LEMMA RunsIs ==
  ASSUME NEW r \in Requests, signups[r].ran \in 0..6
  PROVE  /\ Runs(r) # {} <=> signups[r].pc = "open" /\ signups[r].ran < 6
         /\ "users" \in Runs(r) <=> signups[r].pc = "open" /\ signups[r].ran = 2
         /\ "users_count" \in Runs(r) <=> signups[r].pc = "open" /\ signups[r].ran = 5
         /\ Runs(r) = {"users"} <=> signups[r].pc = "open" /\ signups[r].ran = 2
         /\ Runs(r) = {"users_count"} <=> signups[r].pc = "open" /\ signups[r].ran = 5
<1> DEFINE n == signups[r].ran
<1>1. CASE signups[r].pc = "open" /\ n < 6
  <2>1. Runs(r) = {Statements[n + 1]}
    BY <1>1, StatementsAre DEF Runs
  <2>2. n \in {0, 1, 2, 3, 4, 5}
    BY <1>1
  <2>3. /\ Statements[n + 1] = "users" <=> n = 2
        /\ Statements[n + 1] = "users_count" <=> n = 5
    BY <2>2, StatementsAre
  <2> QED
    BY <1>1, <2>1, <2>3
<1>2. CASE ~(signups[r].pc = "open" /\ n < 6)
  <2>1. Runs(r) = {}
    BY <1>2, StatementsAre DEF Runs
  <2> QED
    BY <1>2, <2>1
<1> QED
  BY <1>1, <1>2

\* The locks of a signup on the row of its pool, and of the goroutine that tracks it.
LEMMA SignupLocks ==
  ASSUME NEW r \in Requests, signups[r].ran \in 0..6
  PROVE  /\ \A held \in Holds(<<"signup", r>>) :
              held = "KEY SHARE" \/ (held = "NO KEY UPDATE" /\ signups[r].ran = 6)
         /\ signups[r].ran = 6 => "NO KEY UPDATE" \in Holds(<<"signup", r>>)
         /\ \A wanted \in Wants(<<"signup", r>>) :
              wanted = "KEY SHARE" \/ (wanted = "NO KEY UPDATE" /\ signups[r].pc = "open" /\ signups[r].ran = 5)
         /\ signups[r].pc = "open" /\ signups[r].ran = 5 => "NO KEY UPDATE" \in Wants(<<"signup", r>>)
<1>1. ASSUME NEW held \in Holds(<<"signup", r>>)
      PROVE  held = "KEY SHARE" \/ (held = "NO KEY UPDATE" /\ signups[r].ran = 6)
  <2>1. PICK s \in Ran(r) : held \in Locks(s)
    BY <1>1 DEF Holds
  <2> QED
    BY <2>1, RanIs DEF Locks
<1>2. signups[r].ran = 6 => "NO KEY UPDATE" \in Holds(<<"signup", r>>)
  <2>1. "NO KEY UPDATE" \in Locks("users_count")
    BY DEF Locks
  <2> QED
    BY <2>1, RanIs DEF Holds
<1>3. ASSUME NEW wanted \in Wants(<<"signup", r>>)
      PROVE  wanted = "KEY SHARE" \/ (wanted = "NO KEY UPDATE" /\ signups[r].pc = "open" /\ signups[r].ran = 5)
  <2>1. PICK s \in Runs(r) : wanted \in Locks(s)
    BY <1>3 DEF Wants
  <2> QED
    BY <2>1, RunsIs DEF Locks
<1>4. signups[r].pc = "open" /\ signups[r].ran = 5 => "NO KEY UPDATE" \in Wants(<<"signup", r>>)
  <2>1. "NO KEY UPDATE" \in Locks("users_count")
    BY DEF Locks
  <2> QED
    BY <2>1, RunsIs DEF Wants
<1> QED
  BY <1>1, <1>2, <1>3, <1>4

LEMMA TrackLocks ==
  ASSUME NEW r \in Requests
  PROVE  /\ Holds(<<"track", r>>) = IF tracks[r].pc = "locked" THEN {"UPDATE"} ELSE {}
         /\ Wants(<<"track", r>>) = IF tracks[r].pc = "called" THEN {"UPDATE"} ELSE {}
BY DEF Holds, Wants

LEMMA TransactionsAre ==
  ASSUME NEW t \in Transactions
  PROVE  \E r \in Requests : t = <<"signup", r>> \/ t = <<"track", r>>
BY DEF Transactions

-----------------------------------------------------------------------------
(* Nobody waits in a circle *)

RanTyped == \A r \in Requests : signups[r].ran \in 0..6

\* What a signup waits for comes after it in the order of the statements.
LEMMA SignupWaits ==
  ASSUME RanTyped, NEW r \in Requests, NEW s \in Transactions, Blocks(s, <<"signup", r>>)
  PROVE  \/ \E q \in Requests : s = <<"track", q>> /\ tracks[q].pc = "locked"
         \/ \E q \in Requests : s = <<"signup", q>> /\ signups[q].ran = 6 /\ signups[r].ran = 5
         \/ \E q \in Requests : s = <<"signup", q>> /\ signups[q].ran \geq 3 /\ signups[r].ran = 2
<1>1. signups[r].ran \in 0..6
  BY DEF RanTyped
<1>2. CASE \E held \in Holds(s), wanted \in Wants(<<"signup", r>>) : Conflicts(held, wanted)
  <2>1. PICK held \in Holds(s), wanted \in Wants(<<"signup", r>>) : Conflicts(held, wanted)
    BY <1>2
  <2>2. wanted = "KEY SHARE" \/ (wanted = "NO KEY UPDATE" /\ signups[r].ran = 5)
    BY <1>1, <2>1, SignupLocks
  <2>3. held = "UPDATE" \/ (held = "NO KEY UPDATE" /\ wanted = "NO KEY UPDATE")
    BY <2>1, <2>2 DEF Conflicts
  <2>4. PICK q \in Requests : s = <<"signup", q>> \/ s = <<"track", q>>
    BY TransactionsAre
  <2>5. CASE s = <<"signup", q>>
    <3>1. signups[q].ran \in 0..6
      BY DEF RanTyped
    <3>2. held = "NO KEY UPDATE" /\ signups[q].ran = 6
      BY <2>1, <2>3, <2>5, <3>1, SignupLocks
    <3> QED
      BY <2>2, <2>3, <2>5, <3>2
  <2>6. CASE s = <<"track", q>>
    BY <2>1, <2>6, TrackLocks
  <2> QED
    BY <2>4, <2>5, <2>6
<1>3. CASE s[1] = "signup" /\ SameAddress(s[2], r)
  <2>1. PICK q \in Requests : s = <<"signup", q>>
    BY <1>3, TransactionsAre
  <2>2. SameAddress(q, r)
    BY <1>3, <2>1
  <2>3. signups[q].ran \in 0..6
    BY DEF RanTyped
  <2> QED
    BY <1>1, <2>1, <2>2, <2>3, RanIs, RunsIs DEF SameAddress
<1> QED
  BY <1>2, <1>3 DEF Blocks

\* A goroutine that waits holds nothing, and one that holds the row waits for nothing.
LEMMA TrackWaits ==
  ASSUME NEW q \in Requests, NEW s, Blocks(s, <<"track", q>>)
  PROVE  tracks[q].pc = "called" /\ Holds(s) # {}
<1>1. PICK held \in Holds(s), wanted \in Wants(<<"track", q>>) : Conflicts(held, wanted)
  BY DEF Blocks
<1> QED
  BY <1>1, TrackLocks

LEMMA NobodyWaitsForever ==
  ASSUME RanTyped, NEW circle \in (SUBSET Transactions) \ {{}}
  PROVE  \E t \in circle : \A s \in circle : ~Blocks(s, t)
<1> SUFFICES ASSUME \A t \in circle : \E s \in circle : Blocks(s, t)
             PROVE  FALSE
  OBVIOUS
<1>1. \A q \in Requests : <<"track", q>> \in circle => tracks[q].pc = "called"
  BY TrackWaits
<1>2. \A r \in Requests : <<"signup", r>> \in circle => signups[r].ran # 6
  <2> SUFFICES ASSUME NEW r \in Requests, <<"signup", r>> \in circle, signups[r].ran = 6
               PROVE  FALSE
    OBVIOUS
  <2>1. PICK s \in circle : Blocks(s, <<"signup", r>>)
    OBVIOUS
  <2>2. PICK q \in Requests : s = <<"track", q>> /\ tracks[q].pc = "locked"
    BY <2>1, SignupWaits
  <2> QED
    BY <1>1, <2>2
<1>3. \A r \in Requests : <<"signup", r>> \in circle => signups[r].ran = 2
  <2> SUFFICES ASSUME NEW r \in Requests, <<"signup", r>> \in circle
               PROVE  signups[r].ran = 2
    OBVIOUS
  <2>1. PICK s \in circle : Blocks(s, <<"signup", r>>)
    OBVIOUS
  <2> QED
    BY <1>1, <1>2, <2>1, SignupWaits
<1>4. \A r \in Requests : <<"signup", r>> \notin circle
  <2> SUFFICES ASSUME NEW r \in Requests, <<"signup", r>> \in circle
               PROVE  FALSE
    OBVIOUS
  <2>1. PICK s \in circle : Blocks(s, <<"signup", r>>)
    OBVIOUS
  <2>2. signups[r].ran = 2
    BY <1>3
  <2>3. PICK q \in Requests : s = <<"signup", q>> /\ signups[q].ran \geq 3
    BY <1>1, <2>1, <2>2, SignupWaits
  <2> QED
    BY <1>3, <2>1, <2>3
<1>5. PICK t \in circle : TRUE
  OBVIOUS
<1>6. PICK s \in circle : Blocks(s, t)
  OBVIOUS
<1>7. PICK q \in Requests : t = <<"track", q>>
  BY <1>4, <1>5, TransactionsAre
<1>8. Holds(s) # {}
  BY <1>6, <1>7, TrackWaits
<1>9. PICK p \in Requests : s = <<"track", p>>
  BY <1>4, <1>6, TransactionsAre
<1> QED
  BY <1>1, <1>8, <1>9, TrackLocks

-----------------------------------------------------------------------------
(* Shapes: TypeOK short of its two limits *)

SignupStates == [pc : {"arrived", "open", "provisioned", "answered"},
                 email : Emails \union {NoEmail}, ran : 0..6, count : Nat]
LoginStates == [user : Requests, pc : {"detached", "locked", "ended"}, queue : Seq(Nat)]

SignupShapes ==
  /\ signups \in [Requests -> SignupStates]
  /\ rows \subseteq Tables \X Requests
  /\ usersCount \in Nat

PoolShapes ==
  /\ IsDocument(tracking)
  /\ DOMAIN tracks = Requests /\ \A r \in Requests : IsTrack(tracks[r])
  /\ period \in Periods /\ counted \in [Periods -> Nat]

UserShapes ==
  /\ queues \in [Requests -> Seq(Nat)] /\ recorded \in [Requests -> Seq(Nat)]
  /\ logins \in Seq(LoginStates)
  /\ \A i \in 1..Len(logins) : logins[i].user \in Registered

Shapes == SignupShapes /\ PoolShapes /\ UserShapes

\* The variables of each part.
signupVars == <<signups, rows, usersCount>>
poolVars == <<tracking, tracks, period, counted>>
userVars == <<queues, recorded, logins>>

LEMMA ShapesRan == SignupShapes => RanTyped
BY DEF SignupShapes, SignupStates, RanTyped

LEMMA RecordSignupShape ==
  ASSUME NEW d, IsDocument(d), NEW p \in Periods
  PROVE  IsDocument(RecordSignup(d, p))
BY DEF IsDocument, RecordSignup, Newest

LEMMA FirstOfShape ==
  ASSUME NEW events \in Seq(Nat)
  PROVE  /\ FirstOf(events) \in Seq(Nat)
         /\ Len(FirstOf(events)) = IF Len(events) < LoginsKept THEN Len(events) ELSE LoginsKept
         /\ \A i \in 1..Len(FirstOf(events)) : FirstOf(events)[i] = events[i]
<1> DEFINE n == IF Len(events) < LoginsKept THEN Len(events) ELSE LoginsKept
<1>1. n \in 0..Len(events) /\ FirstOf(events) = SubSeq(events, 1, n)
  BY LimitAssumption DEF FirstOf
<1> HIDE DEF n
<1>2. SubSeq(events, 1, n) \in Seq(Nat) /\ Len(SubSeq(events, 1, n)) = n
      /\ \A i \in 1..n : SubSeq(events, 1, n)[i] = events[i]
  BY <1>1
<1> QED
  BY <1>1, <1>2 DEF n

LEMMA PushShape ==
  ASSUME NEW events \in Seq(Nat), NEW i \in Nat
  PROVE  /\ <<i>> \o events \in Seq(Nat) /\ Len(<<i>> \o events) = Len(events) + 1
         /\ (<<i>> \o events)[1] = i
         /\ \A j \in 1..Len(events) : (<<i>> \o events)[j + 1] = events[j]
OBVIOUS

\* A step of a signup that leaves the tables alone.
LEMMA SignupGoes ==
  ASSUME SignupShapes, NEW r \in Requests, NEW h \in SignupStates, Goes(r, h),
         rows' = rows, usersCount' = usersCount
  PROVE  SignupShapes'
BY DEF SignupShapes, Goes

LEMMA AnsweredState == Answered \in SignupStates /\ Idle \in SignupStates /\ Answered.pc = "answered"
BY DEF Answered, Idle, SignupStates, NoEmail

\* What the steps of a signup make of its state.
LEMMA OpenState ==
  ASSUME NEW s \in SignupStates, NEW email \in Emails
  PROVE  LET t == [s EXCEPT !.pc = "open", !.email = email]
         IN  t \in SignupStates /\ t.pc = "open" /\ t.email = email /\ t.ran = s.ran
BY DEF SignupStates

LEMMA RanState ==
  ASSUME NEW s \in SignupStates, NEW n \in 0..6, NEW c \in Nat
  PROVE  LET t == [s EXCEPT !.ran = n, !.count = c]
         IN  t \in SignupStates /\ t.pc = s.pc /\ t.email = s.email /\ t.ran = n /\ t.count = c
BY DEF SignupStates

LEMMA ProvisionedState ==
  ASSUME NEW s \in SignupStates
  PROVE  LET t == [s EXCEPT !.pc = "provisioned", !.ran = 0]
         IN  t \in SignupStates /\ t.pc = "provisioned" /\ t.email = s.email /\ t.ran = 0
<1> DEFINE t == [s EXCEPT !.pc = "provisioned", !.ran = 0]
<1>1. ASSUME NEW p \in {"provisioned"}, NEW n \in 0..6
      PROVE  LET u == [s EXCEPT !.pc = p, !.ran = n]
             IN  u \in SignupStates /\ u.pc = p /\ u.email = s.email /\ u.ran = n
  BY DEF SignupStates
<1> QED
  BY <1>1

LEMMA MintedState ==
  ASSUME NEW s \in SignupStates
  PROVE  LET t == [s EXCEPT !.pc = "answered"]
         IN  t \in SignupStates /\ t.pc = "answered" /\ t.email = s.email /\ t.ran = s.ran
BY DEF SignupStates

LEMMA SignupShapesStep ==
  ASSUME Shapes, [Next]_vars
  PROVE  SignupShapes'
<1>1. SignupShapes /\ RanTyped
  BY ShapesRan DEF Shapes
<1>2. ASSUME UNCHANGED signupVars
      PROVE  SignupShapes'
  BY <1>1, <1>2 DEF SignupShapes, signupVars
<1>3. ASSUME NEW r \in Requests, Register(r)
      PROVE  SignupShapes'
  <2>1. PICK email \in Asked[r] : Goes(r, [Idle EXCEPT !.pc = "open", !.email = email])
    BY <1>3 DEF Register
  <2>2. email \in Emails
    BY AskedAssumption
  <2> QED
    BY <1>1, <1>3, <2>1, <2>2, AnsweredState, OpenState, SignupGoes DEF Register
<1>4. ASSUME NEW r \in Requests, Statement(r)
      PROVE  SignupShapes'
  <2>1. signups[r] \in SignupStates /\ signups[r].ran < 6 /\ usersCount \in Nat
    BY <1>1, <1>4, RunsIs DEF Statement, SignupShapes, RanTyped
  <2>2. PICK n \in 0..6, c \in Nat : Goes(r, [signups[r] EXCEPT !.ran = n, !.count = c])
    <3>1. /\ signups[r].ran + 1 \in 0..6
          /\ (IF Runs(r) = {"users_count"} THEN usersCount + 1 ELSE signups[r].count) \in Nat
      BY <2>1 DEF SignupStates
    <3> QED
      BY <1>4, <3>1 DEF Statement
  <2> QED
    BY <1>1, <1>4, <2>1, <2>2, RanState, SignupGoes DEF Statement
<1>5. ASSUME NEW r \in Requests, FindTaken(r) \/ Rollback(r)
      PROVE  SignupShapes'
  BY <1>1, <1>5, AnsweredState, SignupGoes DEF FindTaken, Rollback
<1>6. ASSUME NEW r \in Requests, Commit(r)
      PROVE  SignupShapes'
  <2>1. signups[r] \in SignupStates /\ signups[r].ran = 6
    BY <1>1, <1>6, StatementsAre DEF Commit, SignupShapes
  <2>2. Written(r) \subseteq Tables \X Requests
    BY <1>1, <2>1, RanIs DEF Written, RanTyped
  <2>3. [signups[r] EXCEPT !.pc = "provisioned", !.ran = 0] \in SignupStates
    BY <2>1, ProvisionedState
  <2>4. signups[r].count \in Nat
    BY <2>1 DEF SignupStates
  <2> QED
    BY <1>1, <1>6, <2>2, <2>3, <2>4 DEF Commit, SignupShapes, Goes
<1>7. ASSUME NEW r \in Requests, MintSession(r) \/ FailToMint(r)
      PROVE  SignupShapes'
  <2>1. [signups[r] EXCEPT !.pc = "answered"] \in SignupStates
    BY <1>1, MintedState DEF SignupShapes
  <2> QED
    BY <1>1, <1>7, <2>1, SignupGoes DEF MintSession, FailToMint
<1>8. ASSUME NEW r \in Requests, Login(r) \/ TrackStep(r) \/ TrackFails(r)
      PROVE  SignupShapes'
  BY <1>2, <1>8 DEF Login, TrackStep, CallTrack, LockPool, WritePool, TrackFails, signupVars
<1>9. ASSUME NEW i \in 1..Len(logins), LoginStep(i) \/ LoginTrackFails(i)
      PROVE  SignupShapes'
  BY <1>2, <1>9 DEF LoginStep, LockUser, WriteUser, LoginTrackFails, signupVars
<1>10. ASSUME Tick \/ UNCHANGED vars
       PROVE  SignupShapes'
  BY <1>2, <1>10 DEF Tick, vars, signupVars
<1> QED
  BY <1>3, <1>4, <1>5, <1>6, <1>7, <1>8, <1>9, <1>10 DEF Next, SignupStep

LEMMA PoolShapesStep ==
  ASSUME Shapes, [Next]_vars
  PROVE  PoolShapes'
<1>1. PoolShapes
  BY DEF Shapes
<1>2. ASSUME UNCHANGED poolVars
      PROVE  PoolShapes'
  BY <1>1, <1>2 DEF PoolShapes, poolVars
<1>3. ASSUME NEW r \in Requests, NEW t, IsTrack(t), tracks' = [tracks EXCEPT ![r] = t],
             UNCHANGED <<tracking, period, counted>>
      PROVE  PoolShapes'
  BY <1>1, <1>3 DEF PoolShapes
<1>4. ASSUME NEW r \in Requests, Commit(r)
      PROVE  PoolShapes'
  BY <1>3, <1>4 DEF Commit, IsTrack
<1>5. ASSUME NEW r \in Requests, CallTrack(r)
      PROVE  PoolShapes'
  <2>1. IsTrack([pc |-> "called", at |-> period])
    BY <1>1 DEF IsTrack, PoolShapes
  <2> QED
    BY <1>3, <1>5, <2>1 DEF CallTrack
<1>6. ASSUME NEW r \in Requests, LockPool(r)
      PROVE  PoolShapes'
  <2> DEFINE t == [pc |-> "locked", at |-> tracks[r].at, document |-> RecordSignup(tracking, tracks[r].at)]
  <2>1. tracks[r].at \in Periods /\ IsDocument(RecordSignup(tracking, tracks[r].at))
    BY <1>1, <1>6, RecordSignupShape DEF LockPool, PoolShapes, IsTrack
  <2>2. IsTrack(t)
    BY <2>1 DEF IsTrack
  <2> HIDE DEF t
  <2>3. tracks' = [tracks EXCEPT ![r] = t]
    BY <1>6 DEF LockPool, t
  <2> QED
    BY <1>3, <1>6, <2>2, <2>3 DEF LockPool
<1>7. ASSUME NEW r \in Requests, WritePool(r)
      PROVE  PoolShapes'
  <2>1. tracks[r].at \in Periods /\ IsDocument(tracks[r].document) /\ IsTrack([pc |-> "ended"])
    BY <1>1, <1>7 DEF WritePool, PoolShapes, IsTrack
  <2> QED
    BY <1>1, <1>7, <2>1 DEF WritePool, PoolShapes
<1>8. ASSUME NEW r \in Requests, TrackFails(r)
      PROVE  PoolShapes'
  BY <1>3, <1>8 DEF TrackFails, IsTrack
<1>9. ASSUME Tick
      PROVE  PoolShapes'
  BY <1>1, <1>9, BoundsAssumption DEF Tick, PoolShapes, Periods
<1>10. ASSUME NEW r \in Requests,
              \/ Register(r) \/ Statement(r) \/ FindTaken(r) \/ MintSession(r)
              \/ Rollback(r) \/ FailToMint(r) \/ Login(r)
       PROVE  PoolShapes'
  BY <1>2, <1>10 DEF Register, Statement, FindTaken, MintSession, Rollback, FailToMint, Login, poolVars
<1>11. ASSUME NEW i \in 1..Len(logins), LoginStep(i) \/ LoginTrackFails(i)
       PROVE  PoolShapes'
  BY <1>2, <1>11 DEF LoginStep, LockUser, WriteUser, LoginTrackFails, poolVars
<1>12. ASSUME UNCHANGED vars
       PROVE  PoolShapes'
  BY <1>2, <1>12 DEF vars, poolVars
<1> QED
  BY <1>4, <1>5, <1>6, <1>7, <1>8, <1>9, <1>10, <1>11, <1>12 DEF Next, SignupStep, TrackStep

\* Rows are only added.
LEMMA RegisteredGrows ==
  ASSUME [Next]_vars
  PROVE  Registered \subseteq Registered'
<1>1. rows \subseteq rows'
  BY DEF Next, vars, SignupStep, TrackStep, LoginStep, Register, Statement, FindTaken, Commit, MintSession,
         Rollback, FailToMint, Login, CallTrack, LockPool, WritePool, TrackFails, LockUser, WriteUser,
         LoginTrackFails, Tick
<1> QED
  BY <1>1 DEF Registered

LEMMA EndedState ==
  ASSUME NEW r \in Requests
  PROVE  /\ Detached(r) \in LoginStates /\ Detached(r).user = r
         /\ LET l == [Detached(r) EXCEPT !.pc = "ended"]
            IN  l \in LoginStates /\ l.user = r /\ l.pc = "ended"
<1>1. Detached(r) \in LoginStates /\ Detached(r).user = r
  BY DEF Detached, LoginStates
<1>2. ASSUME NEW s \in LoginStates
      PROVE  LET l == [s EXCEPT !.pc = "ended"] IN l \in LoginStates /\ l.user = s.user /\ l.pc = "ended"
  BY DEF LoginStates
<1> QED
  BY <1>1, <1>2

LEMMA LoginShape ==
  ASSUME UserShapes, NEW i \in 1..Len(logins)
  PROVE  i \in Nat /\ logins[i] \in LoginStates /\ logins[i].user \in Requests /\ logins[i].queue \in Seq(Nat)
<1>1. logins \in Seq(LoginStates)
  BY DEF UserShapes
<1>2. i \in Nat /\ logins[i] \in LoginStates
  BY <1>1
<1> QED
  BY <1>2 DEF LoginStates

LEMMA UserShapesStep ==
  ASSUME Shapes, [Next]_vars,
         \A r \in Requests : signups[r].pc = "provisioned" => r \in Registered
  PROVE  UserShapes'
<1>1. UserShapes /\ Registered \subseteq Registered'
  BY RegisteredGrows DEF Shapes
<1>2. ASSUME UNCHANGED userVars
      PROVE  UserShapes'
  BY <1>1, <1>2 DEF UserShapes, userVars
<1>3. ASSUME NEW r \in Registered, logins' = Append(logins, Detached(r)),
             queues' = queues, recorded' = recorded
      PROVE  UserShapes'
  <2>1. r \in Requests /\ logins \in Seq(LoginStates)
    BY <1>1 DEF Registered, UserShapes
  <2>2. Detached(r) \in LoginStates /\ Detached(r).user = r
    BY <2>1, EndedState
  <2>3. logins' \in Seq(LoginStates) /\ Len(logins') = Len(logins) + 1
        /\ \A i \in 1..Len(logins) : logins'[i] = logins[i]
    BY <1>3, <2>1, <2>2
  <2>5. logins'[Len(logins) + 1] = Detached(r)
    BY <1>3, <2>1, <2>2
  <2>4. ASSUME NEW i \in 1..Len(logins')
        PROVE  logins'[i].user \in Registered'
    <3>1. CASE i = Len(logins) + 1
      <4>1. logins'[i] = Detached(r)
        BY <2>5, <3>1
      <4> QED
        BY <1>1, <2>2, <4>1
    <3>2. CASE i # Len(logins) + 1
      <4>1. i \in 1..Len(logins)
        BY <2>1, <2>3, <3>2
      <4> QED
        BY <1>1, <2>3, <4>1 DEF UserShapes
    <3> QED
      BY <3>1, <3>2
  <2> QED
    BY <1>1, <1>3, <2>3, <2>4 DEF UserShapes
<1>4. ASSUME NEW r \in Requests, MintSession(r) \/ Login(r)
      PROVE  UserShapes'
  BY <1>3, <1>4 DEF MintSession, Login
<1>5. ASSUME NEW i \in 1..Len(logins), NEW l \in LoginStates, l.user = logins[i].user,
             logins' = [logins EXCEPT ![i] = l],
             queues' \in [Requests -> Seq(Nat)], recorded' \in [Requests -> Seq(Nat)]
      PROVE  UserShapes'
  <2>1. logins \in Seq(LoginStates)
    BY <1>1 DEF UserShapes
  <2>2. logins' \in Seq(LoginStates) /\ Len(logins') = Len(logins)
    BY <1>5, <2>1
  <2>3. \A j \in 1..Len(logins) : logins'[j].user = logins[j].user
    BY <1>5, <2>1
  <2> QED
    BY <1>1, <1>5, <2>2, <2>3 DEF UserShapes
<1>6. ASSUME NEW i \in 1..Len(logins)
      PROVE  i \in Nat /\ logins[i] \in LoginStates /\ logins[i].user \in Requests /\ logins[i].queue \in Seq(Nat)
  BY <1>1, LoginShape
<1>7. ASSUME NEW i \in 1..Len(logins), LockUser(i)
      PROVE  UserShapes'
  <2> DEFINE u == logins[i].user
             q == RecordLogin(queues[u], i)
  <2>1. queues[u] \in Seq(Nat)
    BY <1>1, <1>6 DEF UserShapes
  <2>2. q \in Seq(Nat)
    BY <1>6, <2>1, PushShape, FirstOfShape DEF RecordLogin
  <2>3. [user |-> u, pc |-> "locked", queue |-> q] \in LoginStates
    BY <1>6, <2>2 DEF LoginStates
  <2> QED
    BY <1>1, <1>5, <1>7, <2>3 DEF LockUser, UserShapes
<1>8. ASSUME NEW i \in 1..Len(logins)
      PROVE  /\ [Detached(logins[i].user) EXCEPT !.pc = "ended"] \in LoginStates
             /\ [Detached(logins[i].user) EXCEPT !.pc = "ended"].user = logins[i].user
  BY <1>6, EndedState
<1>9. ASSUME NEW i \in 1..Len(logins), WriteUser(i)
      PROVE  UserShapes'
  <2> DEFINE u == logins[i].user
  <2>1. u \in Requests /\ logins[i].queue \in Seq(Nat) /\ i \in Nat /\ recorded[u] \in Seq(Nat)
    BY <1>1, <1>6 DEF UserShapes
  <2>2. <<i>> \o recorded[u] \in Seq(Nat)
    BY <2>1, PushShape
  <2>3. queues' \in [Requests -> Seq(Nat)] /\ recorded' \in [Requests -> Seq(Nat)]
    BY <1>1, <1>9, <2>1, <2>2 DEF WriteUser, UserShapes
  <2> QED
    BY <1>5, <1>8, <1>9, <2>3 DEF WriteUser
<1>10. ASSUME NEW i \in 1..Len(logins), LoginTrackFails(i)
       PROVE  UserShapes'
  BY <1>1, <1>5, <1>8, <1>10 DEF LoginTrackFails, UserShapes
<1>11. ASSUME NEW r \in Requests,
              \/ Register(r) \/ Statement(r) \/ FindTaken(r) \/ Commit(r) \/ Rollback(r) \/ FailToMint(r)
              \/ TrackStep(r) \/ TrackFails(r)
       PROVE  UserShapes'
  BY <1>2, <1>11 DEF Register, Statement, FindTaken, Commit, Rollback, FailToMint, TrackStep, CallTrack,
                     LockPool, WritePool, TrackFails, userVars
<1>12. ASSUME Tick \/ UNCHANGED vars
       PROVE  UserShapes'
  BY <1>2, <1>12 DEF Tick, vars, userVars
<1> QED
  BY <1>4, <1>7, <1>9, <1>10, <1>11, <1>12 DEF Next, SignupStep, LoginStep

-----------------------------------------------------------------------------
(* Accounts are born whole *)

None(r) == \A t \in Tables : <<t, r>> \notin rows
All(r) == \A t \in Tables : <<t, r>> \in rows

\* What there is of an account, by the state of its signup.
Whole(pc, r) ==
  /\ pc \in {"arrived", "open"} => None(r)
  /\ pc = "provisioned" => All(r)
  /\ None(r) \/ All(r)

\* The address of a signup that has inserted its user is its own.
Alone(r) ==
  signups[r].ran \geq 3 =>
    /\ ~Taken(signups[r].email)
    /\ \A q \in Requests \ {r} : signups[q].ran \geq 3 => signups[q].email # signups[r].email

Born ==
  /\ \A r \in Requests : Whole(signups[r].pc, r) /\ Alone(r)
  /\ \A q, r \in Registered : signups[q].email = signups[r].email => q = r

LEMMA RegisteredIs ==
  ASSUME Born
  PROVE  /\ \A r \in Requests : r \in Registered <=> All(r)
         /\ \A r \in Requests : signups[r].pc \in {"arrived", "open"} => r \notin Registered
         /\ \A r \in Requests : signups[r].pc = "provisioned" => r \in Registered
BY TablesAre DEF Born, Whole, None, All, Registered

\* A step of a signup that commits nothing.
LEMMA BornGoes ==
  ASSUME SignupShapes, Born, NEW r \in Requests, NEW h \in SignupStates, Goes(r, h), rows' = rows,
         Whole(h.pc, r),
         h.email = signups[r].email \/ r \notin Registered,
         h.ran \geq 3 =>
           /\ ~Taken(h.email)
           /\ \A q \in Requests \ {r} : signups[q].ran \geq 3 => signups[q].email # h.email
  PROVE  Born'
<1>1. /\ signups'[r] = h /\ \A q \in Requests : q # r => signups'[q] = signups[q]
      /\ Registered' = Registered
  BY DEF Goes, SignupShapes, Registered
<1>2. \A q \in Registered : q \in Requests /\ signups'[q].email = signups[q].email
  BY <1>1 DEF Registered
<1>3. \A email : Taken(email)' <=> Taken(email)
  BY <1>1, <1>2 DEF Taken
<1>4. \A q, p \in Registered' : signups'[q].email = signups'[p].email => q = p
  BY <1>1, <1>2 DEF Born
<1>5. ASSUME NEW q \in Requests
      PROVE  Whole(signups[q].pc, q)'
  BY <1>1 DEF Born, Whole, None, All
<1>6. ASSUME NEW q \in Requests
      PROVE  Alone(q)'
  BY <1>1, <1>3 DEF Born, Alone
<1> QED
  BY <1>4, <1>5, <1>6 DEF Born

LEMMA BornCommit ==
  ASSUME SignupShapes, Born, NEW r \in Requests, Commit(r)
  PROVE  Born' /\ Registered' = Registered \union {r} /\ r \notin Registered
<1> DEFINE h == [signups[r] EXCEPT !.pc = "provisioned", !.ran = 0]
<1>1. signups[r] \in SignupStates /\ signups[r].ran = 6 /\ signups[r].pc = "open"
  BY StatementsAre DEF Commit, SignupShapes
<1>2. h \in SignupStates /\ h.pc = "provisioned" /\ h.email = signups[r].email /\ h.ran = 0
  BY <1>1, ProvisionedState
<1> HIDE DEF h
<1>3. Goes(r, h)
  BY DEF Commit, h
<1>4. /\ signups'[r] = h /\ \A q \in Requests : q # r => signups'[q] = signups[q]
  BY <1>3 DEF Goes, SignupShapes
<1>5. rows' = rows \union {<<t, r>> : t \in Tables}
  BY <1>1, RanIs DEF Commit, Written
<1>6. \A q \in Requests, t \in Tables : <<t, q>> \in rows' <=> <<t, q>> \in rows \/ q = r
  BY <1>5
<1>7. r \notin Registered
  BY <1>1, RegisteredIs
<1>8. Registered' = Registered \union {r}
  BY <1>6, TablesAre DEF Registered
<1>9. ASSUME NEW q \in Requests
      PROVE  Whole(signups[q].pc, q)'
  <2>1. CASE q = r
    BY <1>2, <1>4, <1>6, <2>1 DEF Whole, None, All
  <2>2. CASE q # r
    BY <1>4, <1>6, <2>2 DEF Born, Whole, None, All
  <2> QED
    BY <2>1, <2>2
<1>10. \A q \in Requests : signups'[q].email = signups[q].email
  BY <1>2, <1>4
<1>11. Alone(r) /\ \A q \in Registered : signups[q].email # signups[r].email
  BY <1>1 DEF Born, Alone, Taken
<1>12. ASSUME NEW q \in Requests, q # r, signups[q].ran \geq 3
       PROVE  ~Taken(signups[q].email)'
  <2>1. signups[q].email # signups[r].email /\ ~Taken(signups[q].email)
    BY <1>1, <1>11, <1>12 DEF Born, Alone
  <2> QED
    BY <1>8, <1>10, <2>1 DEF Taken, Registered
<1>13. ASSUME NEW q \in Requests
       PROVE  Alone(q)'
  <2>1. CASE q = r
    BY <1>2, <1>4, <2>1 DEF Alone
  <2>2. CASE q # r
    <3>1. signups'[q] = signups[q] /\ Alone(q)
      BY <1>4, <2>2 DEF Born
    <3>2. \A p \in Requests : signups'[p].ran \geq 3 => signups[p].ran \geq 3
      BY <1>2, <1>4
    <3> QED
      BY <1>10, <1>12, <2>2, <3>1, <3>2 DEF Alone
  <2> QED
    BY <2>1, <2>2
<1>14. \A q, p \in Registered' : signups'[q].email = signups'[p].email => q = p
  BY <1>8, <1>10, <1>11 DEF Born, Registered
<1> QED
  BY <1>7, <1>8, <1>9, <1>13, <1>14 DEF Born

LEMMA StatementEffect ==
  ASSUME SignupShapes, NEW r \in Requests, Statement(r)
  PROVE  /\ signups[r].pc = "open" /\ signups[r].ran \in 0..5
         /\ Free(<<"signup", r>>) /\ (signups[r].ran = 2 => ~Taken(signups[r].email))
         /\ rows' = rows /\ usersCount' = usersCount
         /\ \E h \in SignupStates :
              /\ Goes(r, h) /\ h.pc = "open" /\ h.email = signups[r].email /\ h.ran = signups[r].ran + 1
              /\ h.count = IF signups[r].ran = 5 THEN usersCount + 1 ELSE signups[r].count
<1>1. signups[r] \in SignupStates /\ signups[r].ran \in 0..6 /\ usersCount \in Nat
  BY ShapesRan DEF SignupShapes, RanTyped
<1>2. /\ signups[r].pc = "open" /\ signups[r].ran \in 0..5
      /\ Runs(r) = {"users"} <=> signups[r].ran = 2
      /\ Runs(r) = {"users_count"} <=> signups[r].ran = 5
  BY <1>1, RunsIs DEF Statement
<1>3. PICK n \in 0..6 : n = signups[r].ran + 1
  BY <1>2
<1>4. PICK c \in Nat : c = IF Runs(r) = {"users_count"} THEN usersCount + 1 ELSE signups[r].count
  BY <1>1 DEF SignupStates
<1>5. Goes(r, [signups[r] EXCEPT !.ran = n, !.count = c])
  BY <1>3, <1>4 DEF Statement
<1> DEFINE h == [signups[r] EXCEPT !.ran = n, !.count = c]
<1>6. h \in SignupStates /\ h.pc = "open" /\ h.email = signups[r].email /\ h.ran = n /\ h.count = c
  <2> DEFINE s == signups[r]
  <2>1. s \in SignupStates /\ s.pc = "open"
    BY <1>1, <1>2
  <2> HIDE DEF s
  <2>2. LET t == [s EXCEPT !.ran = n, !.count = c]
        IN  t \in SignupStates /\ t.pc = s.pc /\ t.email = s.email /\ t.ran = n /\ t.count = c
    BY <2>1 DEF SignupStates
  <2> QED
    BY <2>1, <2>2 DEF s
<1>7. c = IF signups[r].ran = 5 THEN usersCount + 1 ELSE signups[r].count
  BY <1>2, <1>4
<1>8. Goes(r, h)
  BY <1>5
<1> HIDE DEF h
<1>9. /\ Free(<<"signup", r>>) /\ (signups[r].ran = 2 => ~Taken(signups[r].email))
      /\ rows' = rows /\ usersCount' = usersCount
  BY <1>2 DEF Statement
<1> QED
  BY <1>2, <1>3, <1>6, <1>7, <1>8, <1>9

LEMMA BornStatement ==
  ASSUME SignupShapes, Born, NEW r \in Requests, Statement(r)
  PROVE  Born'
<1>1. /\ signups[r].pc = "open" /\ signups[r].ran \in 0..5 /\ RanTyped
      /\ Free(<<"signup", r>>) /\ (signups[r].ran = 2 => ~Taken(signups[r].email)) /\ rows' = rows
  BY StatementEffect, ShapesRan
<1>2. PICK h \in SignupStates :
        Goes(r, h) /\ h.pc = "open" /\ h.email = signups[r].email /\ h.ran = signups[r].ran + 1
  BY StatementEffect
<1>3. Whole("open", r) /\ Alone(r)
  BY <1>1 DEF Born
<1>4. ASSUME h.ran \geq 3
      PROVE  /\ ~Taken(signups[r].email)
             /\ \A q \in Requests \ {r} : signups[q].ran \geq 3 => signups[q].email # signups[r].email
  <2>1. CASE signups[r].ran \geq 3
    BY <1>3, <2>1 DEF Alone
  <2>2. CASE signups[r].ran = 2
    <3>1. ASSUME NEW q \in Requests, q # r, signups[q].ran \geq 3
          PROVE  signups[q].email # signups[r].email
      <4>1. ~Blocks(<<"signup", q>>, <<"signup", r>>)
        BY <1>1 DEF Free, Transactions
      <4>2. ~SameAddress(q, r)
        BY <3>1, <4>1 DEF Blocks
      <4>3. "users" \in Ran(q) /\ "users" \in Runs(r)
        BY <1>1, <2>2, <3>1, RanIs, RunsIs DEF RanTyped
      <4> QED
        BY <4>2, <4>3 DEF SameAddress
    <3> QED
      BY <1>1, <2>2, <3>1
  <2> QED
    BY <1>1, <1>2, <1>4, <2>1, <2>2
<1> QED
  BY <1>1, <1>2, <1>3, <1>4, BornGoes

LEMMA BornStep ==
  ASSUME SignupShapes, Born, [Next]_vars
  PROVE  Born'
<1>1. ASSUME signups' = signups, rows' = rows
      PROVE  Born'
  BY <1>1 DEF Born, Whole, None, All, Alone, Taken, Registered
<1>2. ASSUME NEW r \in Requests, Register(r)
      PROVE  Born'
  <2>1. PICK email \in Asked[r] : Goes(r, [Idle EXCEPT !.pc = "open", !.email = email])
    BY <1>2 DEF Register
  <2> DEFINE h == [Idle EXCEPT !.pc = "open", !.email = email]
  <2>2. h \in SignupStates /\ h.pc = "open" /\ h.ran = Idle.ran
    BY AskedAssumption, AnsweredState, OpenState
  <2>3. Idle.ran = 0
    BY DEF Idle
  <2> HIDE DEF h
  <2>4. None(r) /\ r \notin Registered /\ Goes(r, h) /\ rows' = rows
    BY <1>2, <2>1, RegisteredIs DEF Register, Born, Whole, h
  <2>5. Whole(h.pc, r)
    BY <2>2, <2>4 DEF Whole
  <2> QED
    BY <2>2, <2>3, <2>4, <2>5, BornGoes
<1>3. ASSUME NEW r \in Requests, FindTaken(r) \/ Rollback(r)
      PROVE  Born'
  <2>1. signups[r].pc \in {"arrived", "open"}
    BY <1>3, ShapesRan, RunsIs DEF FindTaken, Rollback, RanTyped
  <2>2. None(r) /\ r \notin Registered /\ Goes(r, Answered) /\ rows' = rows
    BY <1>3, <2>1, RegisteredIs DEF FindTaken, Rollback, Born, Whole
  <2>3. Whole(Answered.pc, r) /\ Answered.ran = 0
    BY <2>2, AnsweredState DEF Whole, Answered, Idle
  <2> QED
    BY <2>2, <2>3, AnsweredState, BornGoes
<1>4. ASSUME NEW r \in Requests, MintSession(r) \/ FailToMint(r)
      PROVE  Born'
  <2> DEFINE h == [signups[r] EXCEPT !.pc = "answered"]
  <2>1. h \in SignupStates /\ h.pc = "answered" /\ h.email = signups[r].email /\ h.ran = signups[r].ran
    BY MintedState DEF SignupShapes
  <2> HIDE DEF h
  <2>2. Goes(r, h) /\ rows' = rows /\ Alone(r) /\ All(r)
    BY <1>4 DEF MintSession, FailToMint, Born, Whole, h
  <2>3. Whole(h.pc, r)
    BY <2>1, <2>2 DEF Whole
  <2> QED
    BY <2>1, <2>2, <2>3, BornGoes DEF Alone
<1>5. ASSUME NEW r \in Requests, Login(r) \/ TrackStep(r) \/ TrackFails(r)
      PROVE  Born'
  BY <1>1, <1>5 DEF Login, TrackStep, CallTrack, LockPool, WritePool, TrackFails
<1>6. ASSUME NEW i \in 1..Len(logins), LoginStep(i) \/ LoginTrackFails(i)
      PROVE  Born'
  BY <1>1, <1>6 DEF LoginStep, LockUser, WriteUser, LoginTrackFails
<1>7. ASSUME Tick \/ UNCHANGED vars
      PROVE  Born'
  BY <1>1, <1>7 DEF Tick, vars
<1> QED
  BY <1>2, <1>3, <1>4, <1>5, <1>6, <1>7, BornCommit, BornStatement DEF Next, SignupStep

LEMMA BornInit == Init => Born
BY DEF Init, Born, Whole, None, All, Alone, Taken, Registered, Idle

-----------------------------------------------------------------------------
(* The count of the pool *)

\* The one signup that has counted itself has counted from what is there.
Counting ==
  /\ \A r \in Requests : signups[r].ran = 6 => signups[r].count = usersCount + 1
  /\ \A q, r \in Requests : signups[q].ran = 6 /\ signups[r].ran = 6 => q = r
  /\ IsFiniteSet(Registered) /\ usersCount = Cardinality(Registered)

LEMMA CountingStep ==
  ASSUME SignupShapes, Born, Counting, [Next]_vars
  PROVE  Counting'
<1>1. ASSUME signups' = signups, rows' = rows, usersCount' = usersCount
      PROVE  Counting'
  BY <1>1 DEF Counting, Registered
<1>2. ASSUME NEW r \in Requests, NEW h \in SignupStates, Goes(r, h), rows' = rows,
             usersCount' = usersCount, h.ran # 6
      PROVE  Counting'
  BY <1>2 DEF Counting, Registered, Goes, SignupShapes
<1>3. ASSUME NEW r \in Requests, Statement(r)
      PROVE  Counting'
  <2>1. /\ signups[r].pc = "open" /\ signups[r].ran \in 0..5 /\ RanTyped
        /\ Free(<<"signup", r>>) /\ rows' = rows /\ usersCount' = usersCount
    BY <1>3, StatementEffect, ShapesRan
  <2>2. PICK h \in SignupStates :
          /\ Goes(r, h) /\ h.ran = signups[r].ran + 1
          /\ h.count = IF signups[r].ran = 5 THEN usersCount + 1 ELSE signups[r].count
    BY <1>3, StatementEffect
  <2>3. CASE signups[r].ran = 5
    <3>1. "NO KEY UPDATE" \in Wants(<<"signup", r>>)
      <4>1. signups[r].ran \in 0..6
        BY <2>3
      <4> QED
        BY <2>1, <2>3, <4>1, SignupLocks
    <3>2. ASSUME NEW q \in Requests, signups[q].ran = 6
          PROVE  FALSE
      <4>1. signups[q].ran \in 0..6 /\ q # r
        BY <2>3, <3>2
      <4>2. "NO KEY UPDATE" \in Holds(<<"signup", q>>)
        BY <3>2, <4>1, SignupLocks
      <4>3. Blocks(<<"signup", q>>, <<"signup", r>>)
        BY <3>1, <4>1, <4>2 DEF Blocks, Conflicts
      <4> QED
        BY <2>1, <4>3 DEF Free, Transactions
    <3>3. h.ran = 6 /\ h.count = usersCount + 1
      BY <2>2, <2>3
    <3>4. /\ signups'[r] = h /\ \A q \in Requests : q # r => signups'[q] = signups[q]
          /\ usersCount' = usersCount /\ Registered' = Registered
      BY <2>1, <2>2 DEF Goes, SignupShapes, Registered
    <3> QED
      BY <3>2, <3>3, <3>4 DEF Counting
  <2>4. CASE signups[r].ran # 5
    BY <1>2, <2>1, <2>2, <2>4
  <2> QED
    BY <2>3, <2>4
<1>4. ASSUME NEW r \in Requests, Commit(r)
      PROVE  Counting'
  <2> DEFINE h == [signups[r] EXCEPT !.pc = "provisioned", !.ran = 0]
  <2>1. signups[r] \in SignupStates /\ signups[r].ran = 6
    BY <1>4, StatementsAre DEF Commit, SignupShapes
  <2>2. h.ran = 0
    BY <2>1, ProvisionedState
  <2> HIDE DEF h
  <2>3. Goes(r, h)
    BY <1>4 DEF Commit, h
  <2>4. \A q \in Requests : signups'[q].ran # 6
    BY <2>1, <2>2, <2>3 DEF Goes, SignupShapes, Counting
  <2>5. usersCount' = usersCount + 1
    BY <1>4, <2>1 DEF Commit, Counting
  <2>6. Registered' = Registered \union {r} /\ r \notin Registered
    BY <1>4, BornCommit
  <2>7. IsFiniteSet(Registered') /\ Cardinality(Registered') = Cardinality(Registered) + 1
    BY <2>6, FS_AddElement DEF Counting
  <2> QED
    BY <2>4, <2>5, <2>7 DEF Counting
<1>5. ASSUME NEW r \in Requests, Register(r)
      PROVE  Counting'
  <2>1. PICK email \in Asked[r] : Goes(r, [Idle EXCEPT !.pc = "open", !.email = email])
    BY <1>5 DEF Register
  <2> DEFINE h == [Idle EXCEPT !.pc = "open", !.email = email]
  <2>2. h \in SignupStates /\ h.ran = 0
    BY AskedAssumption, AnsweredState, OpenState DEF Idle
  <2>3. Goes(r, h) /\ rows' = rows /\ usersCount' = usersCount
    BY <1>5, <2>1 DEF Register
  <2> HIDE DEF h
  <2> QED
    BY <1>2, <2>2, <2>3
<1>6. ASSUME NEW r \in Requests, FindTaken(r) \/ Rollback(r)
      PROVE  Counting'
  <2>1. Answered.ran = 0
    BY DEF Answered, Idle
  <2> QED
    BY <1>2, <1>6, <2>1, AnsweredState DEF FindTaken, Rollback
<1>7. ASSUME NEW r \in Requests, MintSession(r) \/ FailToMint(r)
      PROVE  Counting'
  <2> DEFINE h == [signups[r] EXCEPT !.pc = "answered"]
  <2>1. h.ran = signups[r].ran /\ h.count = signups[r].count
    BY DEF SignupShapes, SignupStates
  <2> HIDE DEF h
  <2>2. Goes(r, h) /\ rows' = rows /\ usersCount' = usersCount
    BY <1>7 DEF MintSession, FailToMint, h
  <2> QED
    BY <2>1, <2>2 DEF Counting, Registered, Goes, SignupShapes
<1>8. ASSUME NEW r \in Requests, Login(r) \/ TrackStep(r) \/ TrackFails(r)
      PROVE  Counting'
  BY <1>1, <1>8 DEF Login, TrackStep, CallTrack, LockPool, WritePool, TrackFails
<1>9. ASSUME NEW i \in 1..Len(logins), LoginStep(i) \/ LoginTrackFails(i)
      PROVE  Counting'
  BY <1>1, <1>9 DEF LoginStep, LockUser, WriteUser, LoginTrackFails
<1>10. ASSUME Tick \/ UNCHANGED vars
       PROVE  Counting'
  BY <1>1, <1>10 DEF Tick, vars
<1> QED
  BY <1>3, <1>4, <1>5, <1>6, <1>7, <1>8, <1>9, <1>10 DEF Next, SignupStep

LEMMA CountingInit == Init => Counting
<1> SUFFICES ASSUME Init PROVE Counting
  OBVIOUS
<1>1. Registered = {} /\ \A r \in Requests : signups[r].ran = 0
  BY DEF Init, Registered, Idle
<1> QED
  BY <1>1, FS_EmptySet DEF Init, Counting

-----------------------------------------------------------------------------
(* The theorems *)

LEMMA ShapesInit == Init => Shapes
<1> SUFFICES ASSUME Init PROVE Shapes
  OBVIOUS
<1>1. SignupShapes
  <2>1. rows = {} /\ usersCount = 0 /\ signups = [r \in Requests |-> Idle]
    BY DEF Init
  <2> QED
    BY <2>1, AnsweredState DEF SignupShapes
<1>2. PoolShapes
  <2>1. IsDocument(tracking)
    BY DEF Init, IsDocument
  <2>2. \A r \in Requests : IsTrack(tracks[r])
    BY DEF Init, IsTrack
  <2> QED
    BY <2>1, <2>2, BoundsAssumption DEF Init, PoolShapes, Periods
<1>3. UserShapes
  BY DEF Init, UserShapes
<1> QED
  BY <1>1, <1>2, <1>3 DEF Shapes

\* What every state keeps.
Accounts == Shapes /\ Born /\ Counting

LEMMA AccountsStep == Accounts /\ [Next]_vars => Accounts'
<1> SUFFICES ASSUME Accounts, [Next]_vars PROVE Accounts'
  OBVIOUS
<1>1. Shapes /\ Born /\ Counting /\ SignupShapes
  BY DEF Accounts, Shapes
<1>2. \A r \in Requests : signups[r].pc = "provisioned" => r \in Registered
  BY <1>1, RegisteredIs DEF Born, Whole
<1>3. Shapes'
  BY <1>1, <1>2, SignupShapesStep, PoolShapesStep, UserShapesStep DEF Shapes
<1>4. Born' /\ Counting'
  BY <1>1, BornStep, CountingStep
<1> QED
  BY <1>3, <1>4 DEF Accounts

LEMMA AccountsKept == Spec => []Accounts
<1>1. Init => Accounts
  BY ShapesInit, BornInit, CountingInit DEF Accounts
<1> QED
  BY <1>1, AccountsStep, PTL DEF Spec

LEMMA AccountsCounted == Accounts => CountMatches
BY DEF Accounts, Counting, CountMatches

\* users_count is the number of accounts committed into the pool (IncrementUsersCount
\* under the lock of the row), for any number of signups at once.
THEOREM PoolCountsItsUsers == Spec => []CountMatches
BY AccountsCounted, AccountsKept, PTL

\* An account is there with all of its rows or not at all, no address has two, and the
\* pool has counted it (ProvisionUser and the transaction around it), for any number of
\* signups.
THEOREM AllOrNothing == Spec => []BornWhole
<1>1. Accounts => BornWhole
  <2> SUFFICES ASSUME Accounts PROVE BornWhole
    OBVIOUS
  <2>1. \A r \in Requests : None(r) \/ All(r)
    BY DEF Accounts, Born, Whole
  <2>2. ASSUME NEW r \in Requests
        PROVE  {t \in Tables : <<t, r>> \in rows} \in {{}, Tables}
    BY <2>1 DEF None, All
  <2>3. ASSUME NEW q \in Registered, NEW r \in Registered, signups[q].email = signups[r].email
        PROVE  q = r
    BY <2>3 DEF Accounts, Born, Alone, Registered
  <2> QED
    BY <2>2, <2>3, AccountsCounted DEF BornWhole
<1> QED
  BY <1>1, AccountsKept, PTL

-----------------------------------------------------------------------------
(* Somebody can go on *)

\* A signup has run statements only in its transaction.
OnlyOpenRan == \A r \in Requests : signups[r].pc # "open" => signups[r].ran = 0

LEMMA OnlyOpenRanStep == SignupShapes /\ OnlyOpenRan /\ [Next]_vars => OnlyOpenRan'
<1> SUFFICES ASSUME SignupShapes, OnlyOpenRan, [Next]_vars PROVE OnlyOpenRan'
  OBVIOUS
<1>0. signups \in [Requests -> SignupStates]
  BY DEF SignupShapes
<1>1. ASSUME NEW r \in Requests, NEW h, Goes(r, h), h.pc # "open" => h.ran = 0
      PROVE  OnlyOpenRan'
  BY <1>0, <1>1 DEF OnlyOpenRan, Goes
<1>2. ASSUME NEW r \in Requests, Register(r) PROVE OnlyOpenRan'
  BY <1>1, <1>2 DEF Register, Idle
<1>3. ASSUME NEW r \in Requests, Statement(r) PROVE OnlyOpenRan'
  <2>1. signups[r].pc = "open"
    BY <1>3 DEF Statement, Runs
  <2> DEFINE h == [signups[r] EXCEPT !.ran = @ + 1,
                                     !.count = IF Runs(r) = {"users_count"} THEN usersCount + 1 ELSE @]
  <2>2. h.pc = "open"
    BY <1>0, <2>1 DEF SignupStates
  <2>3. Goes(r, h)
    BY <1>3 DEF Statement
  <2> QED
    BY <1>1, <2>2, <2>3
<1>4. ASSUME NEW r \in Requests, FindTaken(r) \/ Rollback(r) PROVE OnlyOpenRan'
  <2>1. Answered.ran = 0
    BY DEF Answered, Idle
  <2> QED
    BY <1>1, <1>4, <2>1 DEF FindTaken, Rollback
<1>5. ASSUME NEW r \in Requests, Commit(r) PROVE OnlyOpenRan'
  <2> DEFINE h == [signups[r] EXCEPT !.pc = "provisioned", !.ran = 0]
  <2>1. h.ran = 0
    BY <1>0 DEF SignupStates
  <2>2. Goes(r, h)
    BY <1>5 DEF Commit
  <2> QED
    BY <1>1, <2>1, <2>2
<1>6. ASSUME NEW r \in Requests, MintSession(r) \/ FailToMint(r) PROVE OnlyOpenRan'
  <2> DEFINE h == [signups[r] EXCEPT !.pc = "answered"]
  <2>1. signups[r].ran = 0
    BY <1>6 DEF OnlyOpenRan, MintSession, FailToMint
  <2>2. h.ran = 0
    BY <1>0, <2>1 DEF SignupStates
  <2>3. Goes(r, h)
    BY <1>6 DEF MintSession, FailToMint
  <2> QED
    BY <1>1, <2>2, <2>3
<1>7. signups' = signups => OnlyOpenRan'
  BY DEF OnlyOpenRan
<1>8. ASSUME NEW r \in Requests, TrackStep(r) \/ TrackFails(r) \/ Login(r)
      PROVE  signups' = signups
  BY <1>8 DEF TrackStep, CallTrack, LockPool, WritePool, TrackFails, Login
<1>9. ASSUME NEW i \in 1..Len(logins), LoginStep(i) \/ LoginTrackFails(i)
      PROVE  signups' = signups
  BY <1>9 DEF LoginStep, LockUser, WriteUser, LoginTrackFails
<1>10. Tick \/ UNCHANGED vars => signups' = signups
  BY DEF Tick, vars
<1> QED
  BY <1>2, <1>3, <1>4, <1>5, <1>6, <1>7, <1>8, <1>9, <1>10 DEF Next, SignupStep

\* What has ended holds no lock and no address.
LEMMA OnlyUnfinishedBlock ==
  ASSUME SignupShapes, OnlyOpenRan, NEW s \in Transactions, NEW t, Blocks(s, t)
  PROVE  s \in Unfinished
<1>1. CASE \E r \in Requests : s = <<"signup", r>>
  <2>1. PICK r \in Requests : s = <<"signup", r>>
    BY <1>1
  <2>2. Ran(r) # {}
    BY <2>1 DEF Blocks, Holds, SameAddress
  <2>3. signups[r].ran # 0
    BY <2>2, StatementsAre DEF Ran
  <2> QED
    BY <2>1, <2>3 DEF OnlyOpenRan, Unfinished
<1>2. CASE \E r \in Requests : s = <<"track", r>>
  <2>1. PICK r \in Requests : s = <<"track", r>>
    BY <1>2
  <2>2. Holds(s) # {}
    BY <2>1 DEF Blocks
  <2> QED
    BY <2>1, <2>2, TrackLocks DEF Unfinished
<1> QED
  BY <1>1, <1>2, TransactionsAre

\* In the order ProvisionUser writes its tables and Track locks its row, no set of
\* signups and goroutines ever waits in a circle, and as long as there are any left
\* one of them waits for nobody: the safety half of TransactionsEnd.
THEOREM NoDeadlock == Spec => []NoCircleOfWaits
<1>1. ASSUME Accounts, OnlyOpenRan PROVE NoCircleOfWaits
  <2>1. SignupShapes /\ RanTyped
    BY <1>1, ShapesRan DEF Accounts, Shapes
  <2>2. ASSUME Unfinished # {} PROVE \E t \in Unfinished : Free(t)
    <3>1. Unfinished \in (SUBSET Transactions) \ {{}}
      BY <2>2 DEF Unfinished
    <3>2. PICK t \in Unfinished : \A s \in Unfinished : ~Blocks(s, t)
      BY <2>1, <3>1, NobodyWaitsForever
    <3>3. ASSUME NEW s \in Transactions PROVE ~Blocks(s, t)
      BY <1>1, <2>1, <3>2, OnlyUnfinishedBlock
    <3> QED
      BY <3>3 DEF Free
  <2> QED
    BY <2>1, <2>2, NobodyWaitsForever DEF NoCircleOfWaits
<1>2. Init => OnlyOpenRan
  BY DEF Init, OnlyOpenRan, Idle
<1>3. Accounts => SignupShapes
  BY DEF Accounts, Shapes
<1> QED
  BY <1>1, <1>2, <1>3, OnlyOpenRanStep, AccountsKept, PTL DEF Spec

-----------------------------------------------------------------------------
(* Whoever goes on comes closer to its end *)

SignupRank == [arrived |-> 0, open |-> 1, provisioned |-> 8, answered |-> 9]
TrackRank == [none |-> 0, detached |-> 1, called |-> 2, locked |-> 3, ended |-> 4]

\* How far a signup has come, and the goroutine that tracks it.
SignupStage(h) == SignupRank[h.pc] + h.ran
TrackStage(t) == TrackRank[t.pc]

\* Nobody falls back, and each step of a transaction takes it further.
Advance ==
  \A r \in Requests :
    /\ SignupStage(signups'[r]) \geq SignupStage(signups[r])
    /\ TrackStage(tracks'[r]) \geq TrackStage(tracks[r])
    /\ SignupStep(r) => SignupStage(signups'[r]) > SignupStage(signups[r])
    /\ TrackStep(r) => TrackStage(tracks'[r]) > TrackStage(tracks[r])

\* What has not committed is not tracked.
TrackedLater == \A r \in Requests : signups[r].pc \in {"arrived", "open"} => tracks[r].pc = "none"

LEMMA StagesAre ==
  ASSUME SignupShapes, PoolShapes, OnlyOpenRan, NEW r \in Requests
  PROVE  /\ signups[r] \in SignupStates /\ signups[r].ran \in 0..6
         /\ signups[r].pc = "arrived" => SignupStage(signups[r]) = 0
         /\ signups[r].pc = "open" => SignupStage(signups[r]) = 1 + signups[r].ran
         /\ signups[r].pc = "provisioned" => SignupStage(signups[r]) = 8
         /\ signups[r].pc = "answered" => SignupStage(signups[r]) = 9
         /\ SignupStage(signups[r]) \in 0..9
         /\ TrackStage(tracks[r]) \in 0..4
<1>1. /\ signups[r] \in SignupStates /\ signups[r].ran \in 0..6
      /\ signups[r].pc \in {"arrived", "open", "provisioned", "answered"}
      /\ signups[r].pc # "open" => signups[r].ran = 0
  BY StatementsAre DEF SignupShapes, SignupStates, OnlyOpenRan
<1>2. tracks[r].pc \in {"none", "detached", "called", "locked", "ended"}
  BY DEF PoolShapes, IsTrack
<1>3. TrackStage(tracks[r]) \in 0..4
  BY <1>2 DEF TrackStage, TrackRank
<1> QED
  BY <1>1, <1>3 DEF SignupStage, SignupRank

\* The signup comes to h, further than it was; it is tracked once it is committed.
SignupMoves(r, h) ==
  /\ Goes(r, h) /\ SignupStage(h) \in (SignupStage(signups[r]) + 1)..9
  /\ \/ tracks' = tracks /\ (h.pc \in {"arrived", "open"} => signups[r].pc \in {"arrived", "open"})
     \/ /\ tracks' = [tracks EXCEPT ![r] = [pc |-> "detached"]]
        /\ signups[r].pc = "open" /\ h.pc = "provisioned"

LEMMA SignupForward ==
  ASSUME SignupShapes, PoolShapes, OnlyOpenRan, NEW r \in Requests,
         SignupStep(r) \/ Rollback(r) \/ FailToMint(r)
  PROVE  \E h : SignupMoves(r, h)
<1>1. CASE Register(r)
  <2>1. PICK email \in Asked[r] : Goes(r, [Idle EXCEPT !.pc = "open", !.email = email])
    BY <1>1 DEF Register
  <2> DEFINE h == [Idle EXCEPT !.pc = "open", !.email = email]
  <2>2. h.pc = "open" /\ h.ran = 0 /\ SignupStage(h) = 1
    BY DEF Idle, SignupStage, SignupRank
  <2>3. SignupStage(signups[r]) = 0 /\ signups[r].pc = "arrived" /\ tracks' = tracks
    BY <1>1, StagesAre DEF Register
  <2> HIDE DEF h
  <2> QED
    BY <2>1, <2>2, <2>3 DEF SignupMoves, h
<1>2. CASE Statement(r)
  <2> DEFINE h == [signups[r] EXCEPT !.ran = @ + 1,
                                     !.count = IF Runs(r) = {"users_count"} THEN usersCount + 1 ELSE @]
  <2>1. signups[r].pc = "open" /\ tracks' = tracks /\ Goes(r, h)
    BY <1>2 DEF Statement, Runs
  <2>2. h.pc = "open" /\ h.ran = signups[r].ran + 1
    BY <2>1, StagesAre DEF SignupStates
  <2> HIDE DEF h
  <2>3. SignupStage(h) = 1 + h.ran
    BY <2>2 DEF SignupStage, SignupRank
  <2>4. SignupStage(signups[r]) = 1 + signups[r].ran /\ signups[r].ran \in 0..6
    BY <2>1, StagesAre
  <2> QED
    BY <2>1, <2>2, <2>3, <2>4 DEF SignupMoves
<1>3. CASE FindTaken(r) \/ Rollback(r)
  <2>1. signups[r].pc \in {"arrived", "open"} /\ tracks' = tracks /\ Goes(r, Answered)
    BY <1>3 DEF FindTaken, Rollback, Runs
  <2>2. Answered.pc = "answered" /\ SignupStage(Answered) = 9
    BY DEF Answered, Idle, SignupStage, SignupRank
  <2>3. SignupStage(signups[r]) \in 0..7
    BY <2>1, StagesAre
  <2>4. SignupMoves(r, Answered)
    BY <2>1, <2>2, <2>3 DEF SignupMoves
  <2> QED
    BY <2>4
<1>4. CASE Commit(r)
  <2> DEFINE h == [signups[r] EXCEPT !.pc = "provisioned", !.ran = 0]
  <2>1. /\ signups[r].pc = "open" /\ Goes(r, h)
        /\ tracks' = [tracks EXCEPT ![r] = [pc |-> "detached"]]
    BY <1>4 DEF Commit
  <2>2. h.pc = "provisioned" /\ h.ran = 0
    BY StagesAre DEF SignupStates
  <2> HIDE DEF h
  <2>3. SignupStage(h) = 8
    BY <2>2 DEF SignupStage, SignupRank
  <2>4. SignupStage(signups[r]) \in 0..7
    BY <2>1, StagesAre
  <2> QED
    BY <2>1, <2>2, <2>3, <2>4 DEF SignupMoves
<1>5. CASE MintSession(r) \/ FailToMint(r)
  <2> DEFINE h == [signups[r] EXCEPT !.pc = "answered"]
  <2>1. signups[r].pc = "provisioned" /\ Goes(r, h) /\ tracks' = tracks
    BY <1>5 DEF MintSession, FailToMint
  <2>2. h.pc = "answered" /\ h.ran = 0
    BY <2>1, StagesAre DEF SignupStates, OnlyOpenRan
  <2> HIDE DEF h
  <2>3. SignupStage(h) = 9 /\ SignupStage(signups[r]) = 8
    BY <2>1, <2>2, StagesAre DEF SignupStage, SignupRank
  <2> QED
    BY <2>1, <2>2, <2>3 DEF SignupMoves
<1> QED
  BY <1>1, <1>2, <1>3, <1>4, <1>5 DEF SignupStep

LEMMA TrackForward ==
  ASSUME NEW r \in Requests, TrackStep(r) \/ TrackFails(r)
  PROVE  /\ signups' = signups /\ tracks[r].pc \in {"detached", "called", "locked"}
         /\ \E t : tracks' = [tracks EXCEPT ![r] = t] /\ TrackStage(t) \in (TrackStage(tracks[r]) + 1)..4
<1>1. /\ TrackRank["detached"] = 1 /\ TrackRank["called"] = 2
      /\ TrackRank["locked"] = 3 /\ TrackRank["ended"] = 4
  BY DEF TrackRank
<1>2. CASE CallTrack(r)
  <2>1. PICK t : t = [pc |-> "called", at |-> period]
    OBVIOUS
  <2>2. /\ tracks' = [tracks EXCEPT ![r] = t] /\ t.pc = "called"
        /\ signups' = signups /\ tracks[r].pc = "detached"
    BY <1>2, <2>1 DEF CallTrack
  <2>3. TrackStage(t) = 2 /\ TrackStage(tracks[r]) = 1
    BY <1>1, <2>2 DEF TrackStage
  <2>4. TrackStage(t) \in (TrackStage(tracks[r]) + 1)..4
    BY <2>3
  <2> QED
    BY <2>2, <2>4, Zenon
<1>3. CASE LockPool(r)
  <2>1. PICK t : t = [pc |-> "locked", at |-> tracks[r].at, document |-> RecordSignup(tracking, tracks[r].at)]
    OBVIOUS
  <2>2. /\ tracks' = [tracks EXCEPT ![r] = t] /\ t.pc = "locked"
        /\ signups' = signups /\ tracks[r].pc = "called"
    BY <1>3, <2>1 DEF LockPool
  <2>3. TrackStage(t) = 3 /\ TrackStage(tracks[r]) = 2
    BY <1>1, <2>2 DEF TrackStage
  <2>4. TrackStage(t) \in (TrackStage(tracks[r]) + 1)..4
    BY <2>3
  <2> QED
    BY <2>2, <2>4, Zenon
<1>4. CASE WritePool(r) \/ TrackFails(r)
  <2>1. PICK t : t = [pc |-> "ended"]
    OBVIOUS
  <2>2. /\ tracks' = [tracks EXCEPT ![r] = t] /\ t.pc = "ended"
        /\ signups' = signups /\ tracks[r].pc \in {"detached", "called", "locked"}
    BY <1>4, <2>1 DEF WritePool, TrackFails
  <2>3. TrackStage(t) = 4 /\ TrackStage(tracks[r]) \in 1..3
    BY <1>1, <2>2 DEF TrackStage
  <2>4. TrackStage(t) \in (TrackStage(tracks[r]) + 1)..4
    BY <2>3
  <2> QED
    BY <2>2, <2>4, Zenon
<1> QED
  BY <1>2, <1>3, <1>4 DEF TrackStep

LEMMA AdvanceStep ==
  ASSUME SignupShapes, PoolShapes, OnlyOpenRan, TrackedLater, [Next]_vars
  PROVE  Advance /\ TrackedLater'
<1> DEFINE Onward == \A r \in Requests :
                       /\ SignupStage(signups'[r]) \geq SignupStage(signups[r])
                       /\ TrackStage(tracks'[r]) \geq TrackStage(tracks[r])
<1>1. \A r \in Requests : SignupStage(signups[r]) \in 0..9 /\ TrackStage(tracks[r]) \in 0..4
  BY StagesAre
<1>2. ASSUME NEW r \in Requests, SignupStep(r) \/ Rollback(r) \/ FailToMint(r)
      PROVE  Onward /\ TrackedLater' /\ SignupStage(signups'[r]) > SignupStage(signups[r])
  <2>1. PICK h : SignupMoves(r, h)
    BY <1>2, SignupForward
  <2>2. signups'[r] = h /\ \A q \in Requests : q # r => signups'[q] = signups[q]
    BY <2>1 DEF SignupMoves, Goes, SignupShapes
  <2>3. CASE tracks' = tracks
    <3>1. SignupStage(h) \in (SignupStage(signups[r]) + 1)..9
      BY <2>1 DEF SignupMoves
    <3>2. \A q \in Requests : signups'[q].pc \in {"arrived", "open"} => signups[q].pc \in {"arrived", "open"}
      BY <2>1, <2>2 DEF SignupMoves
    <3>3. TrackedLater'
      BY <2>3, <3>2 DEF TrackedLater
    <3>4. Onward
      BY <1>1, <2>2, <2>3, <3>1
    <3> QED
      BY <1>1, <2>2, <3>1, <3>3, <3>4
  <2>4. CASE tracks' # tracks
    <3>1. /\ tracks'[r].pc = "detached" /\ \A q \in Requests : q # r => tracks'[q] = tracks[q]
          /\ tracks[r].pc = "none" /\ h.pc = "provisioned"
      BY <2>1, <2>4 DEF SignupMoves, TrackedLater, PoolShapes
    <3>2. TrackStage(tracks'[r]) = 1 /\ TrackStage(tracks[r]) = 0
      BY <3>1 DEF TrackStage, TrackRank
    <3>3. SignupStage(h) \in (SignupStage(signups[r]) + 1)..9
      BY <2>1 DEF SignupMoves
    <3>4. Onward
      BY <1>1, <2>2, <3>1, <3>2, <3>3
    <3>5. TrackedLater'
      BY <2>2, <3>1 DEF TrackedLater
    <3> QED
      BY <1>1, <2>2, <3>3, <3>4, <3>5
  <2> QED
    BY <2>3, <2>4
<1>3. ASSUME NEW r \in Requests, TrackStep(r) \/ TrackFails(r)
      PROVE  Onward /\ TrackedLater' /\ TrackStage(tracks'[r]) > TrackStage(tracks[r])
  <2>1. signups' = signups /\ tracks[r].pc \in {"detached", "called", "locked"}
    BY <1>3, TrackForward
  <2>2. PICK t : tracks' = [tracks EXCEPT ![r] = t] /\ TrackStage(t) \in (TrackStage(tracks[r]) + 1)..4
    BY <1>3, TrackForward
  <2>3. tracks'[r] = t /\ \A q \in Requests : q # r => tracks'[q] = tracks[q]
    BY <2>2 DEF PoolShapes
  <2>4. signups[r].pc \notin {"arrived", "open"}
    BY <2>1 DEF TrackedLater
  <2>5. Onward
    BY <1>1, <2>1, <2>2, <2>3
  <2>6. TrackedLater'
    BY <2>1, <2>3, <2>4 DEF TrackedLater
  <2> QED
    BY <1>1, <2>2, <2>3, <2>5, <2>6
<1>4. ASSUME signups' = signups, tracks' = tracks
      PROVE  Onward /\ TrackedLater'
  BY <1>1, <1>4 DEF TrackedLater
<1>5. Onward /\ TrackedLater'
  <2>1. ASSUME NEW r \in Requests, Login(r)
        PROVE  Onward /\ TrackedLater'
    BY <1>4, <2>1 DEF Login
  <2>2. ASSUME NEW i \in 1..Len(logins), LoginStep(i) \/ LoginTrackFails(i)
        PROVE  Onward /\ TrackedLater'
    BY <1>4, <2>2 DEF LoginStep, LockUser, WriteUser, LoginTrackFails
  <2>3. ASSUME Tick \/ UNCHANGED vars
        PROVE  Onward /\ TrackedLater'
    BY <1>4, <2>3 DEF Tick, vars
  <2> HIDE DEF Onward
  <2> QED
    BY <1>2, <1>3, <2>1, <2>2, <2>3 DEF Next
<1> QED
  BY <1>2, <1>3, <1>5 DEF Advance

LEMMA AdvanceInit == Init => OnlyOpenRan /\ TrackedLater
BY DEF Init, OnlyOpenRan, TrackedLater, Idle

\* No transaction falls back, and no statement, lock or write of one leaves it where it
\* was: with NoDeadlock, what is left of TransactionsEnd is that whoever can go on does.
THEOREM TransactionsAdvance == Spec => [][Advance]_vars
<1>1. Accounts => SignupShapes /\ PoolShapes
  BY DEF Accounts, Shapes
<1> QED
  BY <1>1, AdvanceInit, OnlyOpenRanStep, AdvanceStep, AccountsKept, PTL DEF Spec
=============================================================================
