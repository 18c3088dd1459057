----------------------------- MODULE PoolBookProofs -----------------------------
(* Provisioning implements the book of a pool, for any number of signups and    *)
(* goroutines, and any limits of the two documents.                             *)
EXTENDS TrackingProofs

-----------------------------------------------------------------------------
(* What the book shows is what the rows keep *)

\* The documents as the book shows them.
Shown ==
  /\ tracking = Book!NewestMonths(counted)
  /\ \A r \in Requests : queues[r] = Book!LastLogins(recorded[r])

LEMMA SameCardinality == \A S : Book!Cardinality(S) = Cardinality(S)
BY DEF Cardinality, Book!Cardinality

LEMMA DocumentsAreShown == Shapes /\ Exact /\ Queued => Shown
<1> SUFFICES ASSUME Shapes, Exact, Queued PROVE Shown
  OBVIOUS
<1>1. Book!NewestMonths(counted) = [p \in Newest(Tracked) |-> counted[p]]
  <2> DEFINE some == {m \in Periods : counted[m] > 0}
             shown == {m \in some : Book!Cardinality({n \in some : n > m}) < PeriodsKept}
  <2>1. Book!NewestMonths(counted) = [p \in shown |-> counted[p]]
    BY DEF Book!NewestMonths
  <2>2. \A m : Book!Cardinality({n \in some : n > m}) = Cardinality({n \in some : n > m})
    BY SameCardinality, Zenon
  <2>3. shown = Newest(some)
    BY <2>2 DEF Newest
  <2>4. some = Tracked
    BY DEF Tracked
  <2> HIDE DEF some, shown
  <2> QED
    BY <2>1, <2>3, <2>4
<1>2. tracking = [p \in DOMAIN tracking |-> tracking[p]]
  BY DEF Shapes, PoolShapes, IsDocument
<1>3. tracking = [p \in Newest(Tracked) |-> counted[p]]
  BY <1>2 DEF Exact
<1>4. \A r \in Requests : queues[r] = Book!LastLogins(recorded[r])
  BY DEF Queued, QueuesLoseNothing, FirstOf, Book!LastLogins
<1> QED
  BY <1>1, <1>3, <1>4 DEF Shown

\* A signup asks for an address of Emails, and no session is minted past the bound.
Bounded ==
  /\ \A r \in Requests : signups[r].pc = "open" => signups[r].email \in Emails
  /\ Len(logins) \leq MaxLogins

LEMMA BoundedGoes ==
  ASSUME SignupShapes, Bounded, NEW r \in Requests, NEW h, Goes(r, h),
         h.pc = "open" => h.email \in Emails,
         Len(logins') \leq MaxLogins
  PROVE  Bounded'
<1>1. signups'[r] = h /\ \A q \in Requests : q # r => signups'[q] = signups[q]
  BY DEF Goes, SignupShapes
<1> QED
  BY <1>1 DEF Bounded

LEMMA BoundedStep == Shapes /\ Bounded /\ [Next]_vars => Bounded'
<1> SUFFICES ASSUME Shapes, Bounded, [Next]_vars PROVE Bounded'
  OBVIOUS
<1>0. SignupShapes /\ logins \in Seq(LoginStates) /\ Len(logins) \in Nat /\ MaxLogins \in Nat
  BY BoundsAssumption DEF Shapes, UserShapes
<1>1. ASSUME signups' = signups, Len(logins') \leq MaxLogins
      PROVE  Bounded'
  BY <1>1 DEF Bounded
<1>2. ASSUME NEW r \in Requests, Register(r)
      PROVE  Bounded'
  <2>1. PICK email \in Asked[r] : Goes(r, [Idle EXCEPT !.pc = "open", !.email = email])
    BY <1>2 DEF Register
  <2> DEFINE h == [Idle EXCEPT !.pc = "open", !.email = email]
  <2>2. email \in Emails /\ h.email = email
    BY AskedAssumption DEF Idle
  <2> HIDE DEF h
  <2>3. Goes(r, h)
    BY <2>1 DEF h
  <2>4. logins' = logins
    BY <1>2 DEF Register
  <2> QED
    BY <1>0, <2>2, <2>3, <2>4, BoundedGoes DEF Bounded
<1>3. ASSUME NEW r \in Requests, Statement(r)
      PROVE  Bounded'
  <2> DEFINE h == [signups[r] EXCEPT !.ran = @ + 1,
                                     !.count = IF Runs(r) = {"users_count"} THEN usersCount + 1 ELSE @]
  <2>1. signups[r] \in SignupStates
    BY <1>0 DEF SignupShapes
  <2>2. h.pc = signups[r].pc /\ h.email = signups[r].email
    BY <2>1 DEF SignupStates
  <2> HIDE DEF h
  <2>3. Goes(r, h) /\ logins' = logins
    BY <1>3 DEF Statement, h
  <2> QED
    BY <1>0, <2>2, <2>3, BoundedGoes DEF Bounded
<1>4. ASSUME NEW r \in Requests, FindTaken(r) \/ Rollback(r)
      PROVE  Bounded'
  <2>1. Goes(r, Answered) /\ logins' = logins
    BY <1>4 DEF FindTaken, Rollback
  <2>2. Answered.pc # "open"
    BY AnsweredState
  <2> QED
    BY <1>0, <2>1, <2>2, BoundedGoes DEF Bounded
<1>5. ASSUME NEW r \in Requests, Commit(r) \/ MintSession(r) \/ FailToMint(r)
      PROVE  Bounded'
  <2>0. signups[r] \in SignupStates
    BY <1>0 DEF SignupShapes
  <2>1. PICK h : Goes(r, h) /\ h.pc # "open"
    <3>1. [signups[r] EXCEPT !.pc = "provisioned", !.ran = 0].pc # "open"
          /\ [signups[r] EXCEPT !.pc = "answered"].pc # "open"
      BY <2>0 DEF SignupStates
    <3> QED
      BY <1>5, <3>1 DEF Commit, MintSession, FailToMint
  <2>2. Len(logins') \leq MaxLogins
    <3>1. CASE MintSession(r)
      <4>1. Len(logins') = Len(logins) + 1 /\ Len(logins) < MaxLogins
        BY <1>0, <3>1 DEF MintSession
      <4> QED
        BY <1>0, <4>1
    <3>2. CASE Commit(r) \/ FailToMint(r)
      BY <3>2 DEF Commit, FailToMint, Bounded
    <3> QED
      BY <1>5, <3>1, <3>2
  <2> QED
    BY <1>0, <2>1, <2>2, BoundedGoes
<1>6. ASSUME NEW r \in Requests, Login(r)
      PROVE  Bounded'
  <2>1. Len(logins') = Len(logins) + 1 /\ Len(logins) < MaxLogins /\ signups' = signups
    BY <1>0, <1>6 DEF Login
  <2> QED
    BY <1>0, <1>1, <2>1
<1>7. ASSUME NEW r \in Requests, TrackStep(r) \/ TrackFails(r)
      PROVE  Bounded'
  BY <1>1, <1>7 DEF TrackStep, CallTrack, LockPool, WritePool, TrackFails, Bounded
<1>8. ASSUME NEW i \in 1..Len(logins), LoginStep(i) \/ LoginTrackFails(i)
      PROVE  Bounded'
  <2>1. signups' = signups /\ \E l : logins' = [logins EXCEPT ![i] = l]
    BY <1>8 DEF LoginStep, LockUser, WriteUser, LoginTrackFails
  <2>2. Len(logins') = Len(logins)
    BY <1>0, <2>1
  <2> QED
    BY <1>1, <2>1, <2>2 DEF Bounded
<1>9. ASSUME Tick \/ UNCHANGED vars
      PROVE  Bounded'
  BY <1>1, <1>9 DEF Tick, vars, Bounded
<1> QED
  BY <1>2, <1>3, <1>4, <1>5, <1>6, <1>7, <1>8, <1>9 DEF Next, SignupStep

-----------------------------------------------------------------------------
(* Steps of the book *)

\* An account stays as it was committed.
LEMMA SameAccounts ==
  ASSUME rows' = rows, \A q \in Registered : signups'[q].email = signups[q].email
  PROVE  BookAccounts' = BookAccounts
<1>1. Registered' = Registered
  BY DEF Registered
<1> QED
  BY <1>1 DEF BookAccounts

LEMMA GoingKeepsAccounts ==
  ASSUME SignupShapes, Born, NEW r \in Requests, NEW h, Goes(r, h), rows' = rows,
         h.email = signups[r].email \/ r \notin Registered
  PROVE  BookAccounts' = BookAccounts
<1>1. signups'[r] = h /\ \A q \in Requests : q # r => signups'[q] = signups[q]
  BY DEF Goes, SignupShapes
<1>2. Registered \subseteq Requests
  BY DEF Registered
<1> QED
  BY <1>1, <1>2, SameAccounts

LEMMA SignupKeepsAccounts ==
  ASSUME SignupShapes, Born, NEW r \in Requests,
         \/ Register(r) \/ Statement(r) \/ FindTaken(r) \/ Rollback(r) \/ MintSession(r) \/ FailToMint(r)
  PROVE  BookAccounts' = BookAccounts /\ BookToEnter' = BookToEnter
         /\ UNCHANGED <<usersCount, tracking, queues, counted, recorded>>
<1>0. signups[r] \in SignupStates
  BY DEF SignupShapes
<1>1. PICK h : Goes(r, h) /\ (h.email = signups[r].email \/ r \notin Registered)
  <2>1. CASE Register(r) \/ FindTaken(r) \/ Rollback(r)
    <3>1. signups[r].pc \in {"arrived", "open"}
      BY <2>1, StatementsAre DEF Register, FindTaken, Rollback, Runs
    <3>2. r \notin Registered
      BY <3>1, RegisteredIs
    <3> QED
      BY <2>1, <3>2 DEF Register, FindTaken, Rollback
  <2>2. CASE Statement(r)
    <3>1. [signups[r] EXCEPT !.ran = @ + 1,
              !.count = IF Runs(r) = {"users_count"} THEN usersCount + 1 ELSE @].email = signups[r].email
      BY <1>0 DEF SignupStates
    <3> QED
      BY <2>2, <3>1 DEF Statement
  <2>3. CASE MintSession(r) \/ FailToMint(r)
    <3>1. [signups[r] EXCEPT !.pc = "answered"].email = signups[r].email
      BY <1>0 DEF SignupStates
    <3> QED
      BY <2>3, <3>1 DEF MintSession, FailToMint
  <2> QED
    BY <2>1, <2>2, <2>3
<1>2. rows' = rows /\ tracks' = tracks /\ UNCHANGED <<usersCount, tracking, queues, counted, recorded>>
  BY DEF Register, Statement, FindTaken, Rollback, MintSession, FailToMint
<1>3. BookAccounts' = BookAccounts
  BY <1>1, <1>2, GoingKeepsAccounts
<1> QED
  BY <1>2, <1>3 DEF BookToEnter

\* A transaction that commits is an account that joins whole.
LEMMA CommitJoins ==
  ASSUME Shapes, Born, Counting, Bounded, NEW r \in Requests, Commit(r)
  PROVE  Book!Join(r, signups[r].email)
<1>0. SignupShapes /\ signups[r] \in SignupStates
  BY DEF Shapes, SignupShapes
<1>1. Registered' = Registered \union {r} /\ r \notin Registered
  BY <1>0, BornCommit
<1>2. signups[r].pc = "open" /\ signups[r].ran = 6 /\ usersCount' = signups[r].count
  BY StatementsAre DEF Commit
<1>3. usersCount' = usersCount + 1
  BY <1>2 DEF Counting
<1>4. \A q \in Registered : signups[q].email # signups[r].email
  BY <1>2 DEF Born, Alone, Taken
<1>5. Registered \subseteq Requests /\ \A q \in Requests : signups'[q].email = signups[q].email
  <2> DEFINE h == [signups[r] EXCEPT !.pc = "provisioned", !.ran = 0]
  <2>1. h.email = signups[r].email
    BY <1>0 DEF SignupStates
  <2> HIDE DEF h
  <2>2. Goes(r, h)
    BY DEF Commit, h
  <2> QED
    BY <1>0, <2>1, <2>2 DEF Goes, SignupShapes, Registered
<1>6. BookAccounts' = [v \in DOMAIN BookAccounts \union {r} |->
                         IF v = r THEN signups[r].email ELSE BookAccounts[v]]
  BY <1>1, <1>5 DEF BookAccounts
<1>7. DOMAIN BookAccounts = Registered /\ \A v \in Registered : BookAccounts[v] = signups[v].email
  BY DEF BookAccounts
<1>8. BookToEnter' = BookToEnter \union {r}
  <2>1. tracks' = [tracks EXCEPT ![r] = [pc |-> "detached"]] /\ DOMAIN tracks = Requests
    BY DEF Commit, Shapes, PoolShapes
  <2> QED
    BY <2>1 DEF BookToEnter
<1>9. UNCHANGED <<counted, recorded, tracking, queues>>
  BY DEF Commit
<1> QED
  BY <1>1, <1>3, <1>4, <1>6, <1>7, <1>8, <1>9 DEF Book!Join

\* A goroutine that goes on, and is not at its end.
LEMMA TrackGoes ==
  ASSUME PoolShapes, NEW r \in Requests, NEW t, tracks' = [tracks EXCEPT ![r] = t],
         tracks[r].pc \in {"detached", "called"}, t.pc \in {"called", "locked"}
  PROVE  BookToEnter' = BookToEnter
<1>1. \A q \in Requests : tracks'[q].pc \in {"detached", "called", "locked"}
                            <=> tracks[q].pc \in {"detached", "called", "locked"}
  BY DEF PoolShapes
<1> QED
  BY <1>1 DEF BookToEnter

LEMMA TrackOnItsWay ==
  ASSUME PoolShapes, NEW r \in Requests, CallTrack(r) \/ LockPool(r)
  PROVE  BookAccounts' = BookAccounts /\ BookToEnter' = BookToEnter
         /\ UNCHANGED <<usersCount, tracking, queues, counted, recorded>>
<1>1. CASE CallTrack(r)
  <2>1. PICK t : t = [pc |-> "called", at |-> period]
    OBVIOUS
  <2>2. t.pc = "called"
    BY <2>1
  <2>3. tracks' = [tracks EXCEPT ![r] = t] /\ tracks[r].pc = "detached"
    BY <1>1, <2>1 DEF CallTrack
  <2>4. BookToEnter' = BookToEnter
    BY <2>2, <2>3, TrackGoes
  <2>5. signups' = signups /\ rows' = rows /\ UNCHANGED <<usersCount, tracking, queues, counted, recorded>>
    BY <1>1 DEF CallTrack
  <2> QED
    BY <2>4, <2>5, SameAccounts
<1>2. CASE LockPool(r)
  <2>1. PICK t : t = [pc |-> "locked", at |-> tracks[r].at, document |-> RecordSignup(tracking, tracks[r].at)]
    OBVIOUS
  <2>2. t.pc = "locked"
    BY <2>1
  <2>3. tracks' = [tracks EXCEPT ![r] = t] /\ tracks[r].pc = "called"
    BY <1>2, <2>1 DEF LockPool
  <2>4. BookToEnter' = BookToEnter
    BY <2>2, <2>3, TrackGoes
  <2>5. signups' = signups /\ rows' = rows /\ UNCHANGED <<usersCount, tracking, queues, counted, recorded>>
    BY <1>2 DEF LockPool
  <2> QED
    BY <2>4, <2>5, SameAccounts
<1> QED
  BY <1>1, <1>2

LEMMA TrackEnds ==
  ASSUME PoolShapes, NEW r \in Requests, WritePool(r) \/ TrackFails(r)
  PROVE  BookAccounts' = BookAccounts /\ r \in BookToEnter /\ BookToEnter' = BookToEnter \ {r}
         /\ UNCHANGED <<usersCount, queues, recorded>>
<1>1. tracks[r].pc \in {"detached", "called", "locked"} /\ DOMAIN tracks = Requests
      /\ tracks' = [tracks EXCEPT ![r] = [pc |-> "ended"]]
  BY DEF WritePool, TrackFails, PoolShapes
<1>2. signups' = signups /\ rows' = rows /\ UNCHANGED <<usersCount, queues, recorded>>
  BY DEF WritePool, TrackFails
<1> QED
  BY <1>1, <1>2, SameAccounts DEF BookToEnter

LEMMA WriteEnters ==
  ASSUME PoolShapes, Shown', NEW r \in Requests, WritePool(r)
  PROVE  \E m \in Periods : Book!EnterSignup(r, m)
<1>1. tracks[r].pc = "locked" /\ tracks[r].at \in Periods
  BY DEF WritePool, PoolShapes, IsTrack
<1>2. counted' = [counted EXCEPT ![tracks[r].at] = @ + 1]
  BY DEF WritePool
<1>3. tracking' = Book!NewestMonths(counted')
  BY DEF Shown, Book!NewestMonths
<1>4. Book!EnterSignup(r, tracks[r].at)
  BY <1>2, <1>3, TrackEnds DEF Book!EnterSignup
<1> QED
  BY <1>1, <1>4

\* Of a login only the write is seen.
LEMMA LoginWriteEnters ==
  ASSUME UserShapes, Queued, Bounded, NEW i \in 1..Len(logins), WriteUser(i)
  PROVE  \E u \in Requests : \E login \in 1..MaxLogins : Book!EnterLogin(u, login)
<1> DEFINE u == logins[i].user
<1>1. i \in Nat /\ u \in Requests /\ u \in Registered
  BY LoginShape DEF UserShapes
<1>2. i \in 1..MaxLogins
  <2>1. Len(logins) \in Nat /\ MaxLogins \in Nat /\ Len(logins) \leq MaxLogins
    BY BoundsAssumption DEF UserShapes, Bounded
  <2> QED
    BY <2>1
<1>3. logins[i].queue = FirstOf(<<i>> \o recorded[u])
  <2>1. logins[i].queue = RecordLogin(queues[u], i)
    BY DEF WriteUser, Queued
  <2>2. queues[u] = FirstOf(recorded[u]) /\ recorded[u] \in Seq(Nat)
    BY <1>1 DEF Queued, QueuesLoseNothing, UserShapes
  <2>3. RecordLogin(FirstOf(recorded[u]), i) = RecordLogin(recorded[u], i)
    BY <1>1, <2>2, FirstOfForgets
  <2> QED
    BY <2>1, <2>2, <2>3 DEF RecordLogin
<1>4. queues' = [queues EXCEPT ![u] = Book!LastLogins(<<i>> \o recorded[u])]
  BY <1>3 DEF WriteUser, FirstOf, Book!LastLogins
<1>5. recorded' = [recorded EXCEPT ![u] = <<i>> \o @] /\ UNCHANGED <<counted, usersCount, tracking>>
  BY DEF WriteUser
<1>6. BookAccounts' = BookAccounts /\ BookToEnter' = BookToEnter
  <2>1. signups' = signups /\ rows' = rows /\ tracks' = tracks
    BY DEF WriteUser
  <2> QED
    BY <2>1, SameAccounts DEF BookToEnter
<1>7. u \in DOMAIN BookAccounts
  BY <1>1 DEF BookAccounts
<1>8. Book!EnterLogin(u, i)
  BY <1>4, <1>5, <1>6, <1>7 DEF Book!EnterLogin
<1> QED
  BY <1>1, <1>2, <1>8

-----------------------------------------------------------------------------
(* The theorem *)

Entered == Documents /\ Bounded /\ Shown

LEMMA EnteredKept == Spec => []Entered
<1>1. Init => Bounded
  BY BoundsAssumption DEF Init, Bounded, Idle
<1>2. Documents /\ Bounded /\ [Next]_vars => Bounded'
  BY BoundedStep DEF Documents, Accounts
<1>3. Documents => Shown
  BY DocumentsAreShown DEF Documents, Accounts
<1>4. Spec => []Bounded
  BY <1>1, <1>2, DocumentsKept, PTL DEF Spec
<1> QED
  BY <1>3, <1>4, DocumentsKept, PTL DEF Entered

LEMMA EveryStepInTheBook == Entered /\ Entered' /\ [Next]_vars => [Book!BookNext]_(Book!bookVars)
<1> DEFINE Stutters == UNCHANGED <<BookAccounts, BookToEnter, counted, recorded, usersCount, tracking, queues>>
<1> SUFFICES ASSUME Entered, Entered', [Next]_vars
             PROVE  Book!BookNext \/ Stutters
  BY DEF Book!bookVars
<1>0. /\ Shapes /\ SignupShapes /\ PoolShapes /\ UserShapes /\ Born /\ Counting /\ Exact /\ Queued
      /\ Bounded /\ Shown'
  BY DEF Entered, Documents, Accounts, Shapes
<1>1. ASSUME NEW r \in Requests, 
             \/ Register(r) \/ Statement(r) \/ FindTaken(r) \/ Rollback(r) \/ MintSession(r) \/ FailToMint(r)
      PROVE  Stutters
  BY <1>0, <1>1, SignupKeepsAccounts
<1>2. ASSUME NEW r \in Requests, Commit(r)
      PROVE  Book!BookNext
  <2>1. Book!Join(r, signups[r].email)
    BY <1>0, <1>2, CommitJoins
  <2>2. signups[r].email \in Emails
    BY <1>0, <1>2 DEF Commit, Bounded
  <2> QED
    BY <2>1, <2>2 DEF Book!BookNext
<1>3. ASSUME NEW r \in Requests, CallTrack(r) \/ LockPool(r)
      PROVE  Stutters
  BY <1>0, <1>3, TrackOnItsWay
<1>4. ASSUME NEW r \in Requests, WritePool(r)
      PROVE  Book!BookNext
  <2>1. \E m \in Periods : Book!EnterSignup(r, m)
    BY <1>0, <1>4, WriteEnters
  <2> QED
    BY <2>1 DEF Book!BookNext
<1>5. ASSUME NEW r \in Requests, TrackFails(r)
      PROVE  Book!BookNext
  <2>1. UNCHANGED <<counted, tracking>>
    BY <1>5 DEF TrackFails
  <2>2. Book!LoseSignup(r)
    BY <1>0, <1>5, <2>1, TrackEnds DEF Book!LoseSignup
  <2> QED
    BY <2>2 DEF Book!BookNext
<1>6. ASSUME NEW i \in 1..Len(logins), WriteUser(i)
      PROVE  Book!BookNext
  <2>1. \E u \in Requests : \E login \in 1..MaxLogins : Book!EnterLogin(u, login)
    BY <1>0, <1>6, LoginWriteEnters
  <2> QED
    BY <2>1 DEF Book!BookNext
<1>7. ASSUME \/ \E r \in Requests : Login(r)
             \/ \E i \in 1..Len(logins) : LockUser(i) \/ LoginTrackFails(i)
             \/ Tick \/ UNCHANGED vars
      PROVE  Stutters
  <2>1. /\ signups' = signups /\ rows' = rows /\ tracks' = tracks
        /\ UNCHANGED <<counted, recorded, usersCount, tracking, queues>>
    BY <1>7 DEF Login, LockUser, LoginTrackFails, Tick, vars
  <2> QED
    BY <2>1, SameAccounts DEF BookToEnter
<1> QED
  BY <1>1, <1>2, <1>3, <1>4, <1>5, <1>6, <1>7 DEF Next, SignupStep, TrackStep, LoginStep

\* Signups that run at once, wait for each other, fail and are counted late or never look
\* like one book of whole accounts (ProvisionUser, UserPoolService.Track, UserService.Track):
\* its count, its newest months and the last logins of every user are what the rows hold.
THEOREM ProvisioningImplementsBook == Spec => ImplementsBook
<1>1. Init => Book!BookInit
  <2> SUFFICES ASSUME Init PROVE Book!BookInit
    OBVIOUS
  <2>1. Shown
    BY ShapesInit, ExactInit, QueuedInit, DocumentsAreShown
  <2>2. Registered = {}
    BY DEF Init, Registered
  <2>3. BookAccounts = << >>
    BY <2>2, EmptySeq DEF BookAccounts
  <2>4. BookToEnter = {}
    BY DEF Init, BookToEnter
  <2>5. tracking = Book!NewestMonths(counted)
    BY <2>1 DEF Shown
  <2> QED
    BY <2>3, <2>4, <2>5 DEF Init, Book!BookInit
<1> QED
  BY <1>1, EnteredKept, EveryStepInTheBook, PTL DEF Spec, ImplementsBook, Book!BookSpec
=============================================================================
