---------------------------- MODULE SessionsProofs ----------------------------
(* Proofs about Sessions, for every set of users, apps, addresses and         *)
(* handlers, every lifetime and every bound.                                  *)
EXTENDS Sessions, SequenceTheorems, TLAPS

\* An UPDATE yields a table of as many rows.
LEMMA RewrittenTable ==
  ASSUME NEW t \in Seq(Row), NEW f \in [1..Len(t) -> Row]
  PROVE  f \in Seq(Row) /\ Len(f) = Len(t) /\ DOMAIN f = 1..Len(t)
<1>1. Len(t) \in Nat
  BY LenProperties
<1>2. f \in Seq(Row)
  BY <1>1, SeqDef
<1>3. DOMAIN f = 1..Len(f) /\ Len(f) \in Nat
  BY <1>2, LenProperties
<1> QED
  BY <1>1, <1>2, <1>3

\* A row is of its type, and the rewrites of a row keep it so.
LEMMA RowTypes ==
  ASSUME TypeOK
  PROVE  /\ Len(sessions) \in Nat
         /\ DOMAIN sessions = Ids
         /\ sessions \in [Ids -> Row]
         /\ \A i \in Ids :
              /\ sessions[i] \in Row
              /\ Invalidated(sessions[i]) \in Row
              /\ Revoked(sessions[i]) \in Row
              /\ Touched(sessions[i]) \in Row
<1>1. sessions \in Seq(Row) /\ now \in Nat
  BY DEF TypeOK
<1>2. /\ Len(sessions) \in Nat
      /\ DOMAIN sessions = Ids
      /\ sessions \in [Ids -> Row]
  BY <1>1, LenProperties DEF Ids
<1>3. ASSUME NEW i \in Ids
      PROVE  /\ sessions[i] \in Row
             /\ Invalidated(sessions[i]) \in Row
             /\ Revoked(sessions[i]) \in Row
             /\ Touched(sessions[i]) \in Row
  BY <1>1, <1>2 DEF Row, Invalidated, Revoked, Touched, Epoch
<1> QED
  BY <1>2, <1>3

-----------------------------------------------------------------------------
(* What a step may do to the table *)

\* The columns a step leaves alone in the rows it found, and the flag it never clears.
KeepsRow(i) ==
  /\ i \in Ids'
  /\ sessions'[i].user = sessions[i].user
  /\ sessions'[i].app = sessions[i].app
  /\ sessions'[i].ip = sessions[i].ip
  /\ sessions'[i].parent = sessions[i].parent
  /\ sessions[i].invalidated => sessions'[i].invalidated

\* A step that rewrites rows: same rows, of the same type.
Rewrites ==
  /\ sessions' \in Seq(Row)
  /\ Len(sessions') = Len(sessions)
  /\ \A i \in Ids : KeepsRow(i)

LEMMA RewriteRowByRow ==
  ASSUME TypeOK,
         sessions' \in [Ids -> Row],
         \A i \in Ids : sessions'[i] \in {sessions[i], Invalidated(sessions[i]),
                                          Revoked(sessions[i]), Touched(sessions[i])}
  PROVE  Rewrites
<1> USE RowTypes
<1>1. sessions' \in Seq(Row) /\ Len(sessions') = Len(sessions)
  BY RewrittenTable DEF TypeOK, Ids
<1>2. ASSUME NEW row \in Row,
             NEW new \in {row, Invalidated(row), Revoked(row), Touched(row)}
      PROVE  /\ new.user = row.user /\ new.app = row.app /\ new.ip = row.ip
             /\ new.parent = row.parent
             /\ row.invalidated => new.invalidated
  <2>1. CASE new = Invalidated(row)
    BY <2>1 DEF Invalidated, Row
  <2>2. CASE new = Revoked(row)
    BY <2>2 DEF Revoked, Row
  <2>3. CASE new = Touched(row)
    BY <2>3 DEF Touched, Row
  <2> QED
    BY <1>2, <2>1, <2>2, <2>3
<1>3. ASSUME NEW i \in Ids PROVE KeepsRow(i)
  <2>1. i \in Ids'
    BY <1>1 DEF Ids
  <2> QED
    BY <1>2, <2>1 DEF KeepsRow
<1> QED
  BY <1>1, <1>3 DEF Rewrites

\* The four statements that write rows, and the lack of any.
LEMMA StatementsRewrite ==
  ASSUME TypeOK
  PROVE  /\ \A i \in Ids : InvalidateAllExcept(i) => Rewrites
         /\ \A i \in Ids : TouchLastUsedAt(i) => Rewrites
         /\ \A r \in Requests : Logout(r) => Rewrites
         /\ \A r \in Requests : ChangeEmail(r) => Rewrites
         /\ sessions' = sessions => Rewrites
<1> USE RowTypes
<1>1. ASSUME NEW i \in Ids, InvalidateAllExcept(i) PROVE Rewrites
  BY <1>1, RewriteRowByRow DEF InvalidateAllExcept
<1>2. ASSUME NEW i \in Ids, TouchLastUsedAt(i) PROVE Rewrites
  BY <1>2, RewriteRowByRow DEF TouchLastUsedAt
<1>3. ASSUME NEW r \in Requests, Logout(r) PROVE Rewrites
  <2>1. requests[r].source \in Ids
    BY <1>3 DEF TypeOK, Logout
  <2> QED
    BY <1>3, <2>1, RewriteRowByRow DEF Logout
<1>4. ASSUME NEW r \in Requests, ChangeEmail(r) PROVE Rewrites
  BY <1>4, RewriteRowByRow DEF ChangeEmail
<1>5. ASSUME sessions' = sessions PROVE Rewrites
  BY <1>5, RewriteRowByRow
<1> QED
  BY <1>1, <1>2, <1>3, <1>4, <1>5

\* An INSERT leaves every row as it was and adds one, which is fresh.
Inserts ==
  /\ sessions' \in Seq(Row)
  /\ Len(sessions') = Len(sessions) + 1
  /\ \A i \in Ids : KeepsRow(i) /\ sessions'[i] = sessions[i]
  /\ ~sessions'[Len(sessions')].invalidated

LEMMA MintInserts ==
  ASSUME TypeOK, NEW r \in Requests, Mint(r)
  PROVE  Inserts /\ sessions'[Len(sessions')] = NewRow(requests[r])
<1> USE RowTypes
<1> DEFINE h == requests[r]
<1>1. h \in Handler
  BY DEF TypeOK, Mint, Idle
<1>2. NewRow(h) \in Row
  <2>1. AccessTtl[h.app] \in Nat /\ RefreshTtl[h.app] \in Nat
    BY <1>1, TtlAssumption DEF Handler
  <2> QED
    BY <1>1, <2>1 DEF TypeOK, NewRow, Row, Handler
<1>3. sessions' = Append(sessions, NewRow(h))
  BY DEF Mint
<1>4. /\ sessions' \in Seq(Row)
      /\ Len(sessions') = Len(sessions) + 1
      /\ \A i \in Ids : sessions'[i] = sessions[i]
      /\ sessions'[Len(sessions')] = NewRow(h)
  BY <1>2, <1>3 DEF TypeOK, Ids
<1>5. ASSUME NEW i \in Ids PROVE KeepsRow(i)
  BY <1>4 DEF KeepsRow, Ids
<1>6. ~NewRow(h).invalidated
  BY DEF NewRow
<1> QED
  BY <1>4, <1>5, <1>6 DEF Inserts

-----------------------------------------------------------------------------
(* Type correctness *)

\* Row references survive a step that keeps the rows.
LEMMA IdsGrow ==
  ASSUME TypeOK, Rewrites \/ Inserts
  PROVE  sessions' \in Seq(Row) /\ Ids \subseteq Ids'
BY RowTypes DEF Rewrites, Inserts, Ids

\* MintFor, which three handlers end in, sets a well-formed handler.
LEMMA MintForKeepsTypes ==
  ASSUME TypeOK, NEW r \in Requests, NEW u \in Users, NEW a \in Apps, NEW ip \in Ips,
         NEW i \in Nat, MintFor(r, u, a, ip, i)
  PROVE  TypeOK'
<1> DEFINE h == [pc |-> "mint", user |-> u, app |-> a, ip |-> ip,
                 source |-> i, email |-> email[u], minted |-> 0]
<1>1. h \in Handler
  BY DEF TypeOK, Handler
<1>2. requests' = [requests EXCEPT ![r] = h]
  BY DEF MintFor
<1> HIDE DEF h
<1>3. requests' \in [Requests -> Handler \union {Idle}]
  BY <1>1, <1>2 DEF TypeOK
<1>4. h.pc = "mint"
  BY DEF h
<1> QED
  BY <1>2, <1>3, <1>4 DEF TypeOK, MintFor, Ids

\* Every handler step keeps the types.
LEMMA HandlerKeepsTypes ==
  ASSUME TypeOK, NEW r \in Requests, HandlerStep(r)
  PROVE  TypeOK'
<1> USE RowTypes
<1>0. /\ requests \in [Requests -> Handler \union {Idle}]
      /\ Idle.pc = "idle"
      /\ requests[r].pc # "idle" => requests[r] \in Handler
  BY DEF TypeOK, Idle
<1>1. ASSUME NEW u \in Users, NEW a \in Apps, NEW ip \in Ips, LoginReads(r, u, a, ip)
      PROVE  TypeOK'
  BY <1>1, MintForKeepsTypes DEF LoginReads
<1>2. ASSUME NEW i \in held, NEW ip \in Ips, RefreshReads(r, i, ip)
      PROVE  TypeOK'
  <2>1. i \in Ids /\ i \in Nat
    BY DEF TypeOK, Ids
  <2>2. sessions[i].user \in Users /\ sessions[i].app \in Apps
    BY <2>1 DEF Row
  <2> QED
    BY <1>2, <2>1, <2>2, MintForKeepsTypes DEF RefreshReads
<1>3. ASSUME NEW i \in held, NEW ip \in Ips, AuthorizeReads(r, i, ip)
      PROVE  TypeOK'
  <2> DEFINE h == [pc |-> "authorized", user |-> sessions[i].user,
                   app |-> sessions[i].app, ip |-> ip, source |-> i,
                   email |-> email[sessions[i].user], minted |-> 0]
  <2>1. i \in Ids /\ i \in Nat
    BY DEF TypeOK, Ids
  <2>2. h \in Handler
    BY <2>1 DEF TypeOK, Handler, Row
  <2>3. requests' = [requests EXCEPT ![r] = h] /\ h.pc = "authorized" /\ h.source = i
    BY <1>3 DEF AuthorizeReads
  <2> HIDE DEF h
  <2> QED
    BY <1>3, <2>1, <2>2, <2>3 DEF TypeOK, AuthorizeReads, Ids
<1>4. ASSUME Mint(r) PROVE TypeOK'
  <2>1. Inserts
    BY <1>4, MintInserts
  <2>2. Len(sessions) + 1 \in Ids' /\ Ids \subseteq Ids' /\ sessions' \in Seq(Row)
    BY <2>1, IdsGrow DEF Inserts, Ids
  <2> DEFINE h == [requests[r] EXCEPT !.pc = "reload", !.minted = Len(sessions) + 1]
  <2>0. requests[r] \in Handler /\ Len(sessions) + 1 \in Nat
    BY <1>0, <1>4 DEF Mint
  <2>3. h \in Handler /\ h.pc = "reload" /\ h.minted = Len(sessions) + 1
    BY <2>0 DEF Handler
  <2>4. requests' = [requests EXCEPT ![r] = h]
    BY <1>0, <1>4 DEF Mint
  <2> HIDE DEF h
  <2>5. requests' \in [Requests -> Handler \union {Idle}]
    BY <1>0, <2>3, <2>4
  <2>6. \A q \in Requests : q # r => requests'[q] = requests[q]
    BY <1>0, <2>4
  <2>7. requests'[r] = h
    BY <1>0, <2>4
  <2> QED
    BY <1>4, <2>2, <2>3, <2>5, <2>6, <2>7 DEF TypeOK, Mint
<1>5. ASSUME Reload(r) PROVE TypeOK'
  <2> DEFINE h == [requests[r] EXCEPT !.pc = "answer"]
  <2>1. h \in Handler /\ h.pc = "answer" /\ h.minted = requests[r].minted
    BY <1>0, <1>5 DEF Reload, Handler
  <2>2. requests' = [requests EXCEPT ![r] = h]
    BY <1>0, <1>5 DEF Reload
  <2> HIDE DEF h
  <2> QED
    BY <1>0, <1>5, <2>1, <2>2 DEF TypeOK, Reload, Ids
<1>6. ASSUME Answer(r) PROVE TypeOK'
  BY <1>0, <1>6 DEF TypeOK, Answer, Ids
<1>7. ASSUME Fail(r) PROVE TypeOK'
  BY <1>0, <1>7 DEF TypeOK, Fail, Ids
<1>8. ASSUME Logout(r) PROVE TypeOK'
  <2>1. Rewrites
    BY <1>8, StatementsRewrite
  <2>2. sessions' \in Seq(Row) /\ Ids' = Ids
    BY <2>1 DEF Rewrites, Ids
  <2> QED
    BY <1>0, <1>8, <2>2 DEF TypeOK, Logout
<1>9. ASSUME ChangeEmail(r) PROVE TypeOK'
  <2>1. Rewrites
    BY <1>9, StatementsRewrite
  <2>2. sessions' \in Seq(Row) /\ Ids' = Ids
    BY <2>1 DEF Rewrites, Ids
  <2>3. requests[r].user \in Users
    BY <1>0, <1>9 DEF ChangeEmail, Handler
  <2>4. email' \in [Users -> Nat]
    BY <1>9, <2>3 DEF TypeOK, ChangeEmail
  <2> QED
    BY <1>0, <1>9, <2>2, <2>4 DEF TypeOK, ChangeEmail, HeldBy
<1>10. ASSUME Respond(r) PROVE TypeOK'
  BY <1>0, <1>10 DEF TypeOK, Respond, Ids
<1> QED
  BY <1>1, <1>2, <1>3, <1>4, <1>5, <1>6, <1>7, <1>8, <1>9, <1>10 DEF HandlerStep

LEMMA DetachedKeepsTypes ==
  ASSUME TypeOK, NEW i \in superseding \union touching, DetachedStep(i)
  PROVE  TypeOK'
<1>0. i \in Ids
  BY DEF TypeOK
<1>1. ASSUME Rewrites PROVE sessions' \in Seq(Row) /\ Ids' = Ids
  BY <1>1 DEF Rewrites, Ids
<1>2. ASSUME Supersede(i) PROVE TypeOK'
  BY <1>0, <1>1, <1>2, StatementsRewrite DEF TypeOK, Supersede
<1>3. ASSUME SupersedeFails(i) PROVE TypeOK'
  BY <1>0, <1>3 DEF TypeOK, SupersedeFails, Ids
<1>4. ASSUME Touch(i) PROVE TypeOK'
  BY <1>0, <1>1, <1>4, StatementsRewrite DEF TypeOK, Touch
<1>5. ASSUME TouchFails(i) PROVE TypeOK'
  BY <1>5 DEF TypeOK, TouchFails, Ids
<1> QED
  BY <1>2, <1>3, <1>4, <1>5 DEF DetachedStep

LEMMA NextKeepsTypes == TypeOK /\ [Next]_vars => TypeOK'
<1> SUFFICES ASSUME TypeOK, [Next]_vars PROVE TypeOK'
  OBVIOUS
<1>1. ASSUME NEW r \in Requests, HandlerStep(r) PROVE TypeOK'
  BY <1>1, HandlerKeepsTypes
<1>2. ASSUME NEW i \in superseding \union touching, DetachedStep(i) PROVE TypeOK'
  BY <1>2, DetachedKeepsTypes
<1>3. CASE Crash
  <2>1. Reloading \subseteq Ids
    BY DEF TypeOK, Reloading
  <2> QED
    BY <1>3, <2>1 DEF TypeOK, Crash, Ids, Idle
<1>4. CASE Tick
  BY <1>4 DEF TypeOK, Tick, Ids, Epoch
<1>5. CASE UNCHANGED vars
  BY <1>5 DEF TypeOK, vars, Ids
<1> QED
  BY <1>1, <1>2, <1>3, <1>4, <1>5 DEF Next

\* The variables of every reachable state have their types, and every handler,
\* goroutine and client token refers to a row of the table.
THEOREM TypeCorrect == Spec => []TypeOK
<1>1. Init => TypeOK
  BY EmptySeq DEF Init, TypeOK, Idle, Epoch, Ids
<1> QED
  BY <1>1, NextKeepsTypes, PTL DEF Spec

-----------------------------------------------------------------------------
(* Every step, seen from the table *)

LEMMA EveryStepOnTheTable ==
  ASSUME TypeOK, [Next]_vars
  PROVE  Rewrites \/ \E r \in Requests : Mint(r) /\ Inserts
<1>1. ASSUME NEW r \in Requests, HandlerStep(r)
      PROVE  Rewrites \/ (Mint(r) /\ Inserts)
  <2>1. CASE Mint(r)
    BY <2>1, MintInserts
  <2>2. CASE Logout(r) \/ ChangeEmail(r)
    BY <2>2, StatementsRewrite
  <2>3. CASE ~Mint(r) /\ ~Logout(r) /\ ~ChangeEmail(r)
    <3>1. sessions' = sessions
      BY <1>1, <2>3 DEF HandlerStep, LoginReads, RefreshReads, AuthorizeReads, MintFor,
                        Reload, Answer, Fail, Respond
    <3> QED
      BY <3>1, StatementsRewrite
  <2> QED
    BY <2>1, <2>2, <2>3
<1>2. ASSUME NEW i \in superseding \union touching, DetachedStep(i) PROVE Rewrites
  <2>1. i \in Ids
    BY DEF TypeOK
  <2>2. InvalidateAllExcept(i) \/ TouchLastUsedAt(i) \/ sessions' = sessions
    BY <1>2 DEF DetachedStep, Supersede, SupersedeFails, Touch, TouchFails
  <2> QED
    BY <2>1, <2>2, StatementsRewrite
<1>3. ASSUME Crash \/ Tick \/ UNCHANGED vars PROVE Rewrites
  <2>1. sessions' = sessions
    BY <1>3 DEF Crash, Tick, vars
  <2> QED
    BY <2>1, StatementsRewrite
<1> QED
  BY <1>1, <1>2, <1>3 DEF Next

\* What a step adds to loggedOut it has revoked, and nothing is taken out of it.
LEMMA EveryStepOnLoggedOut ==
  ASSUME TypeOK, [Next]_vars
  PROVE  /\ loggedOut \subseteq loggedOut'
         /\ \A i \in loggedOut' \ loggedOut :
              i \in Ids /\ sessions'[i] = Revoked(sessions[i])
<1> USE RowTypes
<1>1. ASSUME NEW r \in Requests, Logout(r)
      PROVE  /\ loggedOut \subseteq loggedOut'
             /\ \A i \in loggedOut' \ loggedOut :
                  i \in Ids /\ sessions'[i] = Revoked(sessions[i])
  <2>1. requests[r].source \in Ids
    BY <1>1 DEF TypeOK, Logout
  <2> QED
    BY <1>1, <2>1 DEF Logout
<1>2. ASSUME NEW r \in Requests, ChangeEmail(r)
      PROVE  /\ loggedOut \subseteq loggedOut'
             /\ \A i \in loggedOut' \ loggedOut :
                  i \in Ids /\ sessions'[i] = Revoked(sessions[i])
  BY <1>2 DEF ChangeEmail, HeldBy
<1>3. (\A r \in Requests : ~Logout(r) /\ ~ChangeEmail(r)) => loggedOut' = loggedOut
  BY DEF Next, HandlerStep, DetachedStep, LoginReads, RefreshReads, AuthorizeReads,
         MintFor, Mint, Reload, Answer, Fail, Respond, Supersede, SupersedeFails,
         Touch, TouchFails, Crash, Tick, vars
<1> QED
  BY <1>1, <1>2, <1>3

-----------------------------------------------------------------------------
(* Logging out *)

\* The part of LogoutKillsBothTokens the rest follows from, now being past Epoch.
LoggedOutRevoked == \A i \in loggedOut : sessions[i] = Revoked(sessions[i])

LEMMA RevokedIsDead ==
  ASSUME TypeOK, LoggedOutRevoked
  PROVE  /\ LogoutKillsBothTokens
         /\ \A i \in loggedOut : sessions[i].invalidated /\ sessions[i].refreshUntil = Epoch
<1>1. ASSUME NEW i \in loggedOut
      PROVE  sessions[i].invalidated /\ sessions[i].refreshUntil = Epoch
  <2>1. sessions[i] \in Row
    BY RowTypes DEF TypeOK
  <2>2. Revoked(sessions[i]).invalidated /\ Revoked(sessions[i]).refreshUntil = Epoch
    BY <2>1 DEF Revoked, Row
  <2> QED
    BY <2>2 DEF LoggedOutRevoked
<1>2. ~(Epoch >= now)
  BY DEF TypeOK, Epoch
<1> QED
  BY <1>1, <1>2 DEF LoggedOutRevoked, LogoutKillsBothTokens, Usable, Refreshable

\* No statement changes a row that is revoked already.
LEMMA RevokedStays ==
  ASSUME TypeOK, LoggedOutRevoked, [Next]_vars, NEW i \in loggedOut
  PROVE  sessions'[i] = sessions[i]
<1> USE RowTypes
<1>0. i \in Ids /\ sessions[i].invalidated /\ sessions[i] = Revoked(sessions[i])
  BY RevokedIsDead DEF TypeOK, LoggedOutRevoked
<1>1. ASSUME NEW r \in Requests, HandlerStep(r) PROVE sessions'[i] = sessions[i]
  <2>1. CASE Mint(r)
    BY <1>0, <2>1, MintInserts DEF Inserts
  <2>2. CASE Logout(r)
    <3>1. requests[r].source \in Ids
      BY <2>2 DEF TypeOK, Logout
    <3> QED
      BY <1>0, <2>2, <3>1 DEF Logout
  <2>3. CASE ChangeEmail(r)
    BY <1>0, <2>3 DEF ChangeEmail
  <2>4. CASE ~Mint(r) /\ ~Logout(r) /\ ~ChangeEmail(r)
    BY <1>1, <2>4 DEF HandlerStep, LoginReads, RefreshReads, AuthorizeReads, MintFor,
                      Reload, Answer, Fail, Respond
  <2> QED
    BY <2>1, <2>2, <2>3, <2>4
<1>2. ASSUME NEW k \in superseding \union touching, DetachedStep(k)
      PROVE  sessions'[i] = sessions[i]
  <2>1. k \in Ids
    BY DEF TypeOK
  <2>2. CASE Supersede(k)
    BY <1>0, <2>2 DEF Supersede, InvalidateAllExcept
  <2>3. CASE Touch(k)
    BY <1>0, <2>1, <2>3 DEF Touch, TouchLastUsedAt
  <2>4. CASE SupersedeFails(k) \/ TouchFails(k)
    BY <2>4 DEF SupersedeFails, TouchFails
  <2> QED
    BY <1>2, <2>2, <2>3, <2>4 DEF DetachedStep
<1>3. ASSUME Crash \/ Tick \/ UNCHANGED vars PROVE sessions'[i] = sessions[i]
  BY <1>3 DEF Crash, Tick, vars
<1> QED
  BY <1>1, <1>2, <1>3 DEF Next

LEMMA LoggedOutRevokedInductive ==
  TypeOK /\ LoggedOutRevoked /\ [Next]_vars => LoggedOutRevoked'
<1> SUFFICES ASSUME TypeOK, LoggedOutRevoked, [Next]_vars, NEW i \in loggedOut'
             PROVE  sessions'[i] = Revoked(sessions'[i])
  BY DEF LoggedOutRevoked, Revoked
<1>1. CASE i \in loggedOut
  BY <1>1, RevokedStays DEF LoggedOutRevoked
<1>2. CASE i \notin loggedOut
  <2>1. sessions'[i] = Revoked(sessions[i]) /\ sessions[i] \in Row
    BY <1>2, EveryStepOnLoggedOut, RowTypes
  <2> QED
    BY <2>1 DEF Revoked, Row
<1> QED
  BY <1>1, <1>2

\* A session closed by a logout or a change of email is neither usable nor
\* refreshable ever after, whatever was in flight or detached.
THEOREM LogoutIsFinal == Spec => []LogoutKillsBothTokens
<1>1. Init => LoggedOutRevoked
  BY DEF Init, LoggedOutRevoked
<1>2. TypeOK /\ LoggedOutRevoked => LogoutKillsBothTokens
  BY RevokedIsDead
<1> QED
  BY <1>1, <1>2, TypeCorrect, LoggedOutRevokedInductive, PTL DEF Spec

\* A handler about to insert has been so before, or has read a session whose
\* refresh window is open, or none.
LEMMA NobodyRefreshesClosed ==
  ASSUME TypeOK, LoggedOutRevoked, [Next]_vars, NEW i \in loggedOut
  PROVE  Refreshing(i)' \subseteq Refreshing(i)
<1>0. i \in Ids /\ i # 0 /\ ~Refreshable(sessions[i])
  BY RevokedIsDead DEF TypeOK, LogoutKillsBothTokens, Ids
<1>1. SUFFICES ASSUME NEW q \in Requests, requests'[q].pc = "mint", requests'[q].source = i
               PROVE  requests[q] = requests'[q]
  BY DEF Refreshing
<1>2. ASSUME NEW r \in Requests, HandlerStep(r) PROVE requests[q] = requests'[q]
  <2>1. ASSUME NEW u \in Users, NEW a \in Apps, NEW ip \in Ips, LoginReads(r, u, a, ip)
        PROVE  requests[q] = requests'[q]
    BY <1>0, <1>1, <2>1 DEF TypeOK, LoginReads, MintFor
  <2>2. ASSUME NEW k \in held, NEW ip \in Ips, RefreshReads(r, k, ip)
        PROVE  requests[q] = requests'[q]
    BY <1>0, <1>1, <2>2 DEF TypeOK, RefreshReads, MintFor
  <2>3. ASSUME NEW k \in held, NEW ip \in Ips, AuthorizeReads(r, k, ip)
        PROVE  requests[q] = requests'[q]
    BY <1>1, <2>3 DEF TypeOK, AuthorizeReads
  <2>4. CASE Mint(r) \/ Reload(r)
    BY <1>1, <2>4 DEF TypeOK, Mint, Reload, Handler, Idle
  <2>5. CASE Answer(r) \/ Fail(r) \/ Logout(r) \/ ChangeEmail(r) \/ Respond(r)
    BY <1>1, <2>5 DEF TypeOK, Answer, Fail, Logout, ChangeEmail, Respond, Idle
  <2> QED
    BY <1>2, <2>1, <2>2, <2>3, <2>4, <2>5 DEF HandlerStep
<1>3. ASSUME NEW k \in superseding \union touching, DetachedStep(k)
      PROVE  requests[q] = requests'[q]
  BY <1>3 DEF DetachedStep, Supersede, SupersedeFails, Touch, TouchFails
<1>4. CASE Crash
  BY <1>1, <1>4 DEF Crash, Idle
<1>5. CASE Tick \/ UNCHANGED vars
  BY <1>5 DEF Tick, vars
<1> QED
  BY <1>2, <1>3, <1>4, <1>5 DEF Next

\* A row gets its parent from the handler that inserts it, and keeps it.
LEMMA OneSessionPerRefresh ==
  ASSUME TypeOK, [Next]_vars, NEW i \in Ids, MintedFrom(i)' # MintedFrom(i)
  PROVE  \E r \in Refreshing(i) \ Refreshing(i)' :
           MintedFrom(i)' \ MintedFrom(i) = {requests'[r].minted}
<1> USE RowTypes
<1>1. CASE Rewrites
  <2>1. Ids' = Ids /\ \A k \in Ids : sessions'[k].parent = sessions[k].parent
    BY <1>1 DEF Rewrites, KeepsRow, Ids
  <2> QED
    BY <2>1 DEF MintedFrom
<1>2. CASE \E r \in Requests : Mint(r) /\ Inserts
  <2>1. PICK r \in Requests : Mint(r) /\ Inserts
    BY <1>2
  <2> DEFINE new == Len(sessions) + 1
  <2>2. Ids' = Ids \union {new} /\ new \notin Ids
    BY <2>1 DEF Inserts, Ids
  <2>3. \A k \in Ids : sessions'[k].parent = sessions[k].parent
    BY <2>1 DEF Inserts
  <2>4. sessions'[new].parent = requests[r].source
    <3>1. sessions'[Len(sessions')] = NewRow(requests[r]) /\ Len(sessions') = new
      BY <2>1, MintInserts DEF Inserts
    <3> QED
      BY <3>1 DEF NewRow
  <2>5. MintedFrom(i)' = MintedFrom(i) \union {k \in {new} : requests[r].source = i}
    BY <2>2, <2>3, <2>4 DEF MintedFrom
  <2>6. requests[r].source = i
    BY <2>5
  <2>7. MintedFrom(i)' \ MintedFrom(i) = {new}
    BY <2>2, <2>5, <2>6 DEF MintedFrom
  <2>8. requests'[r].minted = new /\ requests'[r].pc = "reload"
    BY <2>1 DEF TypeOK, Mint, Handler, Idle
  <2>9. r \in Refreshing(i) \ Refreshing(i)'
    BY <2>1, <2>6, <2>8 DEF Refreshing, Mint
  <2> QED
    BY <2>7, <2>8, <2>9
<1> QED
  BY <1>1, <1>2, EveryStepOnTheTable

\* After the logout of a session no step writes its row and no Refresh accepts its
\* token; a new session comes from it only by a Refresh that had read it before.
THEOREM ClosingIsForGood == Spec => ClosedForGood
<1>1. Init => LoggedOutRevoked
  BY DEF Init, LoggedOutRevoked
<1>2. ASSUME TypeOK, LoggedOutRevoked, [Next]_vars, NEW i \in loggedOut
      PROVE  /\ sessions'[i] = sessions[i]
             /\ Refreshing(i)' \subseteq Refreshing(i)
             /\ MintedFrom(i)' # MintedFrom(i) =>
                  \E r \in Refreshing(i) \ Refreshing(i)' :
                    MintedFrom(i)' \ MintedFrom(i) = {requests'[r].minted}
  <2>1. i \in Ids
    BY <1>2 DEF TypeOK
  <2> QED
    BY <1>2, <2>1, RevokedStays, NobodyRefreshesClosed, OneSessionPerRefresh
<1>3. TypeOK /\ LoggedOutRevoked /\ [Next]_vars
        => [\A i \in loggedOut :
              /\ sessions'[i] = sessions[i]
              /\ Refreshing(i)' \subseteq Refreshing(i)
              /\ MintedFrom(i)' # MintedFrom(i) =>
                   \E r \in Refreshing(i) \ Refreshing(i)' :
                     MintedFrom(i)' \ MintedFrom(i) = {requests'[r].minted}]_vars
  BY <1>2
<1> QED
  BY <1>1, <1>3, TypeCorrect, LoggedOutRevokedInductive, PTL DEF Spec, ClosedForGood

-----------------------------------------------------------------------------
(* Superseding *)

\* A row is flagged by its own logout, or because its owner has another row.
LEMMA NewlyInvalidated ==
  ASSUME TypeOK, [Next]_vars, NEW i \in Ids,
         ~sessions[i].invalidated, sessions'[i].invalidated
  PROVE  i \in loggedOut' \/ \E j \in Ids \ {i} : SameOwner(i, j)
<1> USE RowTypes
<1>0. sessions'[i] # sessions[i]
  OBVIOUS
<1>1. ASSUME NEW r \in Requests, HandlerStep(r) PROVE i \in loggedOut'
  <2>1. CASE Mint(r)
    BY <1>0, <2>1, MintInserts DEF Inserts
  <2>2. CASE Logout(r)
    <3>1. requests[r].source \in Ids
      BY <2>2 DEF TypeOK, Logout
    <3> QED
      BY <1>0, <2>2, <3>1 DEF Logout
  <2>3. CASE ChangeEmail(r)
    BY <1>0, <2>3 DEF ChangeEmail
  <2>4. CASE ~Mint(r) /\ ~Logout(r) /\ ~ChangeEmail(r)
    BY <1>0, <1>1, <2>4 DEF HandlerStep, LoginReads, RefreshReads, AuthorizeReads,
                            MintFor, Reload, Answer, Fail, Respond
  <2> QED
    BY <2>1, <2>2, <2>3, <2>4
<1>2. ASSUME NEW k \in superseding \union touching, DetachedStep(k)
      PROVE  \E j \in Ids \ {i} : SameOwner(i, j)
  <2>1. k \in Ids
    BY DEF TypeOK
  <2>2. CASE Supersede(k)
    BY <1>0, <2>1, <2>2 DEF Supersede, InvalidateAllExcept
  <2>3. CASE Touch(k)
    <3>1. sessions'[i].invalidated = sessions[i].invalidated
      BY <2>1, <2>3 DEF Touch, TouchLastUsedAt, Touched, Row
    <3> QED
      BY <3>1
  <2>4. CASE SupersedeFails(k) \/ TouchFails(k)
    BY <1>0, <2>4 DEF SupersedeFails, TouchFails
  <2> QED
    BY <1>2, <2>2, <2>3, <2>4 DEF DetachedStep
<1>3. ASSUME Crash \/ Tick \/ UNCHANGED vars PROVE FALSE
  BY <1>0, <1>3 DEF Crash, Tick, vars
<1> QED
  BY <1>1, <1>2, <1>3 DEF Next

LEMMA NobodyElseInductive ==
  TypeOK /\ NobodyElseLoggedOut /\ [Next]_vars => NobodyElseLoggedOut'
<1> SUFFICES ASSUME TypeOK, NobodyElseLoggedOut, [Next]_vars,
                    NEW i \in Ids', i \notin loggedOut', sessions'[i].invalidated
             PROVE  \E j \in Ids' \ {i} : /\ sessions'[i].user = sessions'[j].user
                                          /\ sessions'[i].app = sessions'[j].app
  BY DEF NobodyElseLoggedOut, SameOwner
<1>1. i \in Ids /\ \A j \in Ids : KeepsRow(j)
  BY EveryStepOnTheTable, RowTypes DEF Rewrites, Inserts, Ids
<1>2. i \notin loggedOut
  BY EveryStepOnLoggedOut
<1>3. \E j \in Ids \ {i} : SameOwner(i, j)
  <2>1. CASE sessions[i].invalidated
    BY <1>1, <1>2, <2>1 DEF NobodyElseLoggedOut
  <2>2. CASE ~sessions[i].invalidated
    BY <1>1, <2>2, NewlyInvalidated
  <2> QED
    BY <2>1, <2>2
<1> QED
  BY <1>1, <1>3 DEF KeepsRow, SameOwner

\* Signing in, refreshing, and the goroutines of both never take the session of
\* another user, nor one on another app.
THEOREM NobodyElseIsLoggedOut == Spec => []NobodyElseLoggedOut
<1>1. Init => NobodyElseLoggedOut
  BY EmptySeq DEF Init, NobodyElseLoggedOut, Ids
<1> QED
  BY <1>1, TypeCorrect, NobodyElseInductive, PTL DEF Spec

\* The sessions whose goroutine has yet to run, or was lost.
NotYetSuperseding == superseding \union dropped \union Reloading

\* A session leaves that set only when its goroutine runs.
LEMMA LeavesBySuperseding ==
  ASSUME TypeOK, [Next]_vars, NEW j \in NotYetSuperseding, j \notin NotYetSuperseding'
  PROVE  Supersede(j)
<1> USE DEF NotYetSuperseding
<1>1. ASSUME NEW r \in Requests, HandlerStep(r) PROVE FALSE
  <2>0. requests \in [Requests -> Handler \union {Idle}] /\ Idle.pc = "idle"
    BY DEF TypeOK, Idle
  <2>1. ASSUME NEW q \in Requests, requests[q].pc = "reload", requests[q].minted = j
        PROVE  j \in NotYetSuperseding'
    <3>1. CASE q # r
      <4>1. requests'[q] = requests[q]
        BY <1>1, <2>0, <3>1 DEF HandlerStep, LoginReads, RefreshReads, AuthorizeReads,
             MintFor, Mint, Reload, Answer, Fail, Logout, ChangeEmail, Respond
      <4> QED
        BY <2>1, <4>1 DEF Reloading
    <3>2. CASE q = r /\ Reload(r)
      BY <2>1, <3>2 DEF Reload
    <3>3. CASE q = r /\ Fail(r)
      BY <2>1, <3>3 DEF Fail
    <3>4. CASE q = r /\ ~Reload(r) /\ ~Fail(r)
      BY <1>1, <2>0, <2>1, <3>4 DEF HandlerStep, LoginReads, RefreshReads, AuthorizeReads,
           MintFor, Mint, Answer, Logout, ChangeEmail, Respond
    <3> QED
      BY <3>1, <3>2, <3>3, <3>4
  <2>2. superseding \subseteq superseding' /\ dropped \subseteq dropped'
    BY <1>1 DEF HandlerStep, LoginReads, RefreshReads, AuthorizeReads,
         MintFor, Mint, Reload, Answer, Fail, Logout, ChangeEmail, Respond
  <2> QED
    BY <2>1, <2>2 DEF Reloading
<1>2. ASSUME NEW i \in superseding \union touching, DetachedStep(i)
      PROVE  Supersede(j)
  BY <1>2 DEF DetachedStep, Supersede, SupersedeFails, Touch, TouchFails, Reloading
<1>3. ASSUME Crash PROVE FALSE
  BY <1>3 DEF Crash
<1>4. ASSUME Tick \/ UNCHANGED vars PROVE FALSE
  BY <1>4 DEF Tick, vars, Reloading
<1> QED
  BY <1>1, <1>2, <1>3, <1>4 DEF Next

\* The row an INSERT adds is waiting for its handler to detach the superseding.
LEMMA FreshRowIsReloading ==
  ASSUME TypeOK, [Next]_vars, NEW j \in Ids' \ Ids
  PROVE  j \in Reloading'
<1>1. PICK r \in Requests : Mint(r)
  BY EveryStepOnTheTable DEF Rewrites, Ids
<1>2. j = Len(sessions) + 1
  BY <1>1, MintInserts, RowTypes DEF Inserts, Ids
<1>3. requests'[r].pc = "reload" /\ requests'[r].minted = Len(sessions) + 1
  <2>1. requests \in [Requests -> Handler \union {Idle}] /\ requests[r] \in Handler
    BY <1>1 DEF TypeOK, Mint, Idle
  <2> QED
    BY <1>1, <2>1 DEF Mint, Handler
<1> QED
  BY <1>2, <1>3 DEF Reloading

LEMMA OlderSupersededInductive ==
  TypeOK /\ OlderSessionsSuperseded /\ [Next]_vars => OlderSessionsSuperseded'
<1> SUFFICES ASSUME TypeOK, OlderSessionsSuperseded, [Next]_vars,
                    NEW j \in Ids', j \notin NotYetSuperseding',
                    NEW i \in 1..(j - 1),
                    sessions'[i].user = sessions'[j].user,
                    sessions'[i].app = sessions'[j].app
             PROVE  sessions'[i].invalidated
  BY DEF OlderSessionsSuperseded, SameOwner, NotYetSuperseding
<1> USE RowTypes
<1>1. j \in Ids
  BY FreshRowIsReloading DEF NotYetSuperseding
<1>2. i \in Ids /\ i # j
  BY <1>1 DEF Ids
<1>3. KeepsRow(i) /\ KeepsRow(j)
  BY <1>1, <1>2, EveryStepOnTheTable DEF Rewrites, Inserts
<1>4. SameOwner(i, j)
  BY <1>3 DEF KeepsRow, SameOwner
<1>5. CASE j \notin NotYetSuperseding
  BY <1>1, <1>3, <1>4, <1>5 DEF OlderSessionsSuperseded, NotYetSuperseding, KeepsRow
<1>6. CASE j \in NotYetSuperseding
  <2>1. Supersede(j)
    BY <1>6, LeavesBySuperseding
  <2>2. CASE sessions[i].invalidated
    BY <1>3, <2>2 DEF KeepsRow
  <2>3. CASE ~sessions[i].invalidated
    <3>1. sessions'[i] = Invalidated(sessions[i])
      BY <1>2, <1>4, <2>1, <2>3 DEF Supersede, InvalidateAllExcept
    <3> QED
      BY <1>2, <3>1 DEF Invalidated, Row
  <2> QED
    BY <2>2, <2>3
<1> QED
  BY <1>5, <1>6

\* Once the goroutine of a session has run, no older session of its owner is live.
THEOREM OneLiveSessionOnceDrained == Spec => []OlderSessionsSuperseded
<1>1. Init => OlderSessionsSuperseded
  BY EmptySeq DEF Init, OlderSessionsSuperseded, Ids
<1> QED
  BY <1>1, TypeCorrect, OlderSupersededInductive, PTL DEF Spec

-----------------------------------------------------------------------------
(* Lifetimes and lineage *)

\* Both ends of a session were computed from the one instant it was minted at.
WindowsTogether ==
  \A i \in Ids \ loggedOut :
    sessions[i].refreshUntil + AccessTtl[sessions[i].app]
      = sessions[i].expiresAt + RefreshTtl[sessions[i].app]

\* A step leaves the windows of a session it does not log out alone.
LEMMA WindowsKept ==
  ASSUME TypeOK, [Next]_vars, NEW i \in Ids, i \notin loggedOut'
  PROVE  /\ sessions'[i].refreshUntil = sessions[i].refreshUntil
         /\ sessions'[i].expiresAt = sessions[i].expiresAt
<1> USE RowTypes
<1> DEFINE Kept == /\ sessions'[i].refreshUntil = sessions[i].refreshUntil
                   /\ sessions'[i].expiresAt = sessions[i].expiresAt
<1>1. ASSUME NEW r \in Requests, HandlerStep(r) PROVE Kept
  <2>1. CASE Mint(r)
    BY <2>1, MintInserts DEF Inserts
  <2>2. CASE Logout(r)
    BY <2>2 DEF Logout
  <2>3. CASE ChangeEmail(r)
    BY <2>3 DEF ChangeEmail
  <2>4. CASE ~Mint(r) /\ ~Logout(r) /\ ~ChangeEmail(r)
    BY <1>1, <2>4 DEF HandlerStep, LoginReads, RefreshReads, AuthorizeReads, MintFor,
                      Reload, Answer, Fail, Respond
  <2> QED
    BY <2>1, <2>2, <2>3, <2>4
<1>2. ASSUME NEW k \in superseding \union touching, DetachedStep(k) PROVE Kept
  <2>1. k \in Ids
    BY DEF TypeOK
  <2>2. sessions'[i] \in {sessions[i], Invalidated(sessions[i]), Touched(sessions[i])}
    BY <1>2, <2>1 DEF DetachedStep, Supersede, SupersedeFails, Touch, TouchFails,
                      InvalidateAllExcept, TouchLastUsedAt
  <2> QED
    BY <2>2 DEF Invalidated, Touched, Row
<1>3. ASSUME Crash \/ Tick \/ UNCHANGED vars PROVE Kept
  BY <1>3 DEF Crash, Tick, vars
<1> QED
  BY <1>1, <1>2, <1>3 DEF Next

\* Row i of the next state is an old row, or the one a handler has just minted.
LEMMA OldOrMinted ==
  ASSUME TypeOK, [Next]_vars, NEW i \in Ids'
  PROVE  \/ i \in Ids /\ KeepsRow(i)
         \/ \E r \in Requests : Mint(r) /\ sessions'[i] = NewRow(requests[r])
<1>1. CASE Rewrites
  BY <1>1 DEF Rewrites, Ids
<1>2. ASSUME NEW r \in Requests, Mint(r), Inserts
      PROVE  \/ i \in Ids /\ KeepsRow(i)
             \/ sessions'[i] = NewRow(requests[r])
  <2>1. i \in Ids \/ i = Len(sessions')
    BY <1>2, RowTypes DEF Inserts, Ids
  <2> QED
    BY <1>2, <2>1, MintInserts DEF Inserts
<1> QED
  BY <1>1, <1>2, EveryStepOnTheTable

LEMMA WindowsTogetherInductive ==
  TypeOK /\ WindowsTogether /\ [Next]_vars => WindowsTogether'
<1> SUFFICES ASSUME TypeOK, WindowsTogether, [Next]_vars,
                    NEW i \in Ids', i \notin loggedOut'
             PROVE  sessions'[i].refreshUntil + AccessTtl[sessions'[i].app]
                      = sessions'[i].expiresAt + RefreshTtl[sessions'[i].app]
  BY DEF WindowsTogether
<1>1. CASE i \in Ids /\ KeepsRow(i)
  <2>1. i \notin loggedOut
    BY EveryStepOnLoggedOut
  <2> QED
    BY <1>1, <2>1, WindowsKept DEF WindowsTogether, KeepsRow
<1>2. ASSUME NEW r \in Requests, Mint(r), sessions'[i] = NewRow(requests[r])
      PROVE  sessions'[i].refreshUntil + AccessTtl[sessions'[i].app]
               = sessions'[i].expiresAt + RefreshTtl[sessions'[i].app]
  <2>1. requests[r].app \in Apps /\ now \in Nat
    BY <1>2 DEF TypeOK, Mint, Idle, Handler
  <2>2. AccessTtl[requests[r].app] \in Nat /\ RefreshTtl[requests[r].app] \in Nat
    BY <2>1, TtlAssumption
  <2> QED
    BY <1>2, <2>1, <2>2 DEF NewRow
<1> QED
  BY <1>1, <1>2, OldOrMinted

\* Being superseded, any number of times, never shortens a refresh window.
THEOREM SupersededStaysRefreshable == Spec => []SupersededCanRefresh
<1>1. Init => WindowsTogether
  BY EmptySeq DEF Init, WindowsTogether, Ids
<1>2. TypeOK /\ WindowsTogether => SupersededCanRefresh
  <2> SUFFICES ASSUME TypeOK, WindowsTogether, NEW i \in held \ loggedOut
               PROVE  sessions[i].expiresAt - AccessTtl[sessions[i].app]
                        + RefreshTtl[sessions[i].app] >= now => Refreshable(sessions[i])
    BY DEF SupersededCanRefresh
  <2>1. i \in Ids /\ sessions[i] \in Row /\ now \in Nat
    BY RowTypes DEF TypeOK
  <2>2. /\ AccessTtl[sessions[i].app] \in Nat
        /\ RefreshTtl[sessions[i].app] \in Nat
        /\ sessions[i].expiresAt \in Nat
        /\ sessions[i].refreshUntil \in Nat
    BY <2>1, TtlAssumption DEF Row
  <2> QED
    BY <2>1, <2>2 DEF WindowsTogether, Refreshable
<1> QED
  BY <1>1, <1>2, TypeCorrect, WindowsTogetherInductive, PTL DEF Spec

\* A handler about to mint carries the owner and the address of the session it read.
HandlersCarryLineage ==
  \A r \in Requests :
    LET h == requests[r]
    IN  h.pc = "mint" /\ h.source # 0
          => /\ h.source \in held
             /\ h.user = sessions[h.source].user
             /\ h.app = sessions[h.source].app
             /\ h.ip = sessions[h.source].ip

LEMMA HandlersCarryLineageInductive ==
  TypeOK /\ HandlersCarryLineage /\ [Next]_vars => HandlersCarryLineage'
<1> SUFFICES ASSUME TypeOK, HandlersCarryLineage, [Next]_vars,
                    NEW r \in Requests,
                    requests'[r].pc = "mint", requests'[r].source # 0
             PROVE  LET h == requests'[r]
                    IN  /\ h.source \in held'
                        /\ h.user = sessions'[h.source].user
                        /\ h.app = sessions'[h.source].app
                        /\ h.ip = sessions'[h.source].ip
  BY DEF HandlersCarryLineage
<1> DEFINE h == requests'[r]
<1>0. /\ requests \in [Requests -> Handler \union {Idle}]
      /\ Idle.pc = "idle"
      /\ held \subseteq Ids
  BY DEF TypeOK, Idle
<1>1. held \subseteq held'
  BY DEF Next, HandlerStep, DetachedStep, LoginReads, RefreshReads, AuthorizeReads,
         MintFor, Mint, Reload, Answer, Fail, Logout, ChangeEmail, Respond, Supersede,
         SupersedeFails, Touch, TouchFails, Crash, Tick, vars
<1>2. \A i \in Ids : KeepsRow(i)
  BY EveryStepOnTheTable DEF Rewrites, Inserts
<1>3. CASE requests'[r] = requests[r]
  <2>1. h.source \in held /\ h.source \in Ids
    BY <1>0, <1>3 DEF HandlersCarryLineage
  <2> QED
    BY <1>1, <1>2, <1>3, <2>1 DEF HandlersCarryLineage, KeepsRow
<1>4. CASE requests'[r] # requests[r]
  <2>1. HandlerStep(r)
    <3>1. ASSUME NEW q \in Requests, HandlerStep(q) PROVE q = r
      BY <1>0, <1>4, <3>1 DEF HandlerStep, LoginReads, RefreshReads, AuthorizeReads,
           MintFor, Mint, Reload, Answer, Fail, Logout, ChangeEmail, Respond
    <3>2. ASSUME NEW i \in superseding \union touching, DetachedStep(i) PROVE FALSE
      BY <1>4, <3>2 DEF DetachedStep, Supersede, SupersedeFails, Touch, TouchFails
    <3>3. ~Crash /\ ~Tick /\ ~(UNCHANGED vars)
      BY <1>0, <1>4 DEF Crash, Tick, vars
    <3> QED
      BY <3>1, <3>2, <3>3 DEF Next
  <2>2. ~(\E u \in Users, a \in Apps, ip \in Ips : LoginReads(r, u, a, ip))
    BY <1>0 DEF LoginReads, MintFor
  <2>3. ~Mint(r) /\ ~Reload(r) /\ ~Answer(r) /\ ~Fail(r) /\ ~Logout(r)
          /\ ~ChangeEmail(r) /\ ~Respond(r)
    <3>1. requests[r].pc # "idle" => requests[r] \in Handler
      BY <1>0
    <3>2. ~Mint(r)
      BY <1>0, <3>1 DEF Mint, Handler
    <3>3. ~Reload(r)
      BY <1>0, <3>1 DEF Reload, Handler
    <3>4. requests'[r] # Idle
      BY <1>0
    <3> QED
      BY <1>0, <3>2, <3>3, <3>4 DEF Answer, Fail, Logout, ChangeEmail, Respond
  <2>4. \A i \in held, ip \in Ips : ~AuthorizeReads(r, i, ip)
    BY <1>0 DEF AuthorizeReads
  <2>5. PICK i \in held, ip \in Ips : RefreshReads(r, i, ip)
    BY <2>1, <2>2, <2>3, <2>4 DEF HandlerStep
  <2>6. /\ h.source = i /\ h.user = sessions[i].user /\ h.app = sessions[i].app
        /\ h.ip = sessions[i].ip
        /\ i \in held' /\ sessions' = sessions
    BY <1>0, <1>1, <2>5 DEF RefreshReads, MintFor
  <2> QED
    BY <2>6
<1> QED
  BY <1>3, <1>4

LEMMA LineageInductive ==
  TypeOK /\ HandlersCarryLineage /\ LineageIntact /\ [Next]_vars => LineageIntact'
<1> SUFFICES ASSUME TypeOK, HandlersCarryLineage, LineageIntact, [Next]_vars,
                    NEW i \in Ids', sessions'[i].parent # 0
             PROVE  LET p == sessions'[i].parent
                    IN  /\ p < i
                        /\ p \in held'
                        /\ sessions'[p].user = sessions'[i].user
                        /\ sessions'[p].app = sessions'[i].app
                        /\ sessions'[p].ip = sessions'[i].ip
  BY DEF LineageIntact, SameOwner
<1> DEFINE p == sessions'[i].parent
<1>0. \A k \in Ids : KeepsRow(k)
  BY EveryStepOnTheTable DEF Rewrites, Inserts
<1>1. held \subseteq held' /\ held \subseteq Ids
  BY DEF TypeOK, Next, HandlerStep, DetachedStep, LoginReads, RefreshReads,
         AuthorizeReads, MintFor, Mint, Reload, Answer, Fail, Logout, ChangeEmail,
         Respond, Supersede, SupersedeFails, Touch, TouchFails, Crash, Tick, vars
<1>2. CASE i \in Ids
  <2>1. p = sessions[i].parent /\ p \in held /\ p \in Ids /\ p < i
    BY <1>0, <1>1, <1>2 DEF KeepsRow, LineageIntact
  <2> QED
    BY <1>0, <1>1, <1>2, <2>1 DEF KeepsRow, LineageIntact, SameOwner
<1>3. CASE i \notin Ids
  <2>1. PICK r \in Requests : Mint(r) /\ sessions'[i] = NewRow(requests[r])
    BY <1>3, OldOrMinted
  <2>2. p = requests[r].source
    BY <2>1 DEF NewRow
  <2>3. p \in held /\ p \in Ids
    BY <1>1, <2>1, <2>2 DEF HandlersCarryLineage, Mint
  <2>4. p < i
    BY <1>3, <2>3, RowTypes DEF Ids
  <2>5. /\ sessions[p].user = sessions'[i].user
        /\ sessions[p].app = sessions'[i].app
        /\ sessions[p].ip = sessions'[i].ip
    <3>1. /\ sessions'[i].user = requests[r].user
          /\ sessions'[i].app = requests[r].app
          /\ sessions'[i].ip = requests[r].ip
      BY <2>1 DEF NewRow
    <3>2. requests[r].pc = "mint" /\ requests[r].source # 0
      BY <2>1, <2>2 DEF Mint
    <3> QED
      BY <2>2, <3>1, <3>2 DEF HandlersCarryLineage
  <2> QED
    BY <1>0, <1>1, <2>3, <2>4, <2>5 DEF KeepsRow
<1> QED
  BY <1>2, <1>3

\* A rotation stays with the user, the app and the address of the session it came
\* from, through the statements that run between reading it and minting.
THEOREM RotationKeepsLineage == Spec => []LineageIntact
<1>1. Init => HandlersCarryLineage /\ LineageIntact
  BY EmptySeq DEF Init, HandlersCarryLineage, LineageIntact, Ids, Idle
<1> QED
  BY <1>1, TypeCorrect, HandlersCarryLineageInductive, LineageInductive, PTL DEF Spec

-----------------------------------------------------------------------------
(* The book of sessions *)

\* A live row has a refresh window; only a revocation puts Epoch there.
LiveWindowOpen == \A i \in Ids : ~sessions[i].invalidated => sessions[i].refreshUntil # Epoch

LEMMA LiveWindowOpenInductive ==
  TypeOK /\ LoggedOutRevoked /\ LiveWindowOpen /\ [Next]_vars => LiveWindowOpen'
<1> SUFFICES ASSUME TypeOK, LoggedOutRevoked, LiveWindowOpen, [Next]_vars,
                    NEW i \in Ids', ~sessions'[i].invalidated
             PROVE  sessions'[i].refreshUntil # Epoch
  BY DEF LiveWindowOpen, Epoch
<1>1. CASE i \in Ids /\ KeepsRow(i)
  <2>1. ~sessions[i].invalidated /\ sessions[i].refreshUntil # Epoch
    BY <1>1 DEF KeepsRow, LiveWindowOpen
  <2>2. i \notin loggedOut'
    <3>1. i \notin loggedOut
      BY <2>1, RevokedIsDead
    <3>2. sessions'[i] # Revoked(sessions[i])
      BY <1>1, RowTypes DEF Revoked, Row
    <3> QED
      BY <3>1, <3>2, EveryStepOnLoggedOut
  <2> QED
    BY <1>1, <2>1, <2>2, WindowsKept
<1>2. ASSUME NEW r \in Requests, Mint(r), sessions'[i] = NewRow(requests[r])
      PROVE  sessions'[i].refreshUntil # Epoch
  <2>1. requests[r].app \in Apps /\ now \in Nat
    BY <1>2 DEF TypeOK, Mint, Idle, Handler
  <2>2. RefreshTtl[requests[r].app] \in Nat \ {0}
    BY <2>1, TtlAssumption
  <2> QED
    BY <1>2, <2>1, <2>2 DEF NewRow, Epoch
<1> QED
  BY <1>1, <1>2, OldOrMinted

LEMMA SequenceOf ==
  ASSUME NEW S, NEW n \in Nat, NEW s \in [1..n -> S]
  PROVE  s \in Seq(S) /\ Len(s) = n
<1>1. s \in Seq(S)
  BY SeqDef
<1> QED
  BY <1>1, LenProperties

\* The mapped book has one entry per row.
LEMMA BookEntries ==
  ASSUME TypeOK
  PROVE  /\ BookOwner \in Seq(Users \X Apps) /\ Len(BookOwner) = Len(sessions)
         /\ BookPhase \in Seq(Book!Phases) /\ Len(BookPhase) = Len(sessions)
         /\ \A i \in Ids : BookOwner[i] = <<sessions[i].user, sessions[i].app>>
<1> USE RowTypes
<1>1. BookOwner \in [1..Len(sessions) -> Users \X Apps]
  BY DEF BookOwner, Ids, Row
<1>2. BookPhase \in [1..Len(sessions) -> Book!Phases]
  BY DEF BookPhase, Book!Phases, Ids
<1>3. Len(sessions) \in Nat
  OBVIOUS
<1>4. BookOwner \in Seq(Users \X Apps) /\ Len(BookOwner) = Len(sessions)
  BY <1>1, <1>3, SequenceOf
<1>5. BookPhase \in Seq(Book!Phases) /\ Len(BookPhase) = Len(sessions)
  BY <1>2, <1>3, SequenceOf
<1> QED
  BY <1>4, <1>5 DEF BookOwner

\* A step that leaves the table alone leaves the book alone.
LEMMA SameTableSameBook ==
  ASSUME sessions' = sessions
  PROVE  UNCHANGED <<BookOwner, BookPhase>>
BY DEF BookOwner, BookPhase, Ids

\* A rewrite of rows keeps whose they are.
LEMMA RewriteKeepsOwners ==
  ASSUME TypeOK, Rewrites
  PROVE  BookOwner' = BookOwner /\ Ids' = Ids
BY DEF Rewrites, BookOwner, Ids, KeepsRow

LEMMA MintOpens ==
  ASSUME TypeOK, NEW r \in Requests, Mint(r), TypeOK'
  PROVE  \E o \in Users \X Apps : Book!Open(o)
<1> DEFINE o == <<requests[r].user, requests[r].app>>
<1>1. o \in Users \X Apps
  <2>1. requests[r] \in Handler
    BY DEF TypeOK, Mint, Idle
  <2> QED
    BY <2>1 DEF Handler
<1> USE RowTypes, BookEntries
<1>2. Inserts /\ sessions'[Len(sessions')] = NewRow(requests[r])
  BY MintInserts
<1>3. NewRow(requests[r]).user = requests[r].user /\ NewRow(requests[r]).app = requests[r].app
      /\ ~NewRow(requests[r]).invalidated
  BY DEF NewRow
<1>4. Ids' = 1..(Len(sessions) + 1) /\ Len(sessions') = Len(sessions) + 1
  BY <1>2 DEF Inserts, Ids
<1>5. BookOwner' = Append(BookOwner, o)
  <2>1. /\ Append(BookOwner, o) \in Seq(Users \X Apps)
        /\ Len(Append(BookOwner, o)) = Len(sessions) + 1
        /\ \A i \in Ids : Append(BookOwner, o)[i] = BookOwner[i]
        /\ Append(BookOwner, o)[Len(sessions) + 1] = o
    BY <1>1, AppendProperties DEF Ids
  <2>2. /\ BookOwner' \in Seq(Users \X Apps)
        /\ Len(BookOwner') = Len(sessions) + 1
    <3>1. BookOwner' \in [1..Len(sessions') -> Users \X Apps]
      <4>1. sessions' \in [Ids' -> Row]
        BY <1>2, LenProperties DEF Inserts, Ids
      <4> QED
        BY <4>1 DEF BookOwner, Ids, Row
    <3> QED
      BY <1>4, <3>1, SequenceOf
  <2>3. \A i \in 1..(Len(sessions) + 1) : BookOwner'[i] = Append(BookOwner, o)[i]
    <3>1. ASSUME NEW i \in Ids PROVE BookOwner'[i] = Append(BookOwner, o)[i]
      BY <1>2, <1>4, <2>1, <3>1 DEF Inserts, BookOwner, Ids
    <3>2. BookOwner'[Len(sessions) + 1] = o
      BY <1>2, <1>3, <1>4 DEF BookOwner
    <3>3. \A i \in 1..(Len(sessions) + 1) : i \in Ids \/ i = Len(sessions) + 1
      BY DEF Ids
    <3> QED
      BY <2>1, <3>1, <3>2, <3>3
  <2> QED
    BY <2>1, <2>2, <2>3, SeqEqual
<1>6. BookPhase' = Append(BookPhase, "active")
  <2>1. /\ Append(BookPhase, "active") \in Seq(Book!Phases)
        /\ Len(Append(BookPhase, "active")) = Len(sessions) + 1
        /\ \A i \in Ids : Append(BookPhase, "active")[i] = BookPhase[i]
        /\ Append(BookPhase, "active")[Len(sessions) + 1] = "active"
    <3>1. "active" \in Book!Phases
      BY DEF Book!Phases
    <3> QED
      BY <3>1, AppendProperties DEF Ids
  <2>2. BookPhase' \in Seq(Book!Phases) /\ Len(BookPhase') = Len(sessions) + 1
    <3>1. BookPhase' \in [1..Len(sessions') -> Book!Phases]
      BY DEF BookPhase, Book!Phases, Ids
    <3> QED
      BY <1>4, <3>1, SequenceOf
  <2>3. \A i \in 1..(Len(sessions) + 1) : BookPhase'[i] = Append(BookPhase, "active")[i]
    <3>1. ASSUME NEW i \in Ids PROVE BookPhase'[i] = Append(BookPhase, "active")[i]
      BY <1>2, <1>4, <2>1, <3>1 DEF Inserts, BookPhase, Ids, Epoch
    <3>2. BookPhase'[Len(sessions) + 1] = "active"
      BY <1>2, <1>3, <1>4 DEF BookPhase
    <3>3. \A i \in 1..(Len(sessions) + 1) : i \in Ids \/ i = Len(sessions) + 1
      BY DEF Ids
    <3> QED
      BY <2>1, <3>1, <3>2, <3>3
  <2> QED
    BY <2>1, <2>2, <2>3, SeqEqual
<1> QED
  BY <1>1, <1>5, <1>6 DEF Book!Open

LEMMA SupersedeSupersedes ==
  ASSUME TypeOK, LiveWindowOpen, NEW k \in Ids, InvalidateAllExcept(k)
  PROVE  Book!Supersede(k)
<1> USE RowTypes, BookEntries
<1>1. BookOwner' = BookOwner /\ Ids' = Ids
  BY StatementsRewrite, RewriteKeepsOwners
<1>2. ASSUME NEW i \in Ids
      PROVE  BookPhase'[i] = IF i # k /\ BookOwner[i] = BookOwner[k] /\ BookPhase[i] = "active"
                             THEN "superseded" ELSE BookPhase[i]
  <2>1. BookPhase[i] = "active" <=> ~sessions[i].invalidated
    BY DEF BookPhase
  <2>2. BookOwner[i] = BookOwner[k] <=> SameOwner(i, k)
    <3>1. /\ BookOwner[i] = <<sessions[i].user, sessions[i].app>>
          /\ BookOwner[k] = <<sessions[k].user, sessions[k].app>>
      OBVIOUS
    <3> QED
      BY <3>1 DEF SameOwner
  <2>3. CASE i # k /\ SameOwner(i, k) /\ ~sessions[i].invalidated
    <3>1. sessions'[i] = Invalidated(sessions[i])
      BY <2>3 DEF InvalidateAllExcept
    <3>2. sessions'[i].invalidated /\ sessions'[i].refreshUntil # Epoch
      BY <2>3, <3>1 DEF Invalidated, Row, LiveWindowOpen
    <3>3. BookPhase'[i] = "superseded"
      BY <1>1, <3>2 DEF BookPhase, Epoch
    <3> QED
      BY <2>1, <2>2, <2>3, <3>3
  <2>4. CASE ~(i # k /\ SameOwner(i, k) /\ ~sessions[i].invalidated)
    <3>1. sessions'[i] = sessions[i]
      BY <2>4 DEF InvalidateAllExcept
    <3>2. BookPhase'[i] = BookPhase[i]
      BY <1>1, <3>1 DEF BookPhase, Epoch
    <3> QED
      BY <2>1, <2>2, <2>4, <3>2
  <2> QED
    BY <2>3, <2>4
<1>3. BookPhase' = [i \in 1..Len(BookPhase) |->
                      IF i # k /\ BookOwner[i] = BookOwner[k] /\ BookPhase[i] = "active"
                      THEN "superseded" ELSE BookPhase[i]]
  <2>1. BookPhase' = [i \in Ids |-> BookPhase'[i]]
    BY <1>1 DEF BookPhase
  <2> QED
    BY <1>2, <2>1 DEF Ids
<1> QED
  BY <1>1, <1>3 DEF Book!Supersede

LEMMA RevokingCloses ==
  ASSUME TypeOK, NEW S \in SUBSET Ids,
         \A i, j \in S : SameOwner(i, j),
         sessions' = [i \in Ids |-> IF i \in S THEN Revoked(sessions[i]) ELSE sessions[i]]
  PROVE  Book!Close(S)
<1> USE RowTypes, BookEntries
<1>1. BookOwner' = BookOwner /\ Ids' = Ids
  BY RewriteRowByRow, RewriteKeepsOwners
<1>2. ASSUME NEW i \in Ids
      PROVE  BookPhase'[i] = IF i \in S THEN "closed" ELSE BookPhase[i]
  <2>1. CASE i \in S
    <3>1. sessions'[i].invalidated /\ sessions'[i].refreshUntil = Epoch
      BY <2>1 DEF Revoked, Row
    <3> QED
      BY <1>1, <2>1, <3>1 DEF BookPhase, Epoch
  <2>2. CASE i \notin S
    BY <1>1, <2>2 DEF BookPhase, Epoch
  <2> QED
    BY <2>1, <2>2
<1>3. BookPhase' = [i \in 1..Len(BookPhase) |-> IF i \in S THEN "closed" ELSE BookPhase[i]]
  <2>1. BookPhase' = [i \in Ids |-> BookPhase'[i]]
    BY <1>1 DEF BookPhase
  <2> QED
    BY <1>2, <2>1 DEF Ids
<1>4. \A i, j \in S : BookOwner[i] = BookOwner[j]
  BY DEF SameOwner
<1> QED
  BY <1>1, <1>3, <1>4 DEF Book!Close

LEMMA TouchLeavesTheBook ==
  ASSUME TypeOK, NEW k \in Ids, TouchLastUsedAt(k)
  PROVE  UNCHANGED <<BookOwner, BookPhase>>
<1> USE RowTypes
<1>1. BookOwner' = BookOwner /\ Ids' = Ids
  BY StatementsRewrite, RewriteKeepsOwners
<1>2. \A i \in Ids : /\ sessions'[i].invalidated = sessions[i].invalidated
                     /\ sessions'[i].refreshUntil = sessions[i].refreshUntil
  BY DEF TouchLastUsedAt, Touched, Row
<1> QED
  BY <1>1, <1>2 DEF BookPhase, Epoch

LEMMA EveryStepInTheBook ==
  TypeOK /\ TypeOK' /\ LiveWindowOpen /\ [Next]_vars => [Book!BookNext]_(Book!bookVars)
<1> SUFFICES ASSUME TypeOK, TypeOK', LiveWindowOpen, [Next]_vars
             PROVE  Book!BookNext \/ UNCHANGED <<BookOwner, BookPhase>>
  BY DEF Book!bookVars
<1> USE RowTypes, BookEntries
<1>1. ASSUME NEW r \in Requests, HandlerStep(r)
      PROVE  Book!BookNext \/ UNCHANGED <<BookOwner, BookPhase>>
  <2>1. CASE Mint(r)
    BY <2>1, MintOpens DEF Book!BookNext
  <2>2. CASE Logout(r)
    <3> DEFINE i == requests[r].source
    <3>1. i \in Ids
      BY <2>2 DEF TypeOK, Logout
    <3>2. sessions' = [k \in Ids |-> IF k \in {i} THEN Revoked(sessions[k]) ELSE sessions[k]]
      BY <2>2, <3>1 DEF Logout
    <3>3. Book!Close({i})
      BY <3>1, <3>2, RevokingCloses DEF SameOwner
    <3> QED
      BY <3>1, <3>3 DEF Book!BookNext, Ids
  <2>3. CASE ChangeEmail(r)
    <3> DEFINE S == HeldBy(requests[r].user, requests[r].app)
    <3>1. S \in SUBSET Ids /\ \A i, j \in S : SameOwner(i, j)
      BY DEF HeldBy, SameOwner
    <3>2. sessions' = [i \in Ids |-> IF i \in S THEN Revoked(sessions[i]) ELSE sessions[i]]
      BY <2>3 DEF ChangeEmail
    <3> HIDE DEF S
    <3>3. Book!Close(S)
      BY <3>1, <3>2, RevokingCloses
    <3> QED
      BY <3>1, <3>3 DEF Book!BookNext, Ids
  <2>4. CASE ~Mint(r) /\ ~Logout(r) /\ ~ChangeEmail(r)
    <3>1. sessions' = sessions
      BY <1>1, <2>4 DEF HandlerStep, LoginReads, RefreshReads, AuthorizeReads, MintFor,
                        Reload, Answer, Fail, Respond
    <3> QED
      BY <3>1, SameTableSameBook
  <2> QED
    BY <2>1, <2>2, <2>3, <2>4
<1>2. ASSUME NEW k \in superseding \union touching, DetachedStep(k)
      PROVE  Book!BookNext \/ UNCHANGED <<BookOwner, BookPhase>>
  <2>1. k \in Ids
    BY DEF TypeOK
  <2>2. CASE Supersede(k)
    <3>1. Book!Supersede(k)
      BY <2>1, <2>2, SupersedeSupersedes DEF Supersede
    <3> QED
      BY <2>1, <3>1 DEF Book!BookNext, Ids
  <2>3. CASE Touch(k)
    BY <2>1, <2>3, TouchLeavesTheBook DEF Touch
  <2>4. CASE SupersedeFails(k) \/ TouchFails(k)
    BY <2>4, SameTableSameBook DEF SupersedeFails, TouchFails
  <2> QED
    BY <1>2, <2>2, <2>3, <2>4 DEF DetachedStep
<1>3. ASSUME Crash \/ Tick \/ UNCHANGED vars
      PROVE  UNCHANGED <<BookOwner, BookPhase>>
  BY <1>3, SameTableSameBook DEF Crash, Tick, vars
<1> QED
  BY <1>1, <1>2, <1>3 DEF Next

\* The table with its handlers, goroutines, clock and crashes implements the book:
\* entries are only added, superseded by their own owner, or closed for good.
THEOREM SessionsImplementBook == Spec => ImplementsBook
<1>1. Init => Book!BookInit
  BY EmptySeq DEF Init, Book!BookInit, BookOwner, BookPhase, Ids
<1>2. Init => LoggedOutRevoked /\ LiveWindowOpen
  BY EmptySeq DEF Init, LoggedOutRevoked, LiveWindowOpen, Ids
<1> QED
  BY <1>1, <1>2, TypeCorrect, LoggedOutRevokedInductive, LiveWindowOpenInductive,
     EveryStepInTheBook, PTL DEF Spec, ImplementsBook, Book!BookSpec
=============================================================================
