------------------------------- MODULE OtpProofs -------------------------------
(* Proofs about Otp, for every set of users, addresses, apps and handlers,    *)
(* every lifetime, rate limit, ceiling of attempts and bound.                 *)
EXTENDS Otp, SequenceTheorems, WellFoundedInduction, TLAPS

-----------------------------------------------------------------------------
(* The moves of a handler *)

\* The reads of a consumption, and its writes.
ConsumeReading(r) ==
  \/ \E act \in Actions, a \in Apps, c \in Addresses, u \in Users \union {NoUser} :
       \/ \E i \in Ids : ConsumeReads(r, act, a, c, u, i)
       \/ EntryReads(r, act, a, c, u)
  \/ \E u \in Users : ConsumeFinds(r, u)
  \/ \E i \in Ids : EntryValidates(r, i)
ConsumeWriting(r) ==
  \/ ResetPassword(r) \/ VerifyEmail(r) \/ ChangeEmail(r) \/ CreateSession(r)
  \/ DetachInvalidate(r) \/ Invalidate(r)
  \/ \E u \in Users : ProvisionUser(r, u)

LEMMA ConsumeInHalves ==
  ASSUME NEW r \in Requests, Consume(r)
  PROVE  ConsumeReading(r) \/ ConsumeWriting(r)
BY DEF Consume, ConsumeReading, ConsumeWriting

\* The moves of a handler.
Moves(r) == Generate(r) \/ Verify(r) \/ Consume(r) \/ Fail(r)

LEMMA MovesInParts ==
  ASSUME NEW r \in Requests, Moves(r)
  PROVE  Generate(r) \/ Verify(r) \/ ConsumeReading(r) \/ ConsumeWriting(r) \/ Fail(r)
BY ConsumeInHalves DEF Moves

\* What a move of handler r leaves to the others.
HistoriesKept == presented \subseteq presented' /\ delivered \subseteq delivered' /\ lost \subseteq lost'
MovesAlone(r) == (\E h : Goes(r, h)) /\ burning \subseteq burning' /\ HistoriesKept

\* A read changes no row, and detaches the invalidation of an accepted code only.
OnlyReads(r) ==
  /\ MovesAlone(r)
  /\ otps' = otps
  /\ UNCHANGED accounts
  /\ burning' \subseteq burning \union presented'
  /\ requests[r].pc \in {"idle", "limit", "find", "validate"}

LEMMA GenerateMoves ==
  ASSUME NEW r \in Requests, Generate(r)
  PROVE  /\ MovesAlone(r) /\ burning' = burning /\ UNCHANGED accounts
         /\ otps' = otps \/ Create(r)
         /\ requests[r].pc \in {"idle", "limit", "create", "send"}
<1> DEFINE Facts == /\ MovesAlone(r) /\ burning' = burning /\ UNCHANGED accounts
                    /\ otps' = otps \/ Create(r)
                    /\ requests[r].pc \in {"idle", "limit", "create", "send"}
<1>1. ASSUME NEW act \in Actions, NEW a \in Apps, NEW c \in Addresses, GenerateReads(r, act, a, c)
      PROVE  Facts
  BY <1>1 DEF GenerateReads, MovesAlone, HistoriesKept, table, Idle
<1>2. ASSUME CheckRateLimit(r) PROVE Facts
  BY <1>2 DEF CheckRateLimit, MovesAlone, HistoriesKept, table
<1>3. ASSUME Create(r) PROVE Facts
  BY <1>3 DEF Create, MovesAlone, HistoriesKept
<1>4. ASSUME Send(r) PROVE Facts
  BY <1>4 DEF Send, MovesAlone, HistoriesKept
<1> HIDE DEF Facts
<1>5. Facts
  BY <1>1, <1>2, <1>3, <1>4 DEF Generate
<1> QED
  BY <1>5 DEF Facts

LEMMA VerifyMoves ==
  ASSUME NEW r \in Requests, Verify(r)
  PROVE  /\ MovesAlone(r) /\ burning' = burning /\ UNCHANGED accounts
         /\ otps' = otps \/ CountFailure(r)
         /\ requests[r].pc \in {"idle", "count"}
<1> DEFINE Facts == /\ MovesAlone(r) /\ burning' = burning /\ UNCHANGED accounts
                    /\ otps' = otps \/ CountFailure(r)
                    /\ requests[r].pc \in {"idle", "count"}
<1>1. ASSUME NEW i \in Ids, NEW right \in BOOLEAN, VerifyReads(r, i, right)
      PROVE  Facts
  BY <1>1 DEF VerifyReads, MovesAlone, HistoriesKept, table, Idle
<1>2. ASSUME CountFailure(r) PROVE Facts
  BY <1>2 DEF CountFailure, MovesAlone, HistoriesKept
<1> HIDE DEF Facts
<1>3. Facts
  BY <1>1, <1>2 DEF Verify
<1> QED
  BY <1>3 DEF Facts

LEMMA ReadingMoves ==
  ASSUME NEW r \in Requests, ConsumeReading(r)
  PROVE  OnlyReads(r)
<1>1. ASSUME NEW act \in Actions, NEW a \in Apps, NEW c \in Addresses,
             NEW u \in Users \union {NoUser}, NEW i \in Ids, ConsumeReads(r, act, a, c, u, i)
      PROVE  OnlyReads(r)
  BY <1>1 DEF ConsumeReads, OnlyReads, MovesAlone, HistoriesKept, Idle
<1>2. ASSUME NEW act \in Actions, NEW a \in Apps, NEW c \in Addresses,
             NEW u \in Users \union {NoUser}, EntryReads(r, act, a, c, u)
      PROVE  OnlyReads(r)
  BY <1>2 DEF EntryReads, OnlyReads, MovesAlone, HistoriesKept, table, Idle
<1>3. ASSUME NEW u \in Users, ConsumeFinds(r, u) PROVE OnlyReads(r)
  BY <1>3 DEF ConsumeFinds, OnlyReads, MovesAlone, HistoriesKept, table
<1>4. ASSUME NEW i \in Ids, EntryValidates(r, i) PROVE OnlyReads(r)
  BY <1>4 DEF EntryValidates, OnlyReads, MovesAlone, HistoriesKept
<1> QED
  BY <1>1, <1>2, <1>3, <1>4 DEF ConsumeReading

LEMMA WritingMoves ==
  ASSUME NEW r \in Requests, ConsumeWriting(r)
  PROVE  /\ MovesAlone(r)
         /\ DetachInvalidate(r) \/ burning' = burning
         /\ requests[r].pc = "write" \/ Invalidate(r) \/ DetachInvalidate(r)
<1> DEFINE Facts == /\ MovesAlone(r)
                    /\ DetachInvalidate(r) \/ burning' = burning
                    /\ requests[r].pc = "write" \/ Invalidate(r) \/ DetachInvalidate(r)
<1>1. ASSUME ResetPassword(r) PROVE Facts
  BY <1>1 DEF ResetPassword, Writes, MovesAlone, HistoriesKept
<1>2. ASSUME VerifyEmail(r) PROVE Facts
  BY <1>2 DEF VerifyEmail, Writes, MovesAlone, HistoriesKept
<1>3. ASSUME ChangeEmail(r) PROVE Facts
  BY <1>3 DEF ChangeEmail, Writes, MovesAlone, HistoriesKept
<1>4. ASSUME CreateSession(r) PROVE Facts
  BY <1>4 DEF CreateSession, Writes, MovesAlone, HistoriesKept
<1>5. ASSUME DetachInvalidate(r) PROVE Facts
  BY <1>5 DEF DetachInvalidate, MovesAlone, HistoriesKept
<1>6. ASSUME Invalidate(r) PROVE Facts
  BY <1>6 DEF Invalidate, MovesAlone, HistoriesKept
<1>7. ASSUME NEW u \in Users, ProvisionUser(r, u) PROVE Facts
  BY <1>7 DEF ProvisionUser, Writes, MovesAlone, HistoriesKept
<1> HIDE DEF Facts
<1>8. Facts
  BY <1>1, <1>2, <1>3, <1>4, <1>5, <1>6, <1>7 DEF ConsumeWriting
<1> QED
  BY <1>8 DEF Facts

LEMMA FailMoves ==
  ASSUME NEW r \in Requests, Fail(r)
  PROVE  MovesAlone(r) /\ burning' = burning /\ otps' = otps /\ UNCHANGED accounts
BY DEF Fail, MovesAlone, HistoriesKept

LEMMA EveryMoveIsAlone ==
  ASSUME NEW r \in Requests, Moves(r)
  PROVE  MovesAlone(r)
BY MovesInParts, GenerateMoves, VerifyMoves, ReadingMoves, WritingMoves, FailMoves DEF OnlyReads

-----------------------------------------------------------------------------
(* The table *)

\* What a statement may do to a row: the request it is for, its birth and its end
\* stay, wrong codes are not uncounted and an invalidation is not undone.
Continues(row, old) ==
  /\ row \in Row
  /\ row.action = old.action /\ row.app = old.app /\ row.contact = old.contact
  /\ row.createdAt = old.createdAt /\ row.expiresAt = old.expiresAt
  /\ row.guesses >= old.guesses
  /\ old.invalidated => row.invalidated

\* What a step may do to the table.
TableContinues ==
  /\ otps' \in Seq(Row)
  /\ Len(otps') >= Len(otps)
  /\ \A i \in Ids : i \in Ids' /\ Continues(otps'[i], otps[i])

LEMMA RowTypes ==
  ASSUME TypeOK
  PROVE  /\ Len(otps) \in Nat
         /\ otps \in [Ids -> Row]
         /\ \A i \in Ids : otps[i] \in Row
BY LenProperties DEF TypeOK, Ids

LEMMA RowsContinue ==
  ASSUME NEW row \in Row
  PROVE  /\ Continues(row, row)
         /\ Continues(Burnt(row), row)
         /\ Continues(Used(row), row)
         /\ \A h : h.seen \in Nat => Continues(Counted(row, h), row)
<1>1. Continues(row, row)
  BY DEF Continues, Row
<1>2. Continues(Burnt(row), row)
  <2>1. Burnt(row) \in Row /\ Burnt(row).invalidated = TRUE
    BY DEF Burnt, Row
  <2> QED
    BY <2>1 DEF Continues, Burnt, Row
<1>3. Continues(Used(row), row)
  BY DEF Continues, Used, Row
<1>4. ASSUME NEW h, h.seen \in Nat PROVE Continues(Counted(row, h), row)
  <2>0. ASSUME NEW n \in Nat, NEW g \in Nat
        PROVE  [row EXCEPT !.count = n, !.guesses = g] \in Row
    BY DEF Row
  <2>1. /\ Counted(row, h) \in Row
        /\ Counted(row, h).guesses = row.guesses + 1
        /\ Counted(row, h).invalidated = row.invalidated
    <3>1. h.seen + 1 \in Nat /\ row.guesses + 1 \in Nat
      BY <1>4 DEF Row
    <3>2. Counted(row, h) = [row EXCEPT !.count = h.seen + 1, !.guesses = row.guesses + 1]
      BY DEF Counted
    <3>3. Counted(row, h) \in Row
      BY <2>0, <3>1, <3>2
    <3> QED
      BY <3>2, <3>3 DEF Row
  <2>2. row.guesses \in Nat
    BY DEF Row
  <2> QED
    BY <2>1, <2>2 DEF Continues, Counted, Row
<1> QED
  BY <1>1, <1>2, <1>3, <1>4

\* An UPDATE of one row.
LEMMA OneRowChanges ==
  ASSUME TypeOK, NEW k \in Ids, NEW row, Continues(row, otps[k]),
         otps' = [otps EXCEPT ![k] = row]
  PROVE  TableContinues /\ Ids' = Ids
<1> USE RowTypes
<1>1. row \in Row
  BY DEF Continues
<1>2. otps' \in [Ids -> Row]
  BY <1>1
<1>3. otps' \in Seq(Row)
  BY <1>2, SeqDef DEF Ids
<1>4. Len(otps') = Len(otps)
  BY <1>2, <1>3, LenProperties DEF Ids
<1>5. ASSUME NEW i \in Ids PROVE Continues(otps'[i], otps[i])
  BY <1>5, RowsContinue
<1> QED
  BY <1>3, <1>4, <1>5 DEF TableContinues, Ids

LEMMA NothingChanges ==
  ASSUME TypeOK, otps' = otps
  PROVE  TableContinues /\ Ids' = Ids
BY RowTypes, RowsContinue DEF TypeOK, TableContinues, Ids

\* The INSERT, and the row it adds.
LEMMA CreateInserts ==
  ASSUME TypeOK, NEW r \in Requests, Create(r)
  PROVE  /\ TableContinues
         /\ Ids' = Ids \union {Len(otps) + 1}
         /\ otps'[Len(otps) + 1] = NewRow(requests[r])
         /\ \A i \in Ids : otps'[i] = otps[i]
<1> USE RowTypes
<1>1. requests[r] \in Handler
  BY DEF TypeOK, Create, Idle
<1>2. NewRow(requests[r]) \in Row
  BY <1>1, LimitsAssumption DEF TypeOK, NewRow, Row, Handler
<1>3. otps' = Append(otps, NewRow(requests[r]))
  BY DEF Create
<1>4. /\ otps' \in Seq(Row)
      /\ Len(otps') = Len(otps) + 1
      /\ \A i \in Ids : otps'[i] = otps[i]
      /\ otps'[Len(otps) + 1] = NewRow(requests[r])
  BY <1>2, <1>3 DEF TypeOK, Ids
<1>5. Ids' = Ids \union {Len(otps) + 1}
  BY <1>4 DEF Ids
<1> QED
  BY <1>4, <1>5, RowsContinue DEF TableContinues

\* A handler with a statement to run on a row, and the row.
LEMMA HandlerTypes ==
  ASSUME TypeOK, NEW r \in Requests, requests[r].pc # "idle"
  PROVE  /\ requests[r] \in Handler
         /\ r \in OnRow => requests[r].otp \in Ids
BY DEF TypeOK, Idle

\* The statements that write a row.
RowStatements(r) ==
  CountFailure(r) \/ Invalidate(r) \/ ResetPassword(r) \/ VerifyEmail(r)
    \/ ChangeEmail(r) \/ CreateSession(r) \/ \E u \in Users : ProvisionUser(r, u)

LEMMA RowStatementsContinue ==
  ASSUME TypeOK, NEW r \in Requests, RowStatements(r)
  PROVE  TableContinues /\ Ids' = Ids
<1> DEFINE h == requests[r]
<1>1. h.pc \in {"count", "lock", "invalidate", "write"}
  BY DEF RowStatements, CountFailure, Invalidate, ResetPassword, VerifyEmail,
         ChangeEmail, CreateSession, ProvisionUser, Writes
<1>2. h \in Handler /\ h.otp \in Ids
  BY <1>1, HandlerTypes DEF OnRow
<1>3. otps[h.otp] \in Row /\ h.seen \in Nat
  BY <1>2, RowTypes DEF Handler
<1>4. \/ otps' = [otps EXCEPT ![h.otp] = Counted(@, h)]
      \/ otps' = [otps EXCEPT ![h.otp] = Burnt(@)]
      \/ otps' = [otps EXCEPT ![h.otp] = Used(@)]
  BY DEF RowStatements, CountFailure, Invalidate, ResetPassword, VerifyEmail,
         ChangeEmail, CreateSession, ProvisionUser, UsesTheCode
<1> QED
  BY <1>2, <1>3, <1>4, RowsContinue, OneRowChanges

LEMMA BurnContinues ==
  ASSUME TypeOK, NEW i \in burning, Burn(i)
  PROVE  TableContinues /\ Ids' = Ids
<1>1. i \in Ids
  BY DEF TypeOK
<1> QED
  BY <1>1, RowTypes, RowsContinue, OneRowChanges DEF Burn

\* Everything else.
LEMMA OtherStepsKeepTheTable ==
  ASSUME TypeOK, [Next]_vars,
         \A r \in Requests : ~RowStatements(r) /\ ~Create(r),
         \A i \in burning : ~Burn(i)
  PROVE  otps' = otps
<1>1. ASSUME NEW r \in Requests, Generate(r) \/ Verify(r) PROVE otps' = otps
  BY <1>1, GenerateMoves, VerifyMoves DEF RowStatements
<1>2. ASSUME NEW r \in Requests, ConsumeReading(r) PROVE otps' = otps
  BY <1>2, ReadingMoves DEF OnlyReads
<1>3. ASSUME NEW r \in Requests, ConsumeWriting(r) PROVE otps' = otps
  <2>1. DetachInvalidate(r)
    BY <1>3 DEF ConsumeWriting, RowStatements
  <2> QED
    BY <2>1 DEF DetachInvalidate
<1>4. ASSUME NEW r \in Requests, Fail(r) PROVE otps' = otps
  BY <1>4, FailMoves
<1>5. ASSUME NEW i \in burning, BurnFails(i) PROVE otps' = otps
  BY <1>5 DEF BurnFails
<1>6. CASE Account \/ Crash \/ Tick \/ UNCHANGED vars
  BY <1>6 DEF Account, RegisterWithPassword, UpdateForOrganization, Crash, Tick, vars, table
<1>7. ASSUME NEW r \in Requests, Consume(r) PROVE otps' = otps
  BY <1>2, <1>3, <1>7, ConsumeInHalves
<1> QED
  BY <1>1, <1>4, <1>5, <1>6, <1>7 DEF Next

LEMMA EveryStepContinues ==
  ASSUME TypeOK, [Next]_vars
  PROVE  TableContinues
<1>1. CASE \E r \in Requests : RowStatements(r)
  BY <1>1, RowStatementsContinue
<1>2. CASE \E r \in Requests : Create(r)
  BY <1>2, CreateInserts
<1>3. CASE \E i \in burning : Burn(i)
  BY <1>3, BurnContinues
<1> QED
  BY <1>1, <1>2, <1>3, OtherStepsKeepTheTable, NothingChanges

-----------------------------------------------------------------------------
(* Type correctness *)

\* A handler that has a row in hand.
HasRow(h) ==
  h.pc \in {"send", "count", "lock", "write", "invalidate", "detach"}
    \/ (h.pc = "find" /\ h.otp # 0)

\* The handlers after one of them moved on.
HandlersTyped ==
  /\ requests \in [Requests -> Handler \union {Idle}]
  /\ \A r \in OnRow : requests[r].otp \in Ids

LEMMA OneHandlerMoves ==
  ASSUME TypeOK, NEW r \in Requests, NEW h \in Handler \union {Idle}, Goes(r, h),
         Ids \subseteq Ids', HasRow(h) => h.otp \in Ids'
  PROVE  /\ HandlersTyped'
         /\ requests'[r] = h
         /\ \A q \in Requests \ {r} : requests'[q] = requests[q]
<1>1. requests \in [Requests -> Handler \union {Idle}]
  BY DEF TypeOK
<1>2. /\ requests' \in [Requests -> Handler \union {Idle}]
      /\ requests'[r] = h
      /\ \A q \in Requests \ {r} : requests'[q] = requests[q]
  BY <1>1 DEF Goes
<1>3. ASSUME NEW q \in OnRow' PROVE requests'[q].otp \in Ids'
  <2>1. q \in Requests /\ HasRow(requests'[q])
    BY <1>3 DEF OnRow, HasRow
  <2>2. CASE q = r
    BY <1>2, <2>1, <2>2
  <2>3. CASE q # r
    <3>1. q \in OnRow
      BY <1>2, <2>1, <2>3 DEF OnRow, HasRow
    <3> QED
      BY <1>2, <2>1, <2>3, <3>1 DEF TypeOK
  <2> QED
    BY <2>2, <2>3
<1> QED
  BY <1>2, <1>3 DEF HandlersTyped

\* A handler that answers.
LEMMA OneHandlerAnswers ==
  ASSUME TypeOK, NEW r \in Requests, Goes(r, Idle), Ids \subseteq Ids'
  PROVE  HandlersTyped'
<1>1. ~HasRow(Idle)
  BY DEF HasRow, Idle
<1> QED
  BY <1>1, OneHandlerMoves

LEMMA NobodyMoves ==
  ASSUME TypeOK, UNCHANGED requests, Ids \subseteq Ids'
  PROVE  HandlersTyped'
BY DEF TypeOK, HandlersTyped, OnRow

\* What a step that leaves the accounts, the clock or both alone has to show.
RestTyped ==
  /\ email \in [Users -> Addresses \union {NoAddress}]
  /\ verified \in [Users -> BOOLEAN]
  /\ now \in Nat
  /\ burning \subseteq Ids /\ delivered \subseteq Ids
  /\ presented \subseteq Ids /\ lost \subseteq Ids
  /\ vouched \subseteq Users

LEMMA TypesInParts ==
  ASSUME TableContinues, HandlersTyped', RestTyped'
  PROVE  TypeOK'
BY DEF TypeOK, TableContinues, HandlersTyped, RestTyped

LEMMA GenerateKeepsTypes ==
  ASSUME TypeOK, NEW r \in Requests, Generate(r)
  PROVE  TypeOK'
<1>1. ASSUME NEW act \in Actions, NEW a \in Apps, NEW c \in Addresses,
             GenerateReads(r, act, a, c)
      PROVE  TypeOK'
  <2> DEFINE h == [pc |-> "limit", action |-> act, app |-> a, contact |-> c,
                   otp |-> 0, user |-> NoUser, seen |-> 0]
  <2>1. h \in Handler /\ ~HasRow(h)
    BY DEF Handler, HasRow
  <2>2. Goes(r, h) /\ otps' = otps
    BY <1>1 DEF GenerateReads, table
  <2> HIDE DEF h
  <2>3. HandlersTyped' /\ TableContinues /\ Ids' = Ids
    BY <2>1, <2>2, NothingChanges, OneHandlerMoves
  <2>4. RestTyped'
    BY <1>1, <2>3 DEF TypeOK, RestTyped, GenerateReads, table, accounts
  <2> QED
    BY <2>3, <2>4, TypesInParts
<1>2. ASSUME CheckRateLimit(r) PROVE TypeOK'
  <2> DEFINE h == [requests[r] EXCEPT !.pc = "create"]
  <2>1. requests[r] \in Handler
    BY <1>2, HandlerTypes DEF CheckRateLimit
  <2>2. h \in Handler /\ ~HasRow(h)
    BY <2>1 DEF Handler, HasRow
  <2>3. Goes(r, h) /\ otps' = otps
    BY <1>2 DEF CheckRateLimit, table
  <2> HIDE DEF h
  <2>4. HandlersTyped' /\ TableContinues /\ Ids' = Ids
    BY <2>2, <2>3, NothingChanges, OneHandlerMoves
  <2>5. RestTyped'
    BY <1>2, <2>4 DEF TypeOK, RestTyped, CheckRateLimit, table, accounts
  <2> QED
    BY <2>4, <2>5, TypesInParts
<1>3. ASSUME Create(r) PROVE TypeOK'
  <2> DEFINE h == [requests[r] EXCEPT !.pc = "send", !.otp = Len(otps) + 1]
  <2>1. requests[r] \in Handler /\ Len(otps) + 1 \in Nat
    BY <1>3, HandlerTypes, RowTypes DEF Create
  <2>2. h \in Handler /\ h.otp = Len(otps) + 1
    BY <2>1 DEF Handler
  <2>3. Goes(r, h)
    BY <1>3 DEF Create
  <2> HIDE DEF h
  <2>4. TableContinues /\ Ids' = Ids \union {Len(otps) + 1}
    BY <1>3, CreateInserts
  <2>5. HandlersTyped'
    BY <2>2, <2>3, <2>4, OneHandlerMoves
  <2>6. RestTyped'
    BY <1>3, <2>4 DEF TypeOK, RestTyped, Create, accounts
  <2> QED
    BY <2>4, <2>5, <2>6, TypesInParts
<1>4. ASSUME Send(r) PROVE TypeOK'
  <2>1. requests[r].otp \in Ids
    BY <1>4, HandlerTypes DEF Send, OnRow
  <2>2. TableContinues /\ Ids' = Ids
    BY <1>4, NothingChanges DEF Send
  <2>3. HandlersTyped'
    BY <1>4, <2>2, OneHandlerAnswers DEF Send
  <2>4. RestTyped'
    BY <1>4, <2>1, <2>2 DEF TypeOK, RestTyped, Send, accounts
  <2> QED
    BY <2>2, <2>3, <2>4, TypesInParts
<1> QED
  BY <1>1, <1>2, <1>3, <1>4 DEF Generate

LEMMA VerifyKeepsTypes ==
  ASSUME TypeOK, NEW r \in Requests, Verify(r)
  PROVE  TypeOK'
<1>1. ASSUME NEW i \in Ids, NEW right \in BOOLEAN, VerifyReads(r, i, right)
      PROVE  TypeOK'
  <2> DEFINE next == AfterVerify(i, right)
  <2> DEFINE h == [pc |-> next, action |-> otps[i].action, app |-> otps[i].app,
                   contact |-> otps[i].contact, otp |-> i, user |-> NoUser,
                   seen |-> otps[i].count]
  <2>1. next \in {"lock", "count"}
    BY <1>1 DEF VerifyReads, AfterVerify
  <2>2. otps[i] \in Row /\ i \in Nat
    BY RowTypes DEF Ids
  <2>3. /\ otps[i].action \in Actions /\ otps[i].app \in Apps
        /\ otps[i].contact \in Addresses /\ otps[i].count \in Nat
    BY <2>2 DEF Row
  <2>4. Goes(r, h) /\ otps' = otps
    BY <1>1 DEF VerifyReads, table
  <2> HIDE DEF next
  <2>5. h \in Handler /\ h.otp = i
    BY <2>1, <2>2, <2>3 DEF Handler
  <2> HIDE DEF h
  <2>6. HandlersTyped' /\ TableContinues /\ Ids' = Ids
    BY <2>4, <2>5, NothingChanges, OneHandlerMoves
  <2>7. RestTyped'
    BY <1>1, <2>6 DEF TypeOK, RestTyped, VerifyReads, table, accounts
  <2> QED
    BY <2>6, <2>7, TypesInParts
<1>2. ASSUME CountFailure(r) PROVE TypeOK'
  <2>1. TableContinues /\ Ids' = Ids
    BY <1>2, RowStatementsContinue DEF RowStatements
  <2>2. HandlersTyped'
    BY <1>2, <2>1, OneHandlerAnswers DEF CountFailure
  <2>3. RestTyped'
    BY <1>2, <2>1 DEF TypeOK, RestTyped, CountFailure, accounts
  <2> QED
    BY <2>1, <2>2, <2>3, TypesInParts
<1> QED
  BY <1>1, <1>2 DEF Verify

LEMMA ConsumeReadsKeepsTypes ==
  ASSUME TypeOK, NEW r \in Requests, NEW u \in Users \union {NoUser}, NEW i \in Ids,
         NEW act \in Actions, NEW a \in Apps, NEW c \in Addresses,
         ConsumeReads(r, act, a, c, u, i)
  PROVE  TypeOK'
<1> DEFINE h == [Called("find", act, a, c, u) EXCEPT !.otp = i]
<1>0. i \in Nat
  BY DEF Ids
<1>1. h \in Handler /\ h.otp = i
  BY <1>0 DEF Called, Handler
<1>2. Goes(r, h) /\ otps' = otps
  BY DEF ConsumeReads
<1> HIDE DEF h
<1>3. HandlersTyped' /\ TableContinues /\ Ids' = Ids
  BY <1>1, <1>2, NothingChanges, OneHandlerMoves
<1>4. RestTyped'
  BY <1>3 DEF TypeOK, RestTyped, ConsumeReads, accounts
<1> QED
  BY <1>3, <1>4, TypesInParts

LEMMA WritesKeepTypes ==
  ASSUME TypeOK, NEW r \in Requests,
         \/ ResetPassword(r) \/ VerifyEmail(r) \/ ChangeEmail(r) \/ CreateSession(r)
         \/ \E u \in Users : ProvisionUser(r, u)
  PROVE  TypeOK'
<1> DEFINE h == requests[r]
<1>1. /\ TableContinues /\ Ids' = Ids
  BY RowStatementsContinue DEF RowStatements
<1>2. h.pc = "write"
  BY DEF ResetPassword, VerifyEmail, ChangeEmail, CreateSession, ProvisionUser, Writes
<1>3. h \in Handler /\ h.otp \in Ids
  BY <1>2, HandlerTypes DEF OnRow
<1>4. ASSUME NEW pc \in {"invalidate", "detach"}
      PROVE  /\ [h EXCEPT !.pc = pc] \in Handler
             /\ [h EXCEPT !.pc = pc].otp = h.otp
  BY <1>3 DEF Handler
<1>5. HandlersTyped'
  <2>1. Goes(r, Idle) \/ \E pc \in {"invalidate", "detach"} : Goes(r, [h EXCEPT !.pc = pc])
    BY DEF ResetPassword, VerifyEmail, ChangeEmail, CreateSession, ProvisionUser
  <2>2. CASE Goes(r, Idle)
    BY <1>1, <2>2, OneHandlerAnswers
  <2>3. ASSUME NEW pc \in {"invalidate", "detach"}, Goes(r, [h EXCEPT !.pc = pc])
        PROVE  HandlersTyped'
    <3> DEFINE g == [h EXCEPT !.pc = pc]
    <3>1. g \in Handler /\ g.otp \in Ids /\ Goes(r, g)
      BY <1>3, <1>4, <2>3
    <3> HIDE DEF g
    <3> QED
      BY <1>1, <3>1, OneHandlerMoves
  <2> QED
    BY <2>1, <2>2, <2>3
<1>6. h.contact \in Addresses
  BY <1>3 DEF Handler
<1>7. RestTyped'
  <2>1. CASE ResetPassword(r) \/ CreateSession(r)
    BY <1>1, <2>1 DEF TypeOK, RestTyped, ResetPassword, CreateSession, accounts
  <2>2. CASE VerifyEmail(r)
    BY <1>1, <2>2 DEF TypeOK, RestTyped, VerifyEmail
  <2>3. CASE ChangeEmail(r)
    BY <1>1, <1>6, <2>3 DEF TypeOK, RestTyped, ChangeEmail
  <2>4. ASSUME NEW u \in Users, ProvisionUser(r, u) PROVE RestTyped'
    BY <1>1, <1>6, <2>4 DEF TypeOK, RestTyped, ProvisionUser
  <2> QED
    BY <2>1, <2>2, <2>3, <2>4
<1> QED
  BY <1>1, <1>5, <1>7, TypesInParts

LEMMA EndsKeepTypes ==
  ASSUME TypeOK, NEW r \in Requests, Invalidate(r) \/ DetachInvalidate(r) \/ Fail(r)
  PROVE  TypeOK'
<1>1. CASE Invalidate(r)
  <2>1. TableContinues /\ Ids' = Ids
    BY <1>1, RowStatementsContinue DEF RowStatements
  <2>2. HandlersTyped'
    BY <1>1, <2>1, OneHandlerAnswers DEF Invalidate
  <2>3. RestTyped'
    BY <1>1, <2>1 DEF TypeOK, RestTyped, Invalidate, accounts
  <2> QED
    BY <2>1, <2>2, <2>3, TypesInParts
<1>2. CASE DetachInvalidate(r)
  <2>1. TableContinues /\ Ids' = Ids
    BY <1>2, NothingChanges DEF DetachInvalidate
  <2>2. HandlersTyped'
    BY <1>2, <2>1, OneHandlerAnswers DEF DetachInvalidate
  <2>3. requests[r].otp \in Ids
    BY <1>2, HandlerTypes DEF DetachInvalidate, OnRow
  <2>4. RestTyped'
    BY <1>2, <2>1, <2>3 DEF TypeOK, RestTyped, DetachInvalidate, accounts
  <2> QED
    BY <2>1, <2>2, <2>4, TypesInParts
<1>3. CASE Fail(r)
  <2>1. TableContinues /\ Ids' = Ids
    BY <1>3, NothingChanges DEF Fail
  <2>2. HandlersTyped'
    BY <1>3, <2>1, OneHandlerAnswers DEF Fail
  <2>3. requests[r].pc \in {"invalidate", "detach"} => requests[r].otp \in Ids
    BY HandlerTypes DEF OnRow
  <2>4. RestTyped'
    BY <1>3, <2>1, <2>3 DEF TypeOK, RestTyped, Fail, accounts
  <2> QED
    BY <2>1, <2>2, <2>4, TypesInParts
<1> QED
  BY <1>1, <1>2, <1>3

LEMMA ConsumeKeepsTypes ==
  ASSUME TypeOK, NEW r \in Requests, Consume(r)
  PROVE  TypeOK'
<1>1. CASE \E act \in Actions, a \in Apps, c \in Addresses, u \in Users \union {NoUser} :
             \/ \E i \in Ids : ConsumeReads(r, act, a, c, u, i)
             \/ EntryReads(r, act, a, c, u)
  <2>1. PICK act \in Actions, a \in Apps, c \in Addresses, u \in Users \union {NoUser} :
          \/ \E i \in Ids : ConsumeReads(r, act, a, c, u, i)
          \/ EntryReads(r, act, a, c, u)
    BY <1>1
  <2>2. ASSUME NEW i \in Ids, ConsumeReads(r, act, a, c, u, i) PROVE TypeOK'
    BY <2>2, ConsumeReadsKeepsTypes
  <2>3. CASE EntryReads(r, act, a, c, u)
    <3> DEFINE h == Called("validate", act, a, c, u)
    <3>1. h \in Handler /\ ~HasRow(h)
      BY DEF Called, Handler, HasRow
    <3>2. Goes(r, h) /\ otps' = otps
      BY <2>3 DEF EntryReads, table
    <3> HIDE DEF h
    <3>3. HandlersTyped' /\ TableContinues /\ Ids' = Ids
      BY <3>1, <3>2, NothingChanges, OneHandlerMoves
    <3>4. RestTyped'
      BY <2>3, <3>3 DEF TypeOK, RestTyped, EntryReads, accounts, table
    <3> QED
      BY <3>3, <3>4, TypesInParts
  <2> QED
    BY <2>1, <2>2, <2>3
<1>2. ASSUME NEW u \in Users, ConsumeFinds(r, u) PROVE TypeOK'
  <2> DEFINE h == [requests[r] EXCEPT !.pc = "write", !.user = u]
  <2>1. requests[r] \in Handler /\ requests[r].otp \in Ids
    BY <1>2, HandlerTypes DEF ConsumeFinds, OnRow
  <2>2. h \in Handler /\ h.otp = requests[r].otp
    BY <2>1 DEF Handler
  <2>3. Goes(r, h) /\ otps' = otps
    BY <1>2 DEF ConsumeFinds, table
  <2> HIDE DEF h
  <2>4. HandlersTyped' /\ TableContinues /\ Ids' = Ids
    BY <2>1, <2>2, <2>3, NothingChanges, OneHandlerMoves
  <2>5. RestTyped'
    BY <1>2, <2>4 DEF TypeOK, RestTyped, ConsumeFinds, accounts, table
  <2> QED
    BY <2>4, <2>5, TypesInParts
<1>3. ASSUME NEW i \in Ids, EntryValidates(r, i) PROVE TypeOK'
  <2> DEFINE h == [requests[r] EXCEPT !.pc = "write", !.otp = i]
  <2>1. requests[r] \in Handler /\ i \in Nat
    BY <1>3, HandlerTypes DEF EntryValidates, Ids
  <2>2. h \in Handler /\ h.otp = i
    BY <2>1 DEF Handler
  <2>3. Goes(r, h) /\ otps' = otps
    BY <1>3 DEF EntryValidates
  <2> HIDE DEF h
  <2>4. HandlersTyped' /\ TableContinues /\ Ids' = Ids
    BY <2>2, <2>3, NothingChanges, OneHandlerMoves
  <2>5. RestTyped'
    BY <1>3, <2>4 DEF TypeOK, RestTyped, EntryValidates, accounts
  <2> QED
    BY <2>4, <2>5, TypesInParts
<1>4. CASE \/ ResetPassword(r) \/ VerifyEmail(r) \/ ChangeEmail(r) \/ CreateSession(r)
           \/ \E u \in Users : ProvisionUser(r, u)
  BY <1>4, WritesKeepTypes
<1>5. CASE DetachInvalidate(r) \/ Invalidate(r)
  BY <1>5, EndsKeepTypes
<1> QED
  BY <1>1, <1>2, <1>3, <1>4, <1>5 DEF Consume

LEMMA NextKeepsTypes == TypeOK /\ [Next]_vars => TypeOK'
<1> SUFFICES ASSUME TypeOK, [Next]_vars PROVE TypeOK'
  OBVIOUS
<1>1. TableContinues
  BY EveryStepContinues
<1>2. ASSUME NEW r \in Requests, Generate(r) \/ Verify(r) \/ Consume(r) \/ Fail(r)
      PROVE  TypeOK'
  BY <1>2, GenerateKeepsTypes, VerifyKeepsTypes, ConsumeKeepsTypes, EndsKeepTypes
<1>3. ASSUME NEW i \in burning, Burn(i) PROVE TypeOK'
  <2>1. Ids' = Ids
    BY <1>3, BurnContinues
  <2>2. HandlersTyped' /\ RestTyped'
    BY <1>3, <2>1, NobodyMoves DEF TypeOK, RestTyped, Burn, accounts
  <2> QED
    BY <1>1, <2>2, TypesInParts
<1>4. ASSUME NEW i \in burning, BurnFails(i) PROVE TypeOK'
  <2>1. Ids' = Ids
    BY <1>4, NothingChanges DEF BurnFails
  <2>2. HandlersTyped' /\ RestTyped'
    BY <1>4, <2>1, NobodyMoves DEF TypeOK, RestTyped, BurnFails, accounts
  <2> QED
    BY <1>1, <2>2, TypesInParts
<1>5. CASE Account
  <2>1. otps' = otps /\ requests' = requests /\ Ids' = Ids
    BY <1>5 DEF Account, RegisterWithPassword, UpdateForOrganization, table, Ids
  <2>2. HandlersTyped'
    BY <2>1, NobodyMoves
  <2>3. RestTyped'
    BY <1>5, <2>1 DEF TypeOK, RestTyped, Account, RegisterWithPassword, UpdateForOrganization, table
  <2> QED
    BY <1>1, <2>2, <2>3, TypesInParts
<1>6. CASE Crash
  <2>1. otps' = otps /\ Ids' = Ids
    BY <1>6 DEF Crash, Ids
  <2>2. HandlersTyped'
    BY <1>6 DEF Crash, HandlersTyped, OnRow, Idle
  <2>3. Owing \subseteq Ids
    BY DEF TypeOK, Owing, OnRow
  <2>4. RestTyped'
    BY <1>6, <2>1, <2>3 DEF TypeOK, RestTyped, Crash, accounts
  <2> QED
    BY <1>1, <2>2, <2>4, TypesInParts
<1>7. CASE Tick \/ UNCHANGED vars
  <2>1. otps' = otps /\ requests' = requests /\ Ids' = Ids
    BY <1>7 DEF Tick, vars, table, Ids
  <2>2. HandlersTyped'
    BY <2>1, NobodyMoves
  <2>3. RestTyped'
    BY <1>7, <2>1 DEF TypeOK, RestTyped, Tick, vars, table, accounts
  <2> QED
    BY <1>1, <2>2, <2>3, TypesInParts
<1> QED
  BY <1>2, <1>3, <1>4, <1>5, <1>6, <1>7 DEF Next

\* The variables of every reachable state have their types, and whatever a
\* handler, a detached goroutine or a mailbox refers to is a row of the table.
THEOREM TypeCorrect == Spec => []TypeOK
<1>1. Init => TypeOK
  BY EmptySeq DEF Init, TypeOK, OnRow, Idle, Ids
<1> QED
  BY <1>1, NextKeepsTypes, PTL DEF Spec

-----------------------------------------------------------------------------
(* The inductive invariant *)

\* Somebody has invalidated code i, has yet to, or could not.
Doomed(i) == otps[i].invalidated \/ i \in burning \/ i \in Owing \/ i \in lost

\* The address of user u is one a code reached.
Proven(u) ==
  \E i \in delivered :
    /\ otps[i].contact = email[u]
    /\ otps[i].action \in {"REGISTER", "VERIFY_EMAIL", "CHANGE_EMAIL"}
Trusted(u) == u \in vouched \/ Proven(u)

\* A handler whose code was accepted.
Past(h) ==
  h.pc \in {"write", "invalidate", "detach"} \/ (h.pc = "find" /\ h.otp # 0)

\* What a handler knows between two statements, and nobody can undo.
KnowsCount(h) ==
  /\ h.pc = "count" => h.seen < MaxAttempts /\ h.seen <= otps[h.otp].guesses
  /\ h.pc = "lock" => otps[h.otp].guesses >= MaxAttempts
KnowsCode(h) ==
  Past(h) =>
    /\ h.otp \in presented \intersect delivered
    /\ otps[h.otp].action = h.action
    /\ otps[h.otp].contact = h.contact
KnowsDoom(h) ==
  /\ h.pc = "find" => h.action # "REGISTER"
  /\ (h.pc = "write" /\ h.action = "REGISTER") => Doomed(h.otp)
KnowsUser(h) ==
  /\ h.pc = "validate" => h.action \in {"LOGIN", "REGISTER"}
  /\ (h.pc = "write" /\ h.action = "VERIFY_EMAIL") => h.user \in Users /\ Trusted(h.user)
Knows(h) == KnowsCount(h) /\ KnowsCode(h) /\ KnowsDoom(h) /\ KnowsUser(h)

\* The count of a row is behind the wrong codes, which are behind nothing else.
RowsCount ==
  \A i \in Ids : otps[i].count <= MaxAttempts /\ otps[i].count <= otps[i].guesses

IInv ==
  /\ TypeOK
  /\ RowsCount
  /\ burning \subseteq presented
  /\ CodesDieForAReason
  /\ UsedCodesAreDoomed
  /\ VerifiedMeansProven
  /\ \A r \in Requests : Knows(requests[r])

LEMMA OthersStay ==
  ASSUME TypeOK, [Next]_vars, NEW q \in Requests, ~Moves(q), ~Crash
  PROVE  requests'[q] = requests[q]
<1>0. requests \in [Requests -> Handler \union {Idle}]
  BY DEF TypeOK
<1>1. ASSUME NEW r \in Requests, NEW h, Goes(r, h), r # q
      PROVE  requests'[q] = requests[q]
  BY <1>0, <1>1 DEF Goes
<1>2. ASSUME NEW r \in Requests, r # q, Moves(r) PROVE requests'[q] = requests[q]
  <2>1. PICK h : Goes(r, h)
    BY <1>2, EveryMoveIsAlone DEF MovesAlone
  <2> QED
    BY <1>1, <1>2, <2>1
<1>3. CASE \E i \in burning : Burn(i) \/ BurnFails(i)
  BY <1>3 DEF Burn, BurnFails
<1>4. CASE Account \/ Tick \/ UNCHANGED vars
  BY <1>4 DEF Account, RegisterWithPassword, UpdateForOrganization, Tick, vars
<1> QED
  BY <1>2, <1>3, <1>4 DEF Next, Moves

\* Histories only grow.
LEMMA HistoriesGrow ==
  ASSUME [Next]_vars
  PROVE  presented \subseteq presented' /\ delivered \subseteq delivered' /\ lost \subseteq lost'
<1>1. ASSUME NEW r \in Requests, Moves(r)
      PROVE  presented \subseteq presented' /\ delivered \subseteq delivered' /\ lost \subseteq lost'
  BY <1>1, EveryMoveIsAlone DEF MovesAlone, HistoriesKept
<1>2. CASE \E i \in burning : Burn(i) \/ BurnFails(i)
  BY <1>2 DEF Burn, BurnFails
<1>3. CASE Account \/ Crash \/ Tick \/ UNCHANGED vars
  BY <1>3 DEF Account, RegisterWithPassword, UpdateForOrganization, Crash, Tick, vars, table
<1> QED
  BY <1>1, <1>2, <1>3 DEF Next, Moves

\* What leaves `burning` is invalidated or lost.
LEMMA BurningIsKept ==
  ASSUME TypeOK, [Next]_vars, NEW i \in burning
  PROVE  otps'[i].invalidated \/ i \in burning' \/ i \in lost'
<1>1. ASSUME NEW r \in Requests, Moves(r) PROVE i \in burning'
  BY <1>1, EveryMoveIsAlone DEF MovesAlone
<1>2. ASSUME NEW j \in burning, Burn(j) \/ BurnFails(j)
      PROVE  otps'[i].invalidated \/ i \in burning' \/ i \in lost'
  <2>1. i \in Ids /\ j \in Ids /\ DOMAIN otps = Ids
    BY RowTypes DEF TypeOK
  <2>2. CASE i # j
    BY <1>2, <2>2 DEF Burn, BurnFails
  <2>3. CASE i = j /\ Burn(j)
    <3>1. otps'[i] = Burnt(otps[i])
      BY <2>1, <2>3 DEF Burn
    <3>2. Burnt(otps[i]).invalidated = TRUE
      BY <2>1, RowTypes DEF Burnt, Row
    <3> QED
      BY <3>1, <3>2
  <2>4. CASE i = j /\ BurnFails(j)
    BY <2>4 DEF BurnFails
  <2> QED
    BY <1>2, <2>2, <2>3, <2>4
<1>3. CASE Crash
  BY <1>3 DEF Crash
<1>4. CASE Account \/ Tick \/ UNCHANGED vars
  BY <1>4 DEF Account, RegisterWithPassword, UpdateForOrganization, Tick, vars, table
<1> QED
  BY <1>1, <1>2, <1>3, <1>4 DEF Next, Moves

\* A handler that owes an invalidation does it, hands it over or loses it.
LEMMA OwedIsKept ==
  ASSUME TypeOK, [Next]_vars, NEW i \in Owing
  PROVE  Doomed(i)'
<1>1. PICK r \in Requests :
        requests[r].pc \in {"invalidate", "detach"} /\ requests[r].otp = i
  BY DEF Owing
<1>2. i \in Ids /\ DOMAIN otps = Ids
  BY <1>1, HandlerTypes, RowTypes DEF OnRow
<1>3. CASE requests'[r] = requests[r]
  BY <1>1, <1>3 DEF Doomed, Owing
<1>4. CASE Crash
  BY <1>4 DEF Crash, Doomed
<1>5. CASE Invalidate(r)
  <2>1. otps'[i] = Burnt(otps[i])
    BY <1>1, <1>2, <1>5 DEF Invalidate
  <2>2. Burnt(otps[i]).invalidated = TRUE
    BY <1>2, RowTypes DEF Burnt, Row
  <2> QED
    BY <2>1, <2>2 DEF Doomed
<1>6. CASE DetachInvalidate(r)
  BY <1>1, <1>6 DEF DetachInvalidate, Doomed
<1>7. CASE Fail(r)
  BY <1>1, <1>7 DEF Fail, Doomed
<1>8. ASSUME Moves(r) PROVE Invalidate(r) \/ DetachInvalidate(r) \/ Fail(r)
  BY <1>1, <1>8, MovesInParts, GenerateMoves, VerifyMoves, ReadingMoves, WritingMoves
     DEF OnlyReads
<1> QED
  BY <1>3, <1>4, <1>5, <1>6, <1>7, <1>8, OthersStay

LEMMA DoomStays ==
  ASSUME TypeOK, [Next]_vars, NEW i \in Ids, Doomed(i)
  PROVE  Doomed(i)'
<1>1. CASE otps[i].invalidated
  BY <1>1, EveryStepContinues DEF TableContinues, Continues, Doomed
<1>2. CASE i \in burning
  BY <1>2, BurningIsKept DEF Doomed
<1>3. CASE i \in Owing
  BY <1>3, OwedIsKept
<1>4. CASE i \in lost
  BY <1>4, HistoriesGrow DEF Doomed
<1> QED
  BY <1>1, <1>2, <1>3, <1>4 DEF Doomed

\* A write of an address that a code authorized proves it.
LEMMA EarnedByCode ==
  ASSUME IInv, [Next]_vars, NEW r \in Requests, NEW u \in Users,
         (ChangeEmail(r) /\ requests[r].user = u) \/ ProvisionUser(r, u)
  PROVE  Proven(u)'
<1> DEFINE h == requests[r]
<1>1. h.pc = "write" /\ h.action \in {"CHANGE_EMAIL", "REGISTER"}
  BY DEF ChangeEmail, ProvisionUser, Writes
<1>2. h.otp \in delivered /\ otps[h.otp].action = h.action /\ otps[h.otp].contact = h.contact
  BY <1>1 DEF IInv, Knows, KnowsCode, Past
<1>3. h.otp \in Ids /\ h.otp \in delivered'
  BY <1>2, HistoriesGrow DEF IInv, TypeOK
<1>4. otps'[h.otp].action = h.action /\ otps'[h.otp].contact = h.contact
  BY <1>2, <1>3, EveryStepContinues DEF IInv, TableContinues, Continues
<1>5. email'[u] = h.contact
  BY DEF IInv, TypeOK, ChangeEmail, ProvisionUser
<1> QED
  BY <1>1, <1>3, <1>4, <1>5 DEF Proven

\* The steps that write `email`, `verified` or `vouched`.
AccountsWritten ==
  \/ \E r \in Requests : VerifyEmail(r) \/ ChangeEmail(r) \/ \E v \in Users : ProvisionUser(r, v)
  \/ \E v \in Users, c \in Addresses :
       RegisterWithPassword(v, c) \/ \E b \in BOOLEAN : UpdateForOrganization(v, c, b)

LEMMA AccountsAreKept ==
  ASSUME [Next]_vars, ~AccountsWritten
  PROVE  UNCHANGED accounts
<1>1. ASSUME NEW r \in Requests, Moves(r) PROVE UNCHANGED accounts
  <2>1. CASE Generate(r) \/ Verify(r)
    BY <2>1, GenerateMoves, VerifyMoves
  <2>2. CASE ConsumeReading(r)
    BY <2>2, ReadingMoves DEF OnlyReads
  <2>3. CASE ConsumeWriting(r)
    BY <2>3 DEF AccountsWritten, ConsumeWriting, ResetPassword, CreateSession, DetachInvalidate, Invalidate
  <2>4. CASE Fail(r)
    BY <2>4 DEF Fail
  <2> QED
    BY <1>1, <2>1, <2>2, <2>3, <2>4, ConsumeInHalves DEF Moves
<1>2. CASE \E i \in burning : Burn(i) \/ BurnFails(i)
  BY <1>2 DEF Burn, BurnFails
<1>3. CASE Account
  BY <1>3 DEF Account, AccountsWritten
<1>4. CASE Crash \/ Tick \/ UNCHANGED vars
  BY <1>4 DEF Crash, Tick, vars, accounts
<1> QED
  BY <1>1, <1>2, <1>3, <1>4 DEF Next, Moves

LEMMA ProofStays ==
  ASSUME TypeOK, [Next]_vars, NEW u \in Users, Proven(u), email'[u] = email[u]
  PROVE  Proven(u)'
<1>1. PICK i \in delivered :
        /\ otps[i].contact = email[u]
        /\ otps[i].action \in {"REGISTER", "VERIFY_EMAIL", "CHANGE_EMAIL"}
  BY DEF Proven
<1>2. i \in Ids /\ i \in delivered'
  BY HistoriesGrow DEF TypeOK
<1>3. otps'[i].contact = email[u] /\ otps'[i].action = otps[i].action
  BY <1>1, <1>2, EveryStepContinues DEF TableContinues, Continues
<1> QED
  BY <1>1, <1>2, <1>3 DEF Proven

LEMMA TrustStays ==
  ASSUME IInv, [Next]_vars, NEW u \in Users, Trusted(u)
  PROVE  Trusted(u)'
<1>0. TypeOK /\ email \in [Users -> Addresses \union {NoAddress}]
  BY DEF IInv, TypeOK
<1>1. ASSUME email'[u] = email[u], u \in vouched => u \in vouched' PROVE Trusted(u)'
  BY <1>0, <1>1, ProofStays DEF Trusted
<1>2. ASSUME NEW r \in Requests, VerifyEmail(r) PROVE Trusted(u)'
  BY <1>1, <1>2 DEF VerifyEmail
<1>3. ASSUME NEW r \in Requests, ChangeEmail(r) PROVE Trusted(u)'
  <2>1. CASE requests[r].user = u
    BY <1>3, <2>1, EarnedByCode DEF Trusted
  <2>2. CASE requests[r].user # u
    BY <1>0, <1>1, <1>3, <2>2 DEF ChangeEmail
  <2> QED
    BY <2>1, <2>2
<1>4. ASSUME NEW r \in Requests, NEW v \in Users, ProvisionUser(r, v) PROVE Trusted(u)'
  <2>1. CASE v = u
    BY <1>4, <2>1, EarnedByCode DEF Trusted
  <2>2. CASE v # u
    BY <1>0, <1>1, <1>4, <2>2 DEF ProvisionUser
  <2> QED
    BY <2>1, <2>2
<1>5. ASSUME NEW v \in Users, NEW c \in Addresses, RegisterWithPassword(v, c) PROVE Trusted(u)'
  <2>1. CASE v # u
    BY <1>0, <1>1, <1>5, <2>1 DEF RegisterWithPassword
  <2>2. CASE u \in vouched
    BY <1>5, <2>2 DEF RegisterWithPassword, Trusted
  <2>3. CASE v = u /\ Proven(u)
    <3>1. PICK i \in delivered : otps[i].contact = NoAddress
      BY <1>5, <2>3 DEF RegisterWithPassword, Proven
    <3>2. otps[i].contact \in Addresses
      BY <1>0, RowTypes DEF TypeOK, Row
    <3> QED
      BY <3>1, <3>2, NobodyAssumption
  <2> QED
    BY <2>1, <2>2, <2>3 DEF Trusted
<1>6. ASSUME NEW v \in Users, NEW c \in Addresses, NEW b \in BOOLEAN, UpdateForOrganization(v, c, b)
      PROVE  Trusted(u)'
  <2>1. CASE v = u
    BY <1>6, <2>1 DEF UpdateForOrganization, Trusted
  <2>2. CASE v # u
    BY <1>0, <1>1, <1>6, <2>2 DEF UpdateForOrganization
  <2> QED
    BY <2>1, <2>2
<1>7. CASE ~AccountsWritten
  BY <1>1, <1>7, AccountsAreKept DEF accounts
<1> QED
  BY <1>2, <1>3, <1>4, <1>5, <1>6, <1>7 DEF AccountsWritten

\* A flag that was not set is set for an address that was proved or vouched for.
LEMMA FlagsAreEarned ==
  ASSUME IInv, [Next]_vars
  PROVE  VerifiedMeansProven'
<1>0. TypeOK /\ verified \in [Users -> BOOLEAN]
  BY DEF IInv, TypeOK
<1>1. SUFFICES ASSUME NEW u \in Users, verified'[u] PROVE Trusted(u)'
  BY DEF VerifiedMeansProven, Trusted, Proven
<1>2. CASE verified[u]
  <2>1. Trusted(u)
    BY <1>2 DEF IInv, VerifiedMeansProven, Trusted, Proven
  <2> QED
    BY <2>1, TrustStays
<1>3. CASE ~verified[u]
  <2>1. ASSUME NEW r \in Requests, VerifyEmail(r) PROVE Trusted(u)'
    <3>1. u = requests[r].user
      BY <1>0, <1>1, <1>3, <2>1 DEF VerifyEmail
    <3>2. Trusted(u)
      BY <2>1, <3>1 DEF IInv, Knows, KnowsUser, VerifyEmail, Writes
    <3> QED
      BY <3>2, TrustStays
  <2>2. ASSUME NEW r \in Requests, ChangeEmail(r) PROVE Trusted(u)'
    <3>1. u = requests[r].user
      BY <1>0, <1>1, <1>3, <2>2 DEF ChangeEmail
    <3> QED
      BY <2>2, <3>1, EarnedByCode DEF Trusted
  <2>3. ASSUME NEW r \in Requests, NEW v \in Users, ProvisionUser(r, v) PROVE Trusted(u)'
    <3>1. u = v
      BY <1>0, <1>1, <1>3, <2>3 DEF ProvisionUser
    <3> QED
      BY <2>3, <3>1, EarnedByCode DEF Trusted
  <2>4. ASSUME NEW v \in Users, NEW c \in Addresses, RegisterWithPassword(v, c) PROVE FALSE
    BY <1>1, <1>3, <2>4 DEF RegisterWithPassword
  <2>5. ASSUME NEW v \in Users, NEW c \in Addresses, NEW b \in BOOLEAN,
               UpdateForOrganization(v, c, b)
        PROVE  Trusted(u)'
    <3>1. u = v
      BY <1>0, <1>1, <1>3, <2>5 DEF UpdateForOrganization
    <3> QED
      BY <2>5, <3>1 DEF UpdateForOrganization, Trusted
  <2>6. AccountsWritten
    BY <1>1, <1>3, AccountsAreKept DEF accounts
  <2> QED
    BY <2>1, <2>2, <2>3, <2>4, <2>5, <2>6 DEF AccountsWritten
<1> QED
  BY <1>2, <1>3

-----------------------------------------------------------------------------
(* Dead codes *)

\* Only an acceptance, or the account an accepted code is for, lead to a write.
LEMMA WhereHandlersGo ==
  ASSUME TypeOK, NEW r \in Requests,
         Generate(r) \/ Verify(r) \/ ConsumeWriting(r) \/ Fail(r) \/ Crash
  PROVE  requests'[r].pc \notin {"find", "write"}
<1>0. requests \in [Requests -> Handler \union {Idle}]
  BY DEF TypeOK
<1>1. ASSUME NEW act \in Actions, NEW a \in Apps, NEW c \in Addresses, GenerateReads(r, act, a, c)
      PROVE  requests'[r].pc = "limit"
  BY <1>0, <1>1 DEF GenerateReads, Goes
<1>2. ASSUME CheckRateLimit(r) \/ Create(r)
      PROVE  requests'[r].pc \in {"create", "send"}
  <2>1. requests[r] \in Handler
    BY <1>2, HandlerTypes DEF CheckRateLimit, Create
  <2> QED
    BY <1>0, <1>2, <2>1 DEF CheckRateLimit, Create, Goes, Handler
<1>3. ASSUME NEW i \in Ids, NEW right \in BOOLEAN, VerifyReads(r, i, right)
      PROVE  requests'[r].pc \in {"lock", "count"}
  <2>1. requests'[r].pc = AfterVerify(i, right)
    BY <1>0, <1>3 DEF VerifyReads, Goes
  <2> QED
    BY <1>3, <2>1 DEF VerifyReads, AfterVerify
<1>4. ASSUME ResetPassword(r) \/ VerifyEmail(r) \/ ChangeEmail(r) \/ CreateSession(r)
      PROVE  requests'[r].pc \in {"invalidate", "detach"}
  <2>1. requests[r] \in Handler
    BY <1>4, HandlerTypes DEF ResetPassword, VerifyEmail, ChangeEmail, CreateSession, Writes
  <2> QED
    BY <1>0, <1>4, <2>1 DEF ResetPassword, VerifyEmail, ChangeEmail, CreateSession, Goes, Handler
<1>5. ASSUME \/ Send(r) \/ CountFailure(r) \/ DetachInvalidate(r) \/ Invalidate(r)
             \/ Fail(r) \/ Crash \/ \E u \in Users : ProvisionUser(r, u)
      PROVE  requests'[r].pc = "idle"
  BY <1>0, <1>5 DEF Send, CountFailure, DetachInvalidate, Invalidate, Fail, Crash,
                    ProvisionUser, Goes, Idle
<1> QED
  BY <1>1, <1>2, <1>3, <1>4, <1>5 DEF Generate, Verify, ConsumeWriting

LEMMA NobodyAcceptsTheDead ==
  ASSUME TypeOK, [Next]_vars, NEW i \in Ids, IsDead(i), NEW r \in Requests,
         requests'[r].pc \in {"find", "write"}, requests'[r].otp = i
  PROVE  requests[r].pc \in {"find", "write"} /\ requests[r].otp = i
<1>0. requests \in [Requests -> Handler \union {Idle}]
  BY DEF TypeOK
<1>1. CASE ~Moves(r)
  BY <1>1, OthersStay, WhereHandlersGo
<1>2. CASE ConsumeReading(r)
  <2>1. \A h : ~Accepts(i, h)
    <3>1. otps[i].expiresAt \in Nat /\ now \in Nat
      BY RowTypes DEF TypeOK, Row
    <3> QED
      BY <3>1 DEF IsDead, Accepts, Alive
  <2>2. ASSUME NEW act \in Actions, NEW a \in Apps, NEW c \in Addresses,
               NEW u \in Users \union {NoUser}, NEW k \in Ids, ConsumeReads(r, act, a, c, u, k)
        PROVE  FALSE
    <3>1. requests'[r].otp = k
      BY <1>0, <2>2 DEF ConsumeReads, Called, Goes
    <3> QED
      BY <2>1, <2>2, <3>1 DEF ConsumeReads
  <2>3. ASSUME NEW act \in Actions, NEW a \in Apps, NEW c \in Addresses,
               NEW u \in Users \union {NoUser}, EntryReads(r, act, a, c, u)
        PROVE  FALSE
    <3>1. requests'[r].pc = "validate"
      BY <1>0, <2>3 DEF EntryReads, Called, Goes
    <3> QED
      BY <3>1
  <2>4. ASSUME NEW u \in Users, ConsumeFinds(r, u)
        PROVE  requests[r].pc \in {"find", "write"} /\ requests[r].otp = i
    <3>1. requests[r] \in Handler
      BY <2>4, HandlerTypes DEF ConsumeFinds
    <3> QED
      BY <1>0, <2>4, <3>1 DEF ConsumeFinds, Goes, Handler
  <2>5. ASSUME NEW k \in Ids, EntryValidates(r, k)
        PROVE  FALSE
    <3>1. requests[r] \in Handler
      BY <2>5, HandlerTypes DEF EntryValidates
    <3>2. requests'[r].otp = k
      BY <1>0, <2>5, <3>1 DEF EntryValidates, Goes, Handler
    <3> QED
      BY <2>1, <2>5, <3>2 DEF EntryValidates
  <2> QED
    BY <1>2, <2>2, <2>3, <2>4, <2>5 DEF ConsumeReading
<1>3. CASE Generate(r) \/ Verify(r) \/ ConsumeWriting(r) \/ Fail(r)
  BY <1>3, WhereHandlersGo
<1> QED
  BY <1>1, <1>2, <1>3, MovesInParts

\* A use of a code takes one of those who accepted it.
LEMMA UsesTakeHolders ==
  ASSUME TypeOK, [Next]_vars, NEW i \in Ids, otps'[i].uses # otps[i].uses
  PROVE  Holders(i)' # Holders(i)
<1>0. DOMAIN otps = Ids /\ otps[i] \in Row
  BY RowTypes
<1>1. ASSUME NEW r \in Requests, CountFailure(r) PROVE otps'[i].uses = otps[i].uses
  <2>1. otps'[i] = otps[i] \/ otps'[i] = Counted(otps[i], requests[r])
    BY <1>0, <1>1 DEF CountFailure
  <2> QED
    BY <1>0, <2>1 DEF Counted, Row
<1>2. Burnt(otps[i]).uses = otps[i].uses
  BY <1>0 DEF Burnt, Row
<1>3. ASSUME NEW r \in Requests, Invalidate(r) PROVE otps'[i].uses = otps[i].uses
  BY <1>0, <1>2, <1>3 DEF Invalidate
<1>4. ASSUME NEW j \in burning, Burn(j) PROVE otps'[i].uses = otps[i].uses
  BY <1>0, <1>2, <1>4 DEF Burn
<1>5. ASSUME NEW r \in Requests, Create(r) PROVE otps'[i].uses = otps[i].uses
  BY <1>5, CreateInserts
<1>6. PICK r \in Requests :
        \/ ResetPassword(r) \/ VerifyEmail(r) \/ ChangeEmail(r) \/ CreateSession(r)
        \/ \E u \in Users : ProvisionUser(r, u)
  BY <1>1, <1>3, <1>4, <1>5, OtherStepsKeepTheTable DEF RowStatements
<1>7. /\ requests[r].pc = "write"
      /\ otps' = [otps EXCEPT ![requests[r].otp] = Used(@)]
  BY <1>6 DEF ResetPassword, VerifyEmail, ChangeEmail, CreateSession, ProvisionUser,
              Writes, UsesTheCode
<1>8. requests[r].otp = i
  BY <1>0, <1>7
<1>9. requests'[r].pc \notin {"find", "write"}
  BY <1>6, WhereHandlersGo DEF ConsumeWriting
<1> QED
  BY <1>7, <1>8, <1>9 DEF Holders

LEMMA TheClockAdvances ==
  ASSUME TypeOK, [Next]_vars
  PROVE  now' \in Nat /\ now' >= now
<1>0. now \in Nat
  BY DEF TypeOK
<1>1. ASSUME NEW r \in Requests, Moves(r) PROVE now' = now
  <2>1. ASSUME Generate(r) PROVE now' = now
    BY <2>1 DEF Generate, GenerateReads, CheckRateLimit, Create, Send
  <2>2. ASSUME Verify(r) PROVE now' = now
    BY <2>2 DEF Verify, VerifyReads, CountFailure
  <2>3. ASSUME ConsumeReading(r) PROVE now' = now
    BY <2>3 DEF ConsumeReading, ConsumeReads, EntryReads, ConsumeFinds, EntryValidates
  <2>4. ASSUME ConsumeWriting(r) PROVE now' = now
    BY <2>4 DEF ConsumeWriting, ResetPassword, VerifyEmail, ChangeEmail, CreateSession,
                DetachInvalidate, Invalidate, ProvisionUser
  <2>5. ASSUME Fail(r) PROVE now' = now
    BY <2>5 DEF Fail
  <2> QED
    BY <1>1, <2>1, <2>2, <2>3, <2>4, <2>5, MovesInParts
<1>2. CASE \E i \in burning : Burn(i) \/ BurnFails(i)
  BY <1>0, <1>2 DEF Burn, BurnFails
<1>3. CASE Account \/ Crash \/ UNCHANGED vars
  BY <1>0, <1>3 DEF Account, RegisterWithPassword, UpdateForOrganization, Crash, vars
<1>4. CASE Tick
  BY <1>0, <1>4 DEF Tick
<1> QED
  BY <1>0, <1>1, <1>2, <1>3, <1>4 DEF Next, Moves

\* A code that expired or was invalidated stays dead, whatever a verification that
\* read it before still writes: the update names one column.
LEMMA DeadCodesStayDead ==
  ASSUME TypeOK, [Next]_vars, NEW i \in Ids, IsDead(i)
  PROVE  DeadForGood(i)
<1>1. /\ otps[i].invalidated => otps'[i].invalidated
      /\ otps'[i].expiresAt = otps[i].expiresAt /\ otps[i].expiresAt \in Nat
  BY EveryStepContinues, RowTypes DEF TableContinues, Continues, Row
<1>2. now \in Nat /\ now' \in Nat /\ now' >= now
  BY TheClockAdvances DEF TypeOK
<1>3. IsDead(i)'
  BY <1>1, <1>2 DEF IsDead
<1>4. Holders(i)' \subseteq Holders(i)
  BY NobodyAcceptsTheDead DEF Holders
<1> QED
  BY <1>1, <1>3, <1>4, UsesTakeHolders DEF DeadForGood

-----------------------------------------------------------------------------
(* Recent codes *)

\* Some rows of a table of n have a last one among them.
LEMMA LastOfSome ==
  ASSUME NEW n \in Nat, NEW S, S \subseteq 1..n, S # {}
  PROVE  \E i \in S : \A j \in S : j <= i
<1> DEFINE Back == {n - j : j \in S}
<1>1. Back \subseteq Nat /\ Back # {}
  <2>1. \A j \in 1..n : n - j \in Nat
    OBVIOUS
  <2> QED
    BY <2>1
<1>2. PICK b \in Back : \A c \in Back : <<c, b>> \notin OpToRel(<, Nat)
  <2> HIDE DEF Back
  <2> QED
    BY <1>1, NatLessThanWellFounded, WFMin
<1>3. \A c \in Back : ~(c < b)
  BY <1>1, <1>2 DEF OpToRel
<1>4. PICK i \in S : b = n - i
  OBVIOUS
<1>5. ASSUME NEW j \in S PROVE j <= i
  <2>1. ~(n - j < n - i)
    BY <1>3, <1>4
  <2> QED
    BY <2>1
<1> QED
  BY <1>5

\* The order of insertion is the order of time.
InOrder ==
  \A i \in Ids :
    /\ otps[i].createdAt <= now
    /\ \A j \in Ids : i <= j => otps[i].createdAt <= otps[j].createdAt

\* A step inserts one code, or none.
LEMMA StepsInsertOne ==
  ASSUME TypeOK, [Next]_vars
  PROVE  Ids' = Ids \/ \E r \in Requests : Create(r)
<1>1. CASE \E r \in Requests : RowStatements(r)
  BY <1>1, RowStatementsContinue
<1>2. CASE \E i \in burning : Burn(i)
  BY <1>2, BurnContinues
<1> QED
  BY <1>1, <1>2, OtherStepsKeepTheTable, NothingChanges

LEMMA InOrderInductive == TypeOK /\ InOrder /\ [Next]_vars => InOrder'
<1> SUFFICES ASSUME TypeOK, InOrder, [Next]_vars, NEW i \in Ids'
             PROVE  /\ otps'[i].createdAt <= now'
                    /\ \A j \in Ids' : i <= j => otps'[i].createdAt <= otps'[j].createdAt
  BY DEF InOrder
<1>1. \A j \in Ids : otps'[j].createdAt = otps[j].createdAt /\ otps[j].createdAt \in Nat
  BY EveryStepContinues, RowTypes DEF TableContinues, Continues, Row
<1>2. now \in Nat /\ now' \in Nat /\ now <= now'
  BY TheClockAdvances DEF TypeOK
<1>3. CASE Ids' = Ids
  BY <1>1, <1>2, <1>3 DEF InOrder
<1>4. ASSUME NEW r \in Requests, Create(r)
      PROVE  /\ otps'[i].createdAt <= now'
             /\ \A j \in Ids' : i <= j => otps'[i].createdAt <= otps'[j].createdAt
  <2> DEFINE new == Len(otps) + 1
  <2>1. Ids' = Ids \union {new} /\ otps'[new].createdAt = now
    <3>1. Ids' = Ids \union {new} /\ otps'[new] = NewRow(requests[r])
      BY <1>4, CreateInserts
    <3> QED
      BY <3>1 DEF NewRow
  <2>2. \A j \in Ids : j < new
    BY RowTypes DEF Ids
  <2>3. new \in Nat /\ Ids \subseteq Nat
    BY RowTypes DEF Ids
  <2> HIDE DEF new
  <2>4. CASE i \in Ids
    BY <1>1, <1>2, <2>1, <2>4 DEF InOrder
  <2>5. CASE i = new
    BY <1>2, <2>1, <2>2, <2>3, <2>5
  <2> QED
    BY <2>1, <2>4, <2>5
<1> QED
  BY <1>3, <1>4, StepsInsertOne

\* The rate limit is the only way to the insert.
LEMMA OnlyTheLimitClears ==
  ASSUME TypeOK, [Next]_vars, NEW r \in Requests, requests'[r].pc = "create"
  PROVE  requests'[r] = requests[r] \/ CheckRateLimit(r)
<1>0. requests \in [Requests -> Handler \union {Idle}]
  BY DEF TypeOK
<1>1. CASE ~Moves(r) /\ ~Crash
  BY <1>1, OthersStay
<1>2. CASE Crash
  BY <1>2 DEF Crash, Idle
<1>3. CASE Generate(r)
  <2>1. ASSUME NEW act \in Actions, NEW a \in Apps, NEW c \in Addresses,
               GenerateReads(r, act, a, c)
        PROVE  FALSE
    BY <1>0, <2>1 DEF GenerateReads, Goes
  <2>2. ~Create(r)
    <3>1. Create(r) => requests[r] \in Handler
      BY HandlerTypes DEF Create
    <3> QED
      BY <1>0, <3>1 DEF Create, Goes, Handler
  <2>3. ~Send(r)
    BY <1>0 DEF Send, Goes, Idle
  <2> QED
    BY <1>3, <2>1, <2>2, <2>3 DEF Generate
<1>4. CASE Verify(r)
  <2>1. ASSUME NEW i \in Ids, NEW right \in BOOLEAN, VerifyReads(r, i, right)
        PROVE  FALSE
    <3>1. requests'[r].pc = AfterVerify(i, right)
      BY <1>0, <2>1 DEF VerifyReads, Goes
    <3> QED
      BY <3>1 DEF AfterVerify
  <2>2. ~CountFailure(r)
    BY <1>0 DEF CountFailure, Goes, Idle
  <2> QED
    BY <1>4, <2>1, <2>2 DEF Verify
<1>5. CASE ConsumeReading(r)
  <2>1. requests'[r].pc \in {"find", "validate", "write"}
    <3>1. ASSUME NEW act \in Actions, NEW a \in Apps, NEW c \in Addresses,
                 NEW u \in Users \union {NoUser}, NEW k \in Ids, ConsumeReads(r, act, a, c, u, k)
          PROVE  requests'[r].pc = "find"
      BY <1>0, <3>1 DEF ConsumeReads, Called, Goes
    <3>2. ASSUME NEW act \in Actions, NEW a \in Apps, NEW c \in Addresses,
                 NEW u \in Users \union {NoUser}, EntryReads(r, act, a, c, u)
          PROVE  requests'[r].pc = "validate"
      BY <1>0, <3>2 DEF EntryReads, Called, Goes
    <3>3. ASSUME NEW u \in Users, ConsumeFinds(r, u)
          PROVE  requests'[r].pc = "write"
      <4>1. requests[r] \in Handler
        BY <3>3, HandlerTypes DEF ConsumeFinds
      <4> QED
        BY <1>0, <3>3, <4>1 DEF ConsumeFinds, Goes, Handler
    <3>4. ASSUME NEW k \in Ids, EntryValidates(r, k)
          PROVE  requests'[r].pc = "write"
      <4>1. requests[r] \in Handler
        BY <3>4, HandlerTypes DEF EntryValidates
      <4> QED
        BY <1>0, <3>4, <4>1 DEF EntryValidates, Goes, Handler
    <3> QED
      BY <1>5, <3>1, <3>2, <3>3, <3>4 DEF ConsumeReading
  <2> QED
    BY <2>1
<1>6. CASE ConsumeWriting(r)
  <2>1. requests'[r].pc \in {"invalidate", "detach", "idle"}
    <3>1. ASSUME ResetPassword(r) \/ VerifyEmail(r) \/ ChangeEmail(r) \/ CreateSession(r)
          PROVE  requests'[r].pc \in {"invalidate", "detach"}
      <4>1. requests[r] \in Handler
        BY <3>1, HandlerTypes DEF ResetPassword, VerifyEmail, ChangeEmail, CreateSession, Writes
      <4> QED
        BY <1>0, <3>1, <4>1 DEF ResetPassword, VerifyEmail, ChangeEmail, CreateSession, Goes,
                                Handler
    <3>2. ASSUME DetachInvalidate(r) \/ Invalidate(r) \/ \E u \in Users : ProvisionUser(r, u)
          PROVE  requests'[r].pc = "idle"
      BY <1>0, <3>2 DEF DetachInvalidate, Invalidate, ProvisionUser, Goes, Idle
    <3> QED
      BY <1>6, <3>1, <3>2 DEF ConsumeWriting
  <2> QED
    BY <2>1
<1>7. CASE Fail(r)
  BY <1>0, <1>7 DEF Fail, Goes, Idle
<1> QED
  BY <1>1, <1>2, <1>3, <1>4, <1>5, <1>6, <1>7, MovesInParts

\* The newest of the codes like a recent one is recent, so that FindLast refuses.
LEMMA RecentRefuses ==
  ASSUME TypeOK, InOrder, NEW i \in Ids, IsRecent(i), NEW r \in Requests,
         SameRequest(i, requests[r])
  PROVE  ~CheckRateLimit(r)
<1> DEFINE earlier == {j \in Ids : SameRequest(j, requests[r])}
<1>1. PICK k \in earlier : \A j \in earlier : j <= k
  <2>1. Len(otps) \in Nat /\ earlier \subseteq 1..Len(otps) /\ earlier # {}
    BY RowTypes DEF Ids
  <2> HIDE DEF earlier
  <2> QED
    BY <2>1, LastOfSome
<1>2. otps[i].createdAt <= otps[k].createdAt
  BY <1>1 DEF InOrder
<1>3. otps[i].createdAt \in Nat /\ otps[k].createdAt \in Nat /\ now \in Nat
  BY <1>1, RowTypes DEF TypeOK, Row
<1>4. ~(now - otps[k].createdAt >= RateLimit)
  BY <1>2, <1>3, LimitsAssumption DEF IsRecent
<1> QED
  BY <1>1, <1>4 DEF CheckRateLimit

\* While a code is recent no handler gets past the rate limit for another one like it.
LEMMA NobodyIsCleared ==
  ASSUME TypeOK, InOrder, [Next]_vars, NEW i \in Ids, IsRecent(i)
  PROVE  Cleared(i)' \subseteq Cleared(i)
<1> SUFFICES ASSUME NEW r \in Requests, requests'[r].pc = "create", SameRequest(i, requests[r])'
             PROVE  requests[r].pc = "create" /\ SameRequest(i, requests[r])
  BY DEF Cleared
<1>1. /\ otps'[i].contact = otps[i].contact /\ otps'[i].app = otps[i].app
      /\ otps'[i].action = otps[i].action
  BY EveryStepContinues DEF TableContinues, Continues
<1>2. CASE requests'[r] = requests[r]
  BY <1>1, <1>2 DEF SameRequest
<1>3. CASE CheckRateLimit(r)
  <2>1. requests[r] \in Handler
    BY <1>3, HandlerTypes DEF CheckRateLimit
  <2>2. /\ requests'[r].contact = requests[r].contact /\ requests'[r].app = requests[r].app
        /\ requests'[r].action = requests[r].action
    BY <1>3, <2>1 DEF TypeOK, CheckRateLimit, Goes, Handler
  <2>3. SameRequest(i, requests[r])
    BY <1>1, <2>2 DEF SameRequest
  <2> QED
    BY <1>3, <2>3, RecentRefuses
<1> QED
  BY <1>2, <1>3, OnlyTheLimitClears

\* A code is inserted by one of those past the rate limit, which is past it no more.
LEMMA CodesTakeTheCleared ==
  ASSUME TypeOK, [Next]_vars, NEW i \in Ids, CodesLike(i)' # CodesLike(i)
  PROVE  \E r \in Cleared(i) \ Cleared(i)' :
           CodesLike(i)' \ CodesLike(i) = {requests'[r].otp}
<1>1. \A j \in Ids : /\ otps'[j].contact = otps[j].contact /\ otps'[j].app = otps[j].app
                     /\ otps'[j].action = otps[j].action
  BY EveryStepContinues DEF TableContinues, Continues
<1>2. \A j \in Ids : SameRequest(i, otps[j])' <=> SameRequest(i, otps[j])
  BY <1>1 DEF SameRequest
<1>3. Ids' # Ids
  BY <1>2 DEF CodesLike
<1>4. PICK r \in Requests : Create(r)
  BY <1>3, StepsInsertOne
<1>5. PICK new : new = Len(otps) + 1
  OBVIOUS
<1>6. PICK h : h = requests[r] /\ h \in Handler /\ h.pc = "create"
  BY <1>4, HandlerTypes DEF Create
<1>7. Ids' = Ids \union {new} /\ otps'[new] = NewRow(h) /\ new \notin Ids
  BY <1>4, <1>5, <1>6, CreateInserts, RowTypes DEF Ids
<1>8. requests'[r].otp = new /\ requests'[r].pc = "send"
  BY <1>4, <1>5, <1>6 DEF TypeOK, Create, Goes, Handler
<1>9. SameRequest(i, otps[new])' <=> SameRequest(i, h)
  BY <1>1, <1>7 DEF SameRequest, NewRow
<1>10. CodesLike(i)' = CodesLike(i) \union {k \in {new} : SameRequest(i, h)}
  BY <1>2, <1>7, <1>9 DEF CodesLike
<1>11. SameRequest(i, h) /\ CodesLike(i)' \ CodesLike(i) = {new}
  BY <1>7, <1>10 DEF CodesLike
<1> QED
  BY <1>6, <1>8, <1>11 DEF Cleared

\* What the table refuses it refuses for good.  A code that is dead stays dead, nobody
\* else accepts it, and whoever did uses it once; while a code is recent nobody else
\* gets past the rate limit for another one, and whoever was past it inserts one.
THEOREM NobodyComesTooLate == Spec => RefusalsAreFinal
<1>1. Init => InOrder
  BY EmptySeq DEF Init, InOrder, Ids
<1>2. ASSUME TypeOK, InOrder, [Next]_vars, NEW i \in Ids
      PROVE  /\ IsDead(i) => DeadForGood(i)
             /\ IsRecent(i) => KeepsOthersWaiting(i)
  BY <1>2, DeadCodesStayDead, NobodyIsCleared, CodesTakeTheCleared DEF KeepsOthersWaiting
<1>3. TypeOK /\ InOrder /\ [Next]_vars =>
        [\A i \in Ids :
           /\ IsDead(i) => DeadForGood(i)
           /\ IsRecent(i) => KeepsOthersWaiting(i)]_vars
  BY <1>2
<1> QED
  BY <1>1, <1>3, TypeCorrect, InOrderInductive, PTL DEF Spec, RefusalsAreFinal

-----------------------------------------------------------------------------
(* What handlers know *)

\* A handler with no row, or that only has an e-mail to send, knows nothing.
LEMMA QuietHandlers ==
  ASSUME NEW r \in Requests, requests'[r].pc \in {"idle", "limit", "create", "send"}
  PROVE  Knows(requests[r])'
BY DEF Knows, KnowsCount, KnowsCode, KnowsDoom, KnowsUser, Past

LEMMA KnowledgeStays ==
  ASSUME IInv, [Next]_vars, NEW r \in Requests, requests'[r] = requests[r]
  PROVE  Knows(requests[r])'
<1> DEFINE h == requests[r]
<1>0. TypeOK /\ Knows(h)
  BY DEF IInv
<1>1. CASE h.pc = "idle"
  BY <1>1, QuietHandlers
<1>2. CASE h.pc # "idle"
  <2>1. h \in Handler /\ (HasRow(h) => h.otp \in Ids)
    BY <1>0, <1>2, HandlerTypes DEF HasRow, OnRow
  <2>2. HasRow(h) => /\ otps'[h.otp].guesses >= otps[h.otp].guesses
                     /\ otps'[h.otp].action = otps[h.otp].action
                     /\ otps'[h.otp].contact = otps[h.otp].contact
                     /\ otps'[h.otp].guesses \in Nat /\ otps[h.otp].guesses \in Nat
    BY <1>0, <2>1, EveryStepContinues, RowTypes DEF TableContinues, Continues, Row
  <2>3. KnowsCount(h)'
    <3>1. CASE h.pc \in {"count", "lock"}
      <4>1. HasRow(h)
        BY <3>1 DEF HasRow
      <4> QED
        BY <1>0, <2>1, <2>2, <4>1, LimitsAssumption DEF Knows, KnowsCount, Handler
    <3> QED
      BY <3>1 DEF KnowsCount
  <2>4. KnowsCode(h)'
    <3>1. Past(h) => HasRow(h)
      BY DEF Past, HasRow
    <3> QED
      BY <1>0, <2>2, <3>1, HistoriesGrow DEF Knows, KnowsCode, Past
  <2>5. KnowsDoom(h)'
    <3>1. CASE h.pc = "write" /\ h.action = "REGISTER"
      <4>1. h.otp \in Ids /\ Doomed(h.otp)
        BY <1>0, <2>1, <3>1 DEF HasRow, Knows, KnowsDoom
      <4> HIDE DEF h
      <4>2. PICK i \in Ids : i = h.otp
        BY <4>1
      <4>3. Doomed(i)'
        BY <1>0, <4>1, <4>2, DoomStays
      <4> QED
        BY <3>1, <4>2, <4>3 DEF KnowsDoom, Doomed, h
    <3> QED
      BY <1>0, <3>1 DEF Knows, KnowsDoom
  <2>6. KnowsUser(h)'
    <3>1. CASE h.pc = "write" /\ h.action = "VERIFY_EMAIL"
      <4>1. h.user \in Users /\ Trusted(h.user)
        BY <1>0, <3>1 DEF Knows, KnowsUser
      <4> HIDE DEF h
      <4>2. PICK u \in Users : u = h.user
        BY <4>1
      <4>3. Trusted(u)'
        BY <4>1, <4>2, TrustStays
      <4> QED
        BY <3>1, <4>2, <4>3 DEF KnowsUser, Trusted, Proven, h
    <3> QED
      BY <1>0, <3>1 DEF Knows, KnowsUser
  <2> QED
    BY <2>3, <2>4, <2>5, <2>6 DEF Knows
<1> QED
  BY <1>1, <1>2

LEMMA VerifyLearns ==
  ASSUME IInv, [Next]_vars, NEW r \in Requests, Verify(r)
  PROVE  Knows(requests[r])'
<1>0. TypeOK /\ requests \in [Requests -> Handler \union {Idle}]
  BY DEF IInv, TypeOK
<1>1. ASSUME NEW i \in Ids, NEW right \in BOOLEAN, VerifyReads(r, i, right)
      PROVE  Knows(requests[r])'
  <2>1. /\ requests'[r].otp = i
        /\ requests'[r].seen = otps[i].count
        /\ requests'[r].pc = AfterVerify(i, right)
    BY <1>0, <1>1 DEF VerifyReads, Goes
  <2>2. AfterVerify(i, right) \in {"lock", "count"}
    BY <1>1 DEF VerifyReads, AfterVerify
  <2>3. otps' = otps
    BY <1>1 DEF VerifyReads, table
  <2>4. otps[i].count \in Nat /\ otps[i].guesses \in Nat /\ otps[i].count <= otps[i].guesses
    BY <1>0, RowTypes DEF IInv, RowsCount, Row
  <2>5. CASE AfterVerify(i, right) = "lock"
    <3>1. otps[i].count >= MaxAttempts
      BY <2>5 DEF AfterVerify
    <3> QED
      BY <2>1, <2>3, <2>4, <2>5, <3>1, LimitsAssumption
      DEF Knows, KnowsCount, KnowsCode, KnowsDoom, KnowsUser, Past
  <2>6. CASE AfterVerify(i, right) = "count"
    <3>1. otps[i].count < MaxAttempts
      BY <2>4, <2>6, LimitsAssumption DEF AfterVerify
    <3> QED
      BY <2>1, <2>3, <2>4, <2>6, <3>1
      DEF Knows, KnowsCount, KnowsCode, KnowsDoom, KnowsUser, Past
  <2> QED
    BY <2>2, <2>5, <2>6
<1>2. ASSUME CountFailure(r) PROVE Knows(requests[r])'
  <2>1. requests'[r].pc = "idle"
    BY <1>0, <1>2 DEF CountFailure, Goes, Idle
  <2> QED
    BY <2>1, QuietHandlers
<1> QED
  BY <1>1, <1>2 DEF Verify

LEMMA ReadingLearns ==
  ASSUME IInv, [Next]_vars, NEW r \in Requests, ConsumeReading(r)
  PROVE  Knows(requests[r])'
<1> DEFINE h == requests[r]
<1>0. TypeOK /\ requests \in [Requests -> Handler \union {Idle}] /\ Knows(h)
  BY DEF IInv, TypeOK
<1>1. ASSUME NEW act \in Actions, NEW a \in Apps, NEW c \in Addresses,
             NEW u \in Users \union {NoUser}, NEW i \in Ids, ConsumeReads(r, act, a, c, u, i)
      PROVE  Knows(requests[r])'
  <2>1. /\ requests'[r].pc = "find" /\ requests'[r].otp = i
        /\ requests'[r].action = act /\ requests'[r].contact = c
    BY <1>0, <1>1 DEF ConsumeReads, Called, Goes
  <2>2. i \in delivered /\ otps[i].action = act /\ otps[i].contact = c /\ act # "REGISTER"
    BY <1>1 DEF ConsumeReads, Accepts, Called
  <2>3. otps' = otps /\ delivered' = delivered /\ i \in presented'
    BY <1>1 DEF ConsumeReads
  <2> QED
    BY <2>1, <2>2, <2>3 DEF Knows, KnowsCount, KnowsCode, KnowsDoom, KnowsUser, Past
<1>2. ASSUME NEW act \in Actions, NEW a \in Apps, NEW c \in Addresses,
             NEW u \in Users \union {NoUser}, EntryReads(r, act, a, c, u)
      PROVE  Knows(requests[r])'
  <2>1. requests'[r].pc = "validate" /\ requests'[r].action = act /\ act \in {"LOGIN", "REGISTER"}
    BY <1>0, <1>2 DEF EntryReads, Called, Goes
  <2> QED
    BY <2>1 DEF Knows, KnowsCount, KnowsCode, KnowsDoom, KnowsUser, Past
<1>3. ASSUME NEW u \in Users, ConsumeFinds(r, u) PROVE Knows(requests[r])'
  <2>0. h \in Handler
    BY <1>0, <1>3, HandlerTypes DEF ConsumeFinds
  <2>1. /\ requests'[r].pc = "write" /\ requests'[r].user = u
        /\ requests'[r].otp = h.otp
        /\ requests'[r].action = h.action /\ requests'[r].contact = h.contact
    BY <1>0, <1>3, <2>0 DEF ConsumeFinds, Goes, Handler
  <2>2. Past(h) /\ h.pc = "find"
    BY <1>3 DEF ConsumeFinds, Past
  <2>3. /\ h.otp \in presented /\ h.otp \in delivered /\ h.action # "REGISTER"
        /\ otps[h.otp].action = h.action /\ otps[h.otp].contact = h.contact
    BY <1>0, <2>2 DEF Knows, KnowsCode, KnowsDoom
  <2>4. otps' = otps /\ delivered' = delivered /\ presented' = presented /\ email' = email
    BY <1>3 DEF ConsumeFinds, table, accounts
  <2>5. h.action = "VERIFY_EMAIL" => Trusted(u)'
    BY <1>3, <2>3, <2>4 DEF ConsumeFinds, Trusted, Proven
  <2> QED
    BY <2>1, <2>3, <2>4, <2>5 DEF Knows, KnowsCount, KnowsCode, KnowsDoom, KnowsUser, Trusted, Proven
<1>4. ASSUME NEW i \in Ids, EntryValidates(r, i) PROVE Knows(requests[r])'
  <2>0. h \in Handler
    BY <1>0, <1>4, HandlerTypes DEF EntryValidates
  <2>1. /\ requests'[r].pc = "write" /\ requests'[r].otp = i
        /\ requests'[r].action = h.action /\ requests'[r].contact = h.contact
    BY <1>0, <1>4, <2>0 DEF EntryValidates, Goes, Handler
  <2>2. /\ i \in delivered /\ otps[i].action = h.action /\ otps[i].contact = h.contact
        /\ h.action # "VERIFY_EMAIL"
    BY <1>0, <1>4 DEF EntryValidates, Accepts, Knows, KnowsUser
  <2>3. otps' = otps /\ delivered' = delivered /\ i \in presented'
    BY <1>4 DEF EntryValidates
  <2>4. h.action = "REGISTER" => Doomed(i)'
    BY <1>4 DEF EntryValidates, Doomed
  <2> QED
    BY <2>1, <2>2, <2>3, <2>4 DEF Knows, KnowsCount, KnowsCode, KnowsDoom, KnowsUser, Past, Doomed
<1> QED
  BY <1>1, <1>2, <1>3, <1>4 DEF ConsumeReading

LEMMA WritingLearns ==
  ASSUME IInv, [Next]_vars, NEW r \in Requests, ConsumeWriting(r)
  PROVE  Knows(requests[r])'
<1> DEFINE h == requests[r]
<1>0. TypeOK /\ requests \in [Requests -> Handler \union {Idle}] /\ Knows(h)
  BY DEF IInv, TypeOK
<1>1. CASE requests'[r].pc = "idle"
  BY <1>1, QuietHandlers
<1>2. CASE ResetPassword(r) \/ VerifyEmail(r) \/ ChangeEmail(r) \/ CreateSession(r)
  <2>1. h.pc = "write"
    BY <1>2 DEF ResetPassword, VerifyEmail, ChangeEmail, CreateSession, Writes
  <2>2. h \in Handler /\ h.otp \in Ids
    BY <1>0, <2>1, HandlerTypes DEF OnRow
  <2>3. /\ requests'[r].pc \in {"invalidate", "detach"}
        /\ requests'[r].otp = h.otp
        /\ requests'[r].action = h.action /\ requests'[r].contact = h.contact
    BY <1>0, <1>2, <2>2 DEF ResetPassword, VerifyEmail, ChangeEmail, CreateSession, Goes, Handler
  <2>4. /\ h.otp \in presented' /\ h.otp \in delivered'
        /\ otps'[h.otp].action = h.action /\ otps'[h.otp].contact = h.contact
    BY <1>0, <2>1, <2>2, HistoriesGrow, EveryStepContinues
    DEF Knows, KnowsCode, Past, TableContinues, Continues
  <2> QED
    BY <2>3, <2>4 DEF Knows, KnowsCount, KnowsCode, KnowsDoom, KnowsUser
<1>3. CASE DetachInvalidate(r) \/ Invalidate(r) \/ \E u \in Users : ProvisionUser(r, u)
  <2>1. requests'[r].pc = "idle"
    BY <1>0, <1>3 DEF DetachInvalidate, Invalidate, ProvisionUser, Goes, Idle
  <2> QED
    BY <1>1, <2>1
<1> QED
  BY <1>2, <1>3 DEF ConsumeWriting

LEMMA EveryHandlerKnows ==
  ASSUME IInv, [Next]_vars, NEW r \in Requests
  PROVE  Knows(requests[r])'
<1>0. TypeOK /\ requests \in [Requests -> Handler \union {Idle}]
  BY DEF IInv, TypeOK
<1>1. CASE Generate(r)
  <2>1. requests'[r].pc \in {"idle", "limit", "create", "send"}
    <3>1. ASSUME NEW act \in Actions, NEW a \in Apps, NEW c \in Addresses,
                 GenerateReads(r, act, a, c)
          PROVE  requests'[r].pc = "limit"
      BY <1>0, <3>1 DEF GenerateReads, Goes
    <3>2. ASSUME CheckRateLimit(r) \/ Create(r)
          PROVE  requests'[r].pc \in {"create", "send"}
      <4>1. requests[r] \in Handler
        BY <1>0, <3>2, HandlerTypes DEF CheckRateLimit, Create
      <4> QED
        BY <1>0, <3>2, <4>1 DEF CheckRateLimit, Create, Goes, Handler
    <3>3. ASSUME Send(r) PROVE requests'[r].pc = "idle"
      BY <1>0, <3>3 DEF Send, Goes, Idle
    <3> QED
      BY <1>1, <3>1, <3>2, <3>3 DEF Generate
  <2> QED
    BY <2>1, QuietHandlers
<1>2. CASE Verify(r)
  BY <1>2, VerifyLearns
<1>3. CASE Consume(r)
  BY <1>3, ConsumeInHalves, ReadingLearns, WritingLearns
<1>4. CASE Fail(r) \/ Crash
  <2>1. requests'[r].pc = "idle"
    BY <1>0, <1>4 DEF Fail, Crash, Goes, Idle
  <2> QED
    BY <2>1, QuietHandlers
<1>5. CASE ~Moves(r) /\ ~Crash
  BY <1>0, <1>5, OthersStay, KnowledgeStays
<1> QED
  BY <1>1, <1>2, <1>3, <1>4, <1>5 DEF Moves

-----------------------------------------------------------------------------
(* What happens to a row *)

Fresh(row) == row.count = 0 /\ row.guesses = 0 /\ ~row.invalidated /\ row.uses = 0

LEMMA UsesAreOwed ==
  ASSUME IInv, [Next]_vars, NEW r \in Requests,
         \/ ResetPassword(r) \/ VerifyEmail(r) \/ ChangeEmail(r) \/ CreateSession(r)
         \/ \E u \in Users : ProvisionUser(r, u)
  PROVE  \E i \in Ids : Doomed(i)' /\ otps' = [otps EXCEPT ![i] = Used(@)]
<1>0. TypeOK /\ requests \in [Requests -> Handler \union {Idle}] /\ Knows(requests[r])
  BY DEF IInv, TypeOK
<1>1. requests[r].pc = "write"
  BY DEF ResetPassword, VerifyEmail, ChangeEmail, CreateSession, ProvisionUser, Writes
<1>2. requests[r] \in Handler /\ requests[r].otp \in Ids
  BY <1>0, <1>1, HandlerTypes DEF OnRow
<1>3. PICK i \in Ids : i = requests[r].otp
  BY <1>2
<1>4. otps' = [otps EXCEPT ![i] = Used(@)]
  BY <1>3 DEF ResetPassword, VerifyEmail, ChangeEmail, CreateSession, ProvisionUser, UsesTheCode
<1>5. CASE ResetPassword(r) \/ VerifyEmail(r) \/ ChangeEmail(r) \/ CreateSession(r)
  <2>1. requests'[r].pc \in {"invalidate", "detach"} /\ requests'[r].otp = i
    BY <1>0, <1>2, <1>3, <1>5
    DEF ResetPassword, VerifyEmail, ChangeEmail, CreateSession, Goes, Handler
  <2>2. i \in Owing'
    BY <2>1 DEF Owing
  <2> QED
    BY <1>4, <2>2 DEF Doomed
<1>6. CASE \E u \in Users : ProvisionUser(r, u)
  <2>1. requests[r].action = "REGISTER"
    BY <1>6 DEF ProvisionUser, Writes
  <2>2. Doomed(i)
    BY <1>0, <1>1, <1>3, <2>1 DEF Knows, KnowsDoom
  <2> QED
    BY <1>0, <1>4, <2>2, DoomStays
<1> QED
  BY <1>5, <1>6

\* A row is inserted fresh, or one of the three statements rewrites it for a reason.
CountedFor(i) ==
  \E r \in Requests :
    /\ requests[r].pc = "count" /\ requests[r].otp = i
    /\ otps'[i] = Counted(otps[i], requests[r])
BurntFor(i) ==
  /\ otps'[i] = Burnt(otps[i])
  /\ i \in presented \/ otps[i].guesses >= MaxAttempts
UsedFor(i) == otps'[i] = Used(otps[i]) /\ Doomed(i)'

LEMMA RowHistory ==
  ASSUME IInv, [Next]_vars, NEW i \in Ids'
  PROVE  \/ Fresh(otps'[i])
         \/ i \in Ids /\ (otps'[i] = otps[i] \/ CountedFor(i) \/ BurntFor(i) \/ UsedFor(i))
<1>0. TypeOK /\ DOMAIN otps = Ids
  BY RowTypes DEF IInv
<1>1. ASSUME NEW r \in Requests, Create(r)
      PROVE  Fresh(otps'[i]) \/ (i \in Ids /\ otps'[i] = otps[i])
  <2>1. CASE i \in Ids
    BY <1>0, <1>1, <2>1, CreateInserts
  <2>2. CASE i \notin Ids
    <3>1. otps'[i] = NewRow(requests[r])
      BY <1>0, <1>1, <2>2, CreateInserts
    <3> QED
      BY <3>1 DEF NewRow, Fresh
  <2> QED
    BY <2>1, <2>2
<1>2. ASSUME NEW r \in Requests, CountFailure(r)
      PROVE  i \in Ids /\ (otps'[i] = otps[i] \/ CountedFor(i))
  <2>1. i \in Ids
    BY <1>0, <1>2, RowStatementsContinue DEF RowStatements
  <2> QED
    BY <1>0, <1>2, <2>1 DEF CountFailure, CountedFor
<1>3. ASSUME NEW r \in Requests, Invalidate(r)
      PROVE  i \in Ids /\ (otps'[i] = otps[i] \/ BurntFor(i))
  <2>1. i \in Ids
    BY <1>0, <1>3, RowStatementsContinue DEF RowStatements
  <2>2. requests[r].otp = i => i \in presented \/ otps[i].guesses >= MaxAttempts
    BY <1>3 DEF IInv, Knows, KnowsCount, KnowsCode, Past, Invalidate
  <2> QED
    BY <1>0, <1>3, <2>1, <2>2 DEF Invalidate, BurntFor
<1>4. ASSUME NEW r \in Requests,
             \/ ResetPassword(r) \/ VerifyEmail(r) \/ ChangeEmail(r) \/ CreateSession(r)
             \/ \E u \in Users : ProvisionUser(r, u)
      PROVE  i \in Ids /\ (otps'[i] = otps[i] \/ UsedFor(i))
  <2>1. i \in Ids
    BY <1>0, <1>4, RowStatementsContinue DEF RowStatements
  <2>2. PICK k \in Ids : Doomed(k)' /\ otps' = [otps EXCEPT ![k] = Used(@)]
    BY <1>4, UsesAreOwed
  <2> QED
    BY <1>0, <2>1, <2>2 DEF UsedFor
<1>5. ASSUME NEW j \in burning, Burn(j)
      PROVE  i \in Ids /\ (otps'[i] = otps[i] \/ BurntFor(i))
  <2>1. i \in Ids
    BY <1>0, <1>5, BurnContinues
  <2> QED
    BY <1>0, <1>5, <2>1 DEF IInv, Burn, BurntFor
<1>6. ASSUME otps' = otps PROVE i \in Ids /\ otps'[i] = otps[i]
  BY <1>6 DEF Ids
<1> QED
  BY <1>0, <1>1, <1>2, <1>3, <1>4, <1>5, <1>6, OtherStepsKeepTheTable DEF RowStatements

LEMMA BurningWasPresented ==
  ASSUME IInv, [Next]_vars
  PROVE  burning' \subseteq presented'
<1>0. burning \subseteq presented /\ presented \subseteq presented'
  BY HistoriesGrow DEF IInv
<1>1. ASSUME NEW r \in Requests, Moves(r) PROVE burning' \subseteq presented'
  <2>1. CASE Generate(r) \/ Verify(r)
    BY <1>0, <2>1, GenerateMoves, VerifyMoves
  <2>2. CASE ConsumeReading(r)
    BY <1>0, <2>2, ReadingMoves DEF OnlyReads
  <2>3. CASE DetachInvalidate(r)
    <3>1. requests[r].otp \in presented
      BY <2>3 DEF IInv, Knows, KnowsCode, Past, DetachInvalidate
    <3> QED
      BY <1>0, <2>3, <3>1 DEF DetachInvalidate
  <2>4. CASE ConsumeWriting(r) /\ ~DetachInvalidate(r)
    BY <1>0, <2>4, WritingMoves
  <2>5. CASE Fail(r)
    BY <1>0, <2>5, FailMoves
  <2> QED
    BY <1>1, <2>1, <2>2, <2>3, <2>4, <2>5, ConsumeInHalves DEF Moves
<1>2. CASE \E i \in burning : Burn(i) \/ BurnFails(i)
  BY <1>0, <1>2 DEF Burn, BurnFails
<1>3. CASE Account \/ Crash \/ Tick \/ UNCHANGED vars
  BY <1>0, <1>3 DEF Account, RegisterWithPassword, UpdateForOrganization, Crash, Tick, vars, table
<1> QED
  BY <1>1, <1>2, <1>3 DEF Next, Moves

\* One row after a step: its count, why it is dead, who has to kill it.
LEMMA RowsStaySound ==
  ASSUME IInv, [Next]_vars, NEW i \in Ids'
  PROVE  /\ otps'[i].count <= MaxAttempts /\ otps'[i].count <= otps'[i].guesses
         /\ otps'[i].invalidated => i \in presented' \/ otps'[i].guesses >= MaxAttempts
         /\ otps'[i].uses > 0 => Doomed(i)'
<1>0. TypeOK /\ presented \subseteq presented'
  BY HistoriesGrow DEF IInv
<1>1. CASE Fresh(otps'[i])
  BY <1>1, LimitsAssumption DEF Fresh
<1>2. CASE i \in Ids /\ (otps'[i] = otps[i] \/ CountedFor(i) \/ BurntFor(i) \/ UsedFor(i))
  <2>1. /\ otps[i] \in Row
        /\ otps[i].count \in Nat /\ otps[i].guesses \in Nat /\ otps[i].uses \in Nat
        /\ otps[i].count <= MaxAttempts /\ otps[i].count <= otps[i].guesses
        /\ otps[i].invalidated => i \in presented \/ otps[i].guesses >= MaxAttempts
        /\ otps[i].uses > 0 => Doomed(i)'
    BY <1>0, <1>2, RowTypes, DoomStays
    DEF IInv, RowsCount, CodesDieForAReason, UsedCodesAreDoomed, Doomed, Row
  <2>2. CASE otps'[i] = otps[i]
    BY <1>0, <2>1, <2>2
  <2>3. CASE CountedFor(i)
    <3>1. PICK r \in Requests :
            /\ requests[r].pc = "count" /\ requests[r].otp = i
            /\ otps'[i] = Counted(otps[i], requests[r])
      BY <2>3 DEF CountedFor
    <3>2. requests[r].seen \in Nat
      BY <1>0, <3>1, HandlerTypes DEF Handler
    <3>3. requests[r].seen < MaxAttempts /\ requests[r].seen <= otps[i].guesses
      BY <3>1 DEF IInv, Knows, KnowsCount
    <3>4. /\ otps'[i].count = requests[r].seen + 1
          /\ otps'[i].guesses = otps[i].guesses + 1
          /\ otps'[i].invalidated = otps[i].invalidated
          /\ otps'[i].uses = otps[i].uses
      BY <2>1, <3>1 DEF Counted, Row
    <3> QED
      BY <1>0, <2>1, <3>2, <3>3, <3>4, LimitsAssumption
  <2>4. CASE BurntFor(i)
    <3>1. /\ otps'[i].count = otps[i].count
          /\ otps'[i].guesses = otps[i].guesses
          /\ otps'[i].uses = otps[i].uses
      BY <2>1, <2>4 DEF BurntFor, Burnt, Row
    <3> QED
      BY <1>0, <2>1, <2>4, <3>1 DEF BurntFor
  <2>5. CASE UsedFor(i)
    <3>1. /\ otps'[i].count = otps[i].count
          /\ otps'[i].guesses = otps[i].guesses
          /\ otps'[i].invalidated = otps[i].invalidated
      BY <2>1, <2>5 DEF UsedFor, Used, Row
    <3> QED
      BY <1>0, <2>1, <2>5, <3>1 DEF UsedFor
  <2> QED
    BY <1>2, <2>2, <2>3, <2>4, <2>5
<1> QED
  BY <1>1, <1>2, RowHistory

-----------------------------------------------------------------------------
(* The theorems *)

LEMMA Inductive == Spec => []IInv
<1>1. Init => IInv
  <2>1. Init => TypeOK
    BY EmptySeq DEF Init, TypeOK, OnRow, Idle, Ids
  <2>2. Init => Ids = {}
    BY EmptySeq DEF Init, Ids
  <2>3. Init => \A r \in Requests : Knows(requests[r])
    BY DEF Init, Idle, Knows, KnowsCount, KnowsCode, KnowsDoom, KnowsUser, Past
  <2>4. Init => burning \subseteq presented /\ VerifiedMeansProven
    BY DEF Init, VerifiedMeansProven
  <2> QED
    BY <2>1, <2>2, <2>3, <2>4 DEF IInv, RowsCount, CodesDieForAReason, UsedCodesAreDoomed
<1>2. IInv /\ [Next]_vars => IInv'
  <2> SUFFICES ASSUME IInv, [Next]_vars PROVE IInv'
    OBVIOUS
  <2>1. TypeOK'
    BY NextKeepsTypes DEF IInv
  <2>2. RowsCount' /\ CodesDieForAReason' /\ UsedCodesAreDoomed'
    BY RowsStaySound DEF RowsCount, CodesDieForAReason, UsedCodesAreDoomed, Doomed
  <2>3. VerifiedMeansProven'
    BY FlagsAreEarned
  <2>4. \A r \in Requests : Knows(requests[r])'
    BY EveryHandlerKnows
  <2> QED
    BY <2>1, <2>2, <2>3, <2>4, BurningWasPresented DEF IInv
<1> QED
  BY <1>1, <1>2, PTL DEF Spec

\* A code is only invalidated for having been accepted or guessed at too often, and
\* however many verifications read it before any of them writes, its counter never
\* passes MaxAttempts.
THEOREM NoCodeDiesUnused == Spec => []CodesDieForAReason
<1>1. IInv => CodesDieForAReason
  BY DEF IInv
<1> QED
  BY <1>1, Inductive, PTL

\* A code that authorized something is dead, about to be, or was lost on the way.
THEOREM UsedCodesDie == Spec => []UsedCodesAreDoomed
<1>1. IInv => UsedCodesAreDoomed
  BY DEF IInv
<1> QED
  BY <1>1, Inductive, PTL

\* The flag verify_email is set only for an address that a code reached, or that
\* an administrator wrote, whatever runs between the read of a code and its use.
THEOREM FlagIsProven == Spec => []VerifiedMeansProven
<1>1. IInv => VerifiedMeansProven
  BY DEF IInv
<1> QED
  BY <1>1, Inductive, PTL

-----------------------------------------------------------------------------
(* The book of the accounts *)

\* What rows say of their codes does not change.
LEMMA ProofsAreKept ==
  ASSUME TypeOK, [Next]_vars, NEW codes \in SUBSET Ids
  PROVE  {<<otps'[i].action, otps'[i].contact>> : i \in codes} = ProofsOf(codes)
<1>1. \A i \in codes : otps'[i].action = otps[i].action /\ otps'[i].contact = otps[i].contact
  BY EveryStepContinues DEF TableContinues, Continues
<1> QED
  BY <1>1 DEF ProofsOf

LEMMA ProofsGrow ==
  ASSUME TypeOK, [Next]_vars
  PROVE  /\ ProofsOf(presented) \subseteq ProofsOf(presented)'
         /\ presented' = presented => ProofsOf(presented)' = ProofsOf(presented)
         /\ delivered' = delivered => ProofsOf(delivered)' = ProofsOf(delivered)
         /\ \A i \in Ids : /\ presented' = presented \union {i} =>
                                ProofsOf(presented)' =
                                  ProofsOf(presented) \union {<<otps[i].action, otps[i].contact>>}
                           /\ delivered' = delivered \union {i} =>
                                ProofsOf(delivered)' =
                                  ProofsOf(delivered) \union {<<otps[i].action, otps[i].contact>>}
<1>1. presented \subseteq Ids /\ delivered \subseteq Ids /\ presented \subseteq presented'
  BY HistoriesGrow DEF TypeOK
<1>2. /\ ProofsOf(presented)' = {<<otps'[i].action, otps'[i].contact>> : i \in presented'}
      /\ ProofsOf(delivered)' = {<<otps'[i].action, otps'[i].contact>> : i \in delivered'}
  BY DEF ProofsOf
<1>3. /\ {<<otps'[i].action, otps'[i].contact>> : i \in presented} = ProofsOf(presented)
      /\ {<<otps'[i].action, otps'[i].contact>> : i \in delivered} = ProofsOf(delivered)
  BY <1>1, ProofsAreKept
<1>4. \A i \in Ids : otps'[i].action = otps[i].action /\ otps'[i].contact = otps[i].contact
  BY EveryStepContinues DEF TableContinues, Continues
<1> QED
  BY <1>1, <1>2, <1>3, <1>4

LEMMA PresentedIsProven ==
  ASSUME NEW i \in presented
  PROVE  <<otps[i].action, otps[i].contact>> \in ProofsOf(presented)
BY DEF ProofsOf

\* Only the account of an administrator, or one that proved the address it has, is
\* about to be verified.
Entitled(u) ==
  /\ email[u] # NoAddress
  /\ verified[u] \/ u \in vouched \/ <<"VERIFY_EMAIL", email[u]>> \in ProofsOf(presented)

\* What a handler knows of the account it found.
KnowsAccount(h) ==
  /\ (h.pc \in {"find", "write"} /\ h.action = "CHANGE_EMAIL") =>
       h.user \in Users /\ email[h.user] # NoAddress
  /\ (h.pc = "write" /\ h.action = "VERIFY_EMAIL") => h.user \in Users /\ Entitled(h.user)

BookInv == IInv /\ \A r \in Requests : KnowsAccount(requests[r])

LEMMA OpenStaysOpen ==
  ASSUME TypeOK, [Next]_vars, NEW u \in Users, email[u] # NoAddress
  PROVE  email'[u] # NoAddress
<1>0. email \in [Users -> Addresses \union {NoAddress}]
  BY DEF TypeOK
<1>1. ASSUME NEW v \in Users, NEW c \in Addresses, email' = [email EXCEPT ![v] = c]
      PROVE  email'[u] # NoAddress
  BY <1>0, <1>1, NobodyAssumption
<1>2. ASSUME NEW r \in Requests, ChangeEmail(r) PROVE email'[u] # NoAddress
  <2>1. requests[r].contact \in Addresses
    BY <1>2, HandlerTypes DEF ChangeEmail, Writes, Handler
  <2>2. email' = [email EXCEPT ![requests[r].user] = requests[r].contact]
    BY <1>2 DEF ChangeEmail
  <2> QED
    BY <1>0, <2>1, <2>2, NobodyAssumption
<1>3. ASSUME NEW r \in Requests, NEW v \in Users, ProvisionUser(r, v) PROVE email'[u] # NoAddress
  <2>1. requests[r].contact \in Addresses
    BY <1>3, HandlerTypes DEF ProvisionUser, Writes, Handler
  <2> QED
    BY <1>1, <1>3, <2>1 DEF ProvisionUser
<1>4. ASSUME NEW r \in Requests, VerifyEmail(r) PROVE email' = email
  BY <1>4 DEF VerifyEmail
<1>5. ASSUME NEW v \in Users, NEW c \in Addresses,
             RegisterWithPassword(v, c) \/ \E b \in BOOLEAN : UpdateForOrganization(v, c, b)
      PROVE  email'[u] # NoAddress
  BY <1>1, <1>5 DEF RegisterWithPassword, UpdateForOrganization
<1>6. CASE ~AccountsWritten
  BY <1>6, AccountsAreKept DEF accounts
<1> QED
  BY <1>2, <1>3, <1>4, <1>5, <1>6 DEF AccountsWritten

\* The right to be verified follows the account from one address to the next.
LEMMA EntitledStays ==
  ASSUME TypeOK, [Next]_vars, NEW u \in Users, Entitled(u)
  PROVE  Entitled(u)'
<1>0. /\ email \in [Users -> Addresses \union {NoAddress}] /\ verified \in [Users -> BOOLEAN]
      /\ email[u] # NoAddress
  BY DEF TypeOK, Entitled
<1>1. email'[u] # NoAddress
  BY <1>0, OpenStaysOpen
<1>2. ASSUME email'[u] = email[u], verified[u] => verified'[u], u \in vouched => u \in vouched'
      PROVE  Entitled(u)'
  BY <1>1, <1>2, ProofsGrow DEF Entitled
<1>3. ASSUME verified'[u] PROVE Entitled(u)'
  BY <1>1, <1>3 DEF Entitled
<1>4. ASSUME NEW r \in Requests, VerifyEmail(r) PROVE Entitled(u)'
  BY <1>0, <1>2, <1>4 DEF VerifyEmail
<1>5. ASSUME NEW r \in Requests, ChangeEmail(r) PROVE Entitled(u)'
  <2>1. CASE requests[r].user = u
    BY <1>0, <1>3, <1>5, <2>1 DEF ChangeEmail
  <2>2. CASE requests[r].user # u
    BY <1>0, <1>2, <1>5, <2>2 DEF ChangeEmail
  <2> QED
    BY <2>1, <2>2
<1>6. ASSUME NEW r \in Requests, NEW v \in Users, ProvisionUser(r, v) PROVE Entitled(u)'
  BY <1>0, <1>2, <1>6 DEF ProvisionUser
<1>7. ASSUME NEW v \in Users, NEW c \in Addresses, RegisterWithPassword(v, c) PROVE Entitled(u)'
  BY <1>0, <1>2, <1>7 DEF RegisterWithPassword
<1>8. ASSUME NEW v \in Users, NEW c \in Addresses, NEW b \in BOOLEAN, UpdateForOrganization(v, c, b)
      PROVE  Entitled(u)'
  <2>1. CASE v = u
    BY <1>1, <1>8, <2>1 DEF UpdateForOrganization, Entitled
  <2>2. CASE v # u
    BY <1>0, <1>2, <1>8, <2>2 DEF UpdateForOrganization
  <2> QED
    BY <2>1, <2>2
<1>9. CASE ~AccountsWritten
  BY <1>2, <1>9, AccountsAreKept DEF accounts
<1> QED
  BY <1>4, <1>5, <1>6, <1>7, <1>8, <1>9 DEF AccountsWritten

LEMMA AccountStaysKnown ==
  ASSUME TypeOK, [Next]_vars, NEW r \in Requests, requests'[r] = requests[r],
         KnowsAccount(requests[r])
  PROVE  KnowsAccount(requests[r])'
<1> DEFINE h == requests[r]
<1>1. ASSUME h.pc \in {"find", "write"}, h.action = "CHANGE_EMAIL"
      PROVE  h.user \in Users /\ email'[h.user] # NoAddress
  <2>1. h.user \in Users /\ email[h.user] # NoAddress
    BY <1>1 DEF KnowsAccount
  <2> HIDE DEF h
  <2> QED
    BY <2>1, OpenStaysOpen
<1>2. ASSUME h.pc = "write", h.action = "VERIFY_EMAIL"
      PROVE  h.user \in Users /\ \A u \in Users : u = h.user => Entitled(u)'
  <2>1. h.user \in Users /\ Entitled(h.user)
    BY <1>2 DEF KnowsAccount
  <2> HIDE DEF h
  <2> QED
    BY <2>1, EntitledStays
<1> QED
  BY <1>1, <1>2 DEF KnowsAccount, Entitled

LEMMA AccountIsFound ==
  ASSUME IInv, [Next]_vars, NEW r \in Requests, ConsumeReading(r), KnowsAccount(requests[r])
  PROVE  KnowsAccount(requests[r])'
<1> DEFINE h == requests[r]
<1>0. TypeOK /\ requests \in [Requests -> Handler \union {Idle}] /\ Knows(h)
  BY DEF IInv, TypeOK
<1>1. ASSUME NEW act \in Actions, NEW a \in Apps, NEW c \in Addresses,
             NEW u \in Users \union {NoUser}, NEW i \in Ids, ConsumeReads(r, act, a, c, u, i)
      PROVE  KnowsAccount(requests[r])'
  <2>1. /\ requests'[r].pc = "find" /\ requests'[r].action = act /\ requests'[r].user = u
        /\ email' = email
    BY <1>0, <1>1 DEF ConsumeReads, Called, Goes, accounts
  <2>2. act = "CHANGE_EMAIL" => u \in Users /\ email[u] # NoAddress
    BY <1>1 DEF ConsumeReads
  <2> QED
    BY <2>1, <2>2 DEF KnowsAccount
<1>2. ASSUME NEW act \in Actions, NEW a \in Apps, NEW c \in Addresses,
             NEW u \in Users \union {NoUser}, EntryReads(r, act, a, c, u)
      PROVE  KnowsAccount(requests[r])'
  <2>1. requests'[r].pc = "validate"
    BY <1>0, <1>2 DEF EntryReads, Called, Goes
  <2> QED
    BY <2>1 DEF KnowsAccount
<1>3. ASSUME NEW u \in Users, ConsumeFinds(r, u) PROVE KnowsAccount(requests[r])'
  <2>0. h \in Handler
    BY <1>0, <1>3, HandlerTypes DEF ConsumeFinds
  <2>1. /\ requests'[r].pc = "write" /\ requests'[r].user = u
        /\ requests'[r].action = h.action
    BY <1>0, <1>3, <2>0 DEF ConsumeFinds, Goes, Handler
  <2>2. email' = email /\ verified' = verified /\ vouched' = vouched /\ presented' = presented
    BY <1>3 DEF ConsumeFinds, table, accounts
  <2>3. h.pc = "find" /\ h.otp \in presented
        /\ otps[h.otp].action = h.action /\ otps[h.otp].contact = h.contact
    BY <1>0, <1>3 DEF ConsumeFinds, Knows, KnowsCode, Past
  <2>4. <<h.action, h.contact>> \in ProofsOf(presented)
    BY <2>3, PresentedIsProven
  <2>5. h.contact # NoAddress
    BY <2>0, NobodyAssumption DEF Handler
  <2>6. h.action = "VERIFY_EMAIL" =>
          email[u] # NoAddress /\ <<"VERIFY_EMAIL", email[u]>> \in ProofsOf(presented)
    BY <1>3, <2>4, <2>5 DEF ConsumeFinds
  <2>7. h.action = "CHANGE_EMAIL" => u \in Users /\ email[u] # NoAddress
    BY <1>3, <2>3 DEF ConsumeFinds, KnowsAccount
  <2>8. ProofsOf(presented)' = ProofsOf(presented)
    BY <1>0, <2>2, ProofsGrow
  <2> QED
    BY <2>1, <2>2, <2>6, <2>7, <2>8 DEF KnowsAccount, Entitled
<1>4. ASSUME NEW i \in Ids, EntryValidates(r, i) PROVE KnowsAccount(requests[r])'
  <2>1. h \in Handler /\ h.pc = "validate"
    BY <1>0, <1>4, HandlerTypes DEF EntryValidates
  <2>2. requests'[r].action = h.action
    BY <1>0, <1>4, <2>1 DEF EntryValidates, Goes, Handler
  <2>3. h.action \notin {"VERIFY_EMAIL", "CHANGE_EMAIL"}
    BY <1>0, <2>1 DEF Knows, KnowsUser
  <2> QED
    BY <2>2, <2>3 DEF KnowsAccount
<1> QED
  BY <1>1, <1>2, <1>3, <1>4 DEF ConsumeReading

LEMMA BookInductive == Spec => []BookInv
<1>1. Init => \A r \in Requests : KnowsAccount(requests[r])
  BY DEF Init, Idle, KnowsAccount
<1>2. IInv /\ (\A r \in Requests : KnowsAccount(requests[r])) /\ [Next]_vars
        => (\A r \in Requests : KnowsAccount(requests[r]))'
  <2> SUFFICES ASSUME IInv, [Next]_vars, \A q \in Requests : KnowsAccount(requests[q]),
                      NEW r \in Requests
               PROVE  KnowsAccount(requests[r])'
    OBVIOUS
  <2>0. TypeOK
    BY DEF IInv
  <2>1. CASE ConsumeReading(r)
    BY <2>1, AccountIsFound
  <2>2. CASE Generate(r) \/ Verify(r) \/ ConsumeWriting(r) \/ Fail(r) \/ Crash
    BY <2>0, <2>2, WhereHandlersGo DEF KnowsAccount
  <2>3. CASE ~Moves(r) /\ ~Crash
    BY <2>0, <2>3, OthersStay, AccountStaysKnown
  <2> QED
    BY <2>1, <2>2, <2>3, MovesInParts
<1> QED
  BY <1>1, <1>2, Inductive, PTL DEF Spec, BookInv

-----------------------------------------------------------------------------
(* Every step is one of the book, or changes nothing in it *)

LEMMA NothingInTheBook ==
  ASSUME TypeOK, [Next]_vars, UNCHANGED accounts, presented' = presented, delivered' = delivered
  PROVE  UNCHANGED Book!bookVars
BY ProofsGrow DEF Book!bookVars, accounts

LEMMA SendIsMail ==
  ASSUME TypeOK, [Next]_vars, NEW r \in Requests, Send(r)
  PROVE  Book!BookNext
<1>1. requests[r].otp \in Ids
  BY HandlerTypes DEF Send, OnRow
<1>2. PICK i \in Ids : i = requests[r].otp
  BY <1>1
<1>3. otps[i].action \in Book!Purposes /\ otps[i].contact \in Addresses
  BY RowTypes DEF Row, Actions, Book!Purposes
<1>4. /\ UNCHANGED accounts /\ delivered' = delivered \union {i} /\ presented' = presented
  BY <1>2 DEF Send
<1>5. Book!Mail(otps[i].action, otps[i].contact)
  BY <1>4, ProofsGrow DEF Book!Mail, accounts
<1> QED
  BY <1>3, <1>5 DEF Book!BookNext

LEMMA AcceptanceIsProof ==
  ASSUME TypeOK, [Next]_vars, NEW i \in Ids, i \in delivered,
         UNCHANGED accounts, presented' = presented \union {i}, delivered' = delivered
  PROVE  Book!BookNext
<1>1. otps[i].action \in Book!Purposes /\ otps[i].contact \in Addresses
  BY RowTypes DEF Row, Actions, Book!Purposes
<1>2. <<otps[i].action, otps[i].contact>> \in ProofsOf(delivered)
  BY DEF ProofsOf
<1>3. Book!Prove(otps[i].action, otps[i].contact)
  BY <1>2, ProofsGrow DEF Book!Prove, accounts
<1> QED
  BY <1>1, <1>3 DEF Book!BookNext

\* The code of a handler about to write is a proof of the address it works on.
LEMMA WriterHasProof ==
  ASSUME IInv, NEW r \in Requests, requests[r].pc = "write"
  PROVE  /\ <<requests[r].action, requests[r].contact>> \in ProofsOf(presented)
         /\ requests[r].contact \in Addresses
<1>1. /\ requests[r].otp \in presented
      /\ otps[requests[r].otp].action = requests[r].action
      /\ otps[requests[r].otp].contact = requests[r].contact
  BY DEF IInv, Knows, KnowsCode, Past
<1>2. requests[r].contact \in Addresses
  BY HandlerTypes DEF IInv, Handler
<1> QED
  BY <1>1, <1>2, PresentedIsProven

LEMMA FreeInTheBook ==
  ASSUME NEW c
  PROVE  ~Taken(c) <=> Book!IsFree(c)
BY DEF Taken, Book!IsFree

LEMMA MovesInTheBook ==
  ASSUME BookInv, [Next]_vars, NEW r \in Requests, ChangeEmail(r)
  PROVE  Book!BookNext
<1>1. PICK h : h = requests[r]
  OBVIOUS
<1>2. /\ h.pc = "write" /\ h.action = "CHANGE_EMAIL" /\ ~Taken(h.contact)
      /\ email' = [email EXCEPT ![h.user] = h.contact]
      /\ verified' = [verified EXCEPT ![h.user] = TRUE]
      /\ vouched' = vouched \ {h.user}
      /\ presented' = presented /\ delivered' = delivered
  BY <1>1 DEF ChangeEmail, Writes
<1>3. h.user \in Users /\ email[h.user] # NoAddress
  BY <1>1, <1>2 DEF BookInv, KnowsAccount
<1>4. <<"CHANGE_EMAIL", h.contact>> \in ProofsOf(presented) /\ h.contact \in Addresses
  BY <1>1, <1>2, WriterHasProof DEF BookInv
<1>5. ProofsOf(presented)' = ProofsOf(presented) /\ ProofsOf(delivered)' = ProofsOf(delivered)
  BY <1>2, ProofsGrow DEF BookInv, IInv
<1>6. Book!Move(h.user, h.contact)
  BY <1>2, <1>3, <1>4, <1>5, FreeInTheBook DEF Book!Move, Book!Gets, Book!IsOpen
<1> QED
  BY <1>3, <1>4, <1>6 DEF Book!BookNext

LEMMA JoinsTheBook ==
  ASSUME BookInv, [Next]_vars, NEW r \in Requests, NEW u \in Users, ProvisionUser(r, u)
  PROVE  Book!BookNext
<1>1. PICK c : c = requests[r].contact
  OBVIOUS
<1>2. /\ requests[r].pc = "write" /\ requests[r].action = "REGISTER"
      /\ email[u] = NoAddress /\ ~Taken(c)
      /\ email' = [email EXCEPT ![u] = c]
      /\ verified' = [verified EXCEPT ![u] = TRUE]
      /\ vouched' = vouched /\ presented' = presented /\ delivered' = delivered
  BY <1>1 DEF ProvisionUser, Writes
<1>3. <<"REGISTER", c>> \in ProofsOf(presented) /\ c \in Addresses
  BY <1>1, <1>2, WriterHasProof DEF BookInv
<1>4. ProofsOf(presented)' = ProofsOf(presented) /\ ProofsOf(delivered)' = ProofsOf(delivered)
  BY <1>2, ProofsGrow DEF BookInv, IInv
<1>5. Book!Join(u, c)
  BY <1>2, <1>3, <1>4, FreeInTheBook DEF Book!Join, Book!Gets, Book!IsOpen
<1> QED
  BY <1>3, <1>5 DEF Book!BookNext

LEMMA VerifiesInTheBook ==
  ASSUME BookInv, [Next]_vars, NEW r \in Requests, VerifyEmail(r)
  PROVE  [Book!BookNext]_Book!bookVars
<1>1. PICK u : u = requests[r].user
  OBVIOUS
<1>2. /\ requests[r].pc = "write" /\ requests[r].action = "VERIFY_EMAIL"
      /\ verified' = [verified EXCEPT ![u] = TRUE]
      /\ email' = email /\ vouched' = vouched /\ presented' = presented /\ delivered' = delivered
  BY <1>1 DEF VerifyEmail, Writes
<1>3. u \in Users /\ Entitled(u)
  BY <1>1, <1>2 DEF BookInv, KnowsAccount
<1>4. ProofsOf(presented)' = ProofsOf(presented) /\ ProofsOf(delivered)' = ProofsOf(delivered)
  BY <1>2, ProofsGrow DEF BookInv, IInv
<1>5. CASE verified[u]
  <2>1. verified' = verified
    BY <1>2, <1>5 DEF BookInv, IInv, TypeOK
  <2> QED
    BY <1>2, <1>4, <2>1 DEF Book!bookVars
<1>6. CASE ~verified[u]
  <2>1. Book!VerifyAccount(u)
    BY <1>2, <1>3, <1>4, <1>6 DEF Book!VerifyAccount, Book!IsOpen, Entitled
  <2> QED
    BY <1>3, <2>1 DEF Book!BookNext
<1> QED
  BY <1>5, <1>6

LEMMA AccountInTheBook ==
  ASSUME TypeOK, [Next]_vars, Account
  PROVE  Book!BookNext
<1>1. presented' = presented /\ delivered' = delivered
  BY DEF Account, RegisterWithPassword, UpdateForOrganization, table
<1>2. ProofsOf(presented)' = ProofsOf(presented) /\ ProofsOf(delivered)' = ProofsOf(delivered)
  BY <1>1, ProofsGrow
<1>3. ASSUME NEW u \in Users, NEW c \in Addresses, RegisterWithPassword(u, c)
      PROVE  Book!Open(u, c)
  BY <1>2, <1>3, FreeInTheBook DEF RegisterWithPassword, Book!Open, Book!Gets, Book!IsOpen
<1>4. ASSUME NEW u \in Users, NEW c \in Addresses, NEW v \in BOOLEAN, UpdateForOrganization(u, c, v)
      PROVE  Book!Administer(u, c, v)
  BY <1>2, <1>4, FreeInTheBook DEF UpdateForOrganization, Book!Administer, Book!IsOpen
<1> QED
  BY <1>3, <1>4 DEF Account, Book!BookNext

LEMMA EveryStepIsInTheBook ==
  ASSUME BookInv, [Next]_vars
  PROVE  [Book!BookNext]_Book!bookVars
<1>0. TypeOK
  BY DEF BookInv, IInv
<1>1. ASSUME NEW r \in Requests, Generate(r) PROVE [Book!BookNext]_Book!bookVars
  <2>1. CASE Send(r)
    BY <1>0, <2>1, SendIsMail
  <2>2. CASE ~Send(r)
    <3>1. UNCHANGED accounts /\ presented' = presented /\ delivered' = delivered
      BY <1>1, <2>2 DEF Generate, GenerateReads, CheckRateLimit, Create, table
    <3> QED
      BY <1>0, <3>1, NothingInTheBook
  <2> QED
    BY <2>1, <2>2
<1>2. ASSUME NEW r \in Requests, Verify(r) PROVE [Book!BookNext]_Book!bookVars
  <2>1. UNCHANGED accounts /\ presented' = presented /\ delivered' = delivered
    BY <1>2 DEF Verify, VerifyReads, CountFailure, table
  <2> QED
    BY <1>0, <2>1, NothingInTheBook
<1>3. ASSUME NEW r \in Requests, ConsumeReading(r) PROVE [Book!BookNext]_Book!bookVars
  <2>1. ASSUME NEW act \in Actions, NEW a \in Apps, NEW c \in Addresses,
               NEW u \in Users \union {NoUser}, NEW i \in Ids, ConsumeReads(r, act, a, c, u, i)
        PROVE  Book!BookNext
    BY <1>0, <2>1, AcceptanceIsProof DEF ConsumeReads, Accepts
  <2>2. ASSUME NEW i \in Ids, EntryValidates(r, i) PROVE Book!BookNext
    BY <1>0, <2>2, AcceptanceIsProof DEF EntryValidates, Accepts
  <2>3. ASSUME NEW act \in Actions, NEW a \in Apps, NEW c \in Addresses,
               NEW u \in Users \union {NoUser}, EntryReads(r, act, a, c, u)
        PROVE  UNCHANGED Book!bookVars
    BY <1>0, <2>3, NothingInTheBook DEF EntryReads, table
  <2>4. ASSUME NEW u \in Users, ConsumeFinds(r, u) PROVE UNCHANGED Book!bookVars
    BY <1>0, <2>4, NothingInTheBook DEF ConsumeFinds, table
  <2> QED
    BY <1>3, <2>1, <2>2, <2>3, <2>4 DEF ConsumeReading
<1>4. ASSUME NEW r \in Requests, ConsumeWriting(r) PROVE [Book!BookNext]_Book!bookVars
  <2>1. CASE ResetPassword(r) \/ CreateSession(r) \/ DetachInvalidate(r) \/ Invalidate(r)
    <3>1. UNCHANGED accounts /\ presented' = presented /\ delivered' = delivered
      BY <2>1 DEF ResetPassword, CreateSession, DetachInvalidate, Invalidate
    <3> QED
      BY <1>0, <3>1, NothingInTheBook
  <2> QED
    BY <1>4, <2>1, VerifiesInTheBook, MovesInTheBook, JoinsTheBook DEF ConsumeWriting
<1>5. ASSUME NEW r \in Requests, Fail(r) PROVE [Book!BookNext]_Book!bookVars
  BY <1>0, <1>5, NothingInTheBook DEF Fail
<1>6. CASE \E i \in burning : Burn(i) \/ BurnFails(i)
  BY <1>0, <1>6, NothingInTheBook DEF Burn, BurnFails
<1>7. CASE Account
  BY <1>0, <1>7, AccountInTheBook
<1>8. CASE Crash \/ Tick \/ UNCHANGED vars
  <2>1. UNCHANGED accounts /\ presented' = presented /\ delivered' = delivered
    BY <1>8 DEF Crash, Tick, vars, accounts, table
  <2> QED
    BY <1>0, <2>1, NothingInTheBook
<1> QED
  BY <1>1, <1>2, <1>3, <1>4, <1>5, <1>6, <1>7, <1>8, MovesInParts DEF Next, Moves

\* The codes, the handlers that use them and the administrators implement the book
\* of the accounts, whatever runs in between, fails or crashes.
THEOREM OtpImplementsBook == Spec => ImplementsBook
<1>1. Init => Book!BookInit
  BY DEF Init, Book!BookInit, ProofsOf
<1>2. BookInv /\ [Next]_vars => [Book!BookNext]_Book!bookVars
  BY EveryStepIsInTheBook
<1> QED
  BY <1>1, <1>2, BookInductive, PTL DEF Spec, ImplementsBook, Book!BookSpec
=============================================================================
