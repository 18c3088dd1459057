------------------------------- MODULE Sessions -------------------------------
(***************************************************************************)
(* The life of a session: minted by a login, a registration or a refresh,  *)
(* superseded by a newer one through a detached goroutine, closed by a     *)
(* logout or by a change of email.                                         *)
(*                                                                         *)
(* Every HTTP handler is a goroutine of its own (an element of Requests).  *)
(* Its steps are its database statements, so two handlers interleave       *)
(* between a read and the write decided from it.  utils.Detach starts a    *)
(* goroutine nobody waits for: it is a member of a set of pending work,    *)
(* run in any order, and gone when the process dies or the statement fails.*)
(*                                                                         *)
(* Row i of `sessions` is the i-th row inserted; the UUID of the code is i.*)
(***************************************************************************)
EXTENDS Naturals, Sequences

CONSTANTS
  Users, Apps, Ips,
  Requests,         \* handlers that may be in flight at once
  AccessTtl,        \* [Apps -> seconds]: App.TokenExpirationTime
  RefreshTtl,       \* [Apps -> seconds]: App.RefreshTokenExpirationTime
  MaxSessions,      \* bound: rows ever inserted
  MaxTime,          \* bound: the last tick of the clock
  MaxMoves          \* bound: changes of email of one user

\* app.dto.go validates both lifetimes with gt=0.
ASSUME TtlAssumption ==
  /\ AccessTtl \in [Apps -> Nat \ {0}]
  /\ RefreshTtl \in [Apps -> Nat \ {0}]
ASSUME BoundsAssumption == MaxSessions \in Nat /\ MaxTime \in Nat /\ MaxMoves \in Nat

VARIABLES
  sessions,     \* the table, in order of insertion
  email,        \* email[u]: how many times the address of u has moved
  held,         \* sessions whose two tokens reached the client
  requests,     \* the handlers in flight
  superseding,  \* detached "invalidate the other sessions", by session
  touching,     \* detached "mark the session as used", by session
  now,
  dropped,      \* history: sessions whose superseding was lost
  loggedOut     \* history: sessions a logout or a change of email closed

vars == <<sessions, email, held, requests, superseding, touching, now,
          dropped, loggedOut>>

-----------------------------------------------------------------------------
(* Rows and handlers *)

\* RevokedRefreshWindow: the instant no legitimate refresh window ends at.
Epoch == 0

\* The columns of a row, and two histories no code reads: the session a refresh
\* rotated (`parent`, 0 for a login) and the address its minter had read.
Row == [user : Users, app : Apps, ip : Ips, invalidated : BOOLEAN,
        expiresAt : Nat, refreshUntil : Nat, lastUsedAt : Nat,
        parent : Nat, email : Nat]

\* What a handler keeps in memory: `source` is the session whose token it was
\* called with (0: none), `minted` the row it has inserted (0: not yet).
Handler == [pc : {"mint", "reload", "answer", "authorized"},
            user : Users, app : Apps, ip : Ips,
            source : Nat, email : Nat, minted : Nat]
Idle == [pc |-> "idle"]

Ids == 1..Len(sessions)

SameOwner(i, j) ==
  /\ sessions[i].user = sessions[j].user
  /\ sessions[i].app = sessions[j].app

\* The predicates of Authorize and of Refresh on the row they have read.
Usable(row) == ~row.invalidated /\ row.expiresAt >= now
Refreshable(row) == row.refreshUntil >= now

\* Rows whose handler has yet to detach the superseding of the older ones.
Reloading == {requests[r].minted : r \in {q \in Requests : requests[q].pc = "reload"}}

\* The types, and that what handlers and goroutines refer to is in the table.
TypeOK ==
  /\ sessions \in Seq(Row)
  /\ email \in [Users -> Nat]
  /\ requests \in [Requests -> Handler \union {Idle}]
  /\ \A r \in Requests :
       /\ requests[r].pc \in {"reload", "answer"} => requests[r].minted \in Ids
       /\ requests[r].pc = "authorized" => requests[r].source \in Ids
  /\ now \in Nat \ {Epoch}
  /\ held \subseteq Ids
  /\ superseding \subseteq Ids
  /\ touching \subseteq Ids
  /\ dropped \subseteq Ids
  /\ loggedOut \subseteq Ids

Init ==
  /\ sessions = << >>
  /\ email = [u \in Users |-> 0]
  /\ requests = [r \in Requests |-> Idle]
  /\ now = 1
  /\ held = {}
  /\ superseding = {}
  /\ touching = {}
  /\ dropped = {}
  /\ loggedOut = {}

-----------------------------------------------------------------------------
(* Minting a session: CreateNew and the three handlers that call it *)

\* A handler that goes on to CreateNew for user u on app a, with what it has read.
MintFor(r, u, a, ip, i) ==
  /\ requests' = [requests EXCEPT ![r] =
       [pc |-> "mint", user |-> u, app |-> a, ip |-> ip,
        source |-> i, email |-> email[u], minted |-> 0]]
  /\ UNCHANGED <<sessions, email, held, superseding, touching, now, dropped, loggedOut>>

\* The user is found by its address and the password or the code matches; a
\* registration gets here too, with the user it has just created.
LoginReads(r, u, a, ip) ==
  /\ requests[r] = Idle
  /\ MintFor(r, u, a, ip, 0)

\* Refresh from any address the token is presented from.
RefreshReadsFromAnywhere(r, i, ip) ==
  /\ requests[r] = Idle
  /\ i \in held
  /\ Refreshable(sessions[i])
  /\ MintFor(r, sessions[i].user, sessions[i].app, ip, i)

\* FindOne, not FindActive: an invalidated session is accepted on purpose.
RefreshReads(r, i, ip) ==
  /\ requests[r] = Idle
  /\ i \in held
  /\ Refreshable(sessions[i])
  /\ sessions[i].ip = ip
  /\ MintFor(r, sessions[i].user, sessions[i].app, ip, i)

NewRow(h) ==
  [user |-> h.user, app |-> h.app, ip |-> h.ip, invalidated |-> FALSE,
   expiresAt |-> now + AccessTtl[h.app], refreshUntil |-> now + RefreshTtl[h.app],
   lastUsedAt |-> 0, parent |-> h.source, email |-> h.email]

\* The INSERT of CreateNew.
Mint(r) ==
  /\ requests[r].pc = "mint"
  /\ Len(sessions) < MaxSessions
  /\ sessions' = Append(sessions, NewRow(requests[r]))
  /\ requests' = [requests EXCEPT ![r].pc = "reload", ![r].minted = Len(sessions) + 1]
  /\ UNCHANGED <<email, held, superseding, touching, now, dropped, loggedOut>>

\* The goroutine is given the session that was rotated, not the one minted.
ReloadDetachesSource(r) ==
  /\ requests[r].pc = "reload"
  /\ requests' = [requests EXCEPT ![r].pc = "answer"]
  /\ superseding' = superseding \union {requests[r].source}
  /\ UNCHANGED <<sessions, email, held, touching, now, dropped, loggedOut>>

\* The FindOne of CreateNew, and the goroutine it then detaches.
Reload(r) ==
  /\ requests[r].pc = "reload"
  /\ requests' = [requests EXCEPT ![r].pc = "answer"]
  /\ superseding' = superseding \union {requests[r].minted}
  /\ UNCHANGED <<sessions, email, held, touching, now, dropped, loggedOut>>

\* Credentials and participation are found, and the client gets its tokens.
Answer(r) ==
  /\ requests[r].pc = "answer"
  /\ held' = held \union {requests[r].minted}
  /\ requests' = [requests EXCEPT ![r] = Idle]
  /\ UNCHANGED <<sessions, email, superseding, touching, now, dropped, loggedOut>>

\* A statement fails: 500, and what was written so far stays.  Without the row
\* read back nothing is detached; without the participation no token is returned.
Fail(r) ==
  /\ requests[r].pc \in {"mint", "reload", "answer"}
  /\ dropped' = IF requests[r].pc = "reload"
                THEN dropped \union {requests[r].minted} ELSE dropped
  /\ requests' = [requests EXCEPT ![r] = Idle]
  /\ UNCHANGED <<sessions, email, held, superseding, touching, now, loggedOut>>

-----------------------------------------------------------------------------
(* Statements that rewrite rows *)

Invalidated(row) == [row EXCEPT !.invalidated = TRUE]
Touched(row) == [row EXCEPT !.lastUsedAt = now]

\* revocation() without the refresh window.
FlagOnly(row) == [row EXCEPT !.invalidated = TRUE]
Revoked(row) == [row EXCEPT !.invalidated = TRUE, !.refreshUntil = Epoch]

\* InvalidateAllExcept with the condition on the user left out.
InvalidateTheWholeApp(i) ==
  sessions' = [k \in Ids |->
    IF k # i /\ sessions[k].app = sessions[i].app /\ ~sessions[k].invalidated
    THEN Invalidated(sessions[k]) ELSE sessions[k]]

\* InvalidateAllExcept that closes the refresh window as a revocation does.
RevokeAllExcept(i) ==
  sessions' = [k \in Ids |->
    IF k # i /\ SameOwner(k, i) /\ ~sessions[k].invalidated
    THEN Revoked(sessions[k]) ELSE sessions[k]]

\* InvalidateAllExcept reduced to the session the refresh rotated.
InvalidateTheParent(i) ==
  sessions' = [k \in Ids |->
    IF k = sessions[i].parent THEN Invalidated(sessions[k]) ELSE sessions[k]]

InvalidateAllExcept(i) ==
  sessions' = [k \in Ids |->
    IF k # i /\ SameOwner(k, i) /\ ~sessions[k].invalidated
    THEN Invalidated(sessions[k]) ELSE sessions[k]]

\* The detached "invalidate the other sessions" of session i.
Supersede(i) ==
  /\ i \in superseding
  /\ InvalidateAllExcept(i)
  /\ superseding' = superseding \ {i}
  /\ UNCHANGED <<email, held, requests, touching, now, dropped, loggedOut>>

\* Its statement fails or panics; the error is logged and nobody retries.
SupersedeFails(i) ==
  /\ i \in superseding
  /\ superseding' = superseding \ {i}
  /\ dropped' = dropped \union {i}
  /\ UNCHANGED <<sessions, email, held, requests, touching, now, loggedOut>>

-----------------------------------------------------------------------------
(* Using and closing a session *)

\* Authorize, called by /authorize and by the guard of every protected route.
AuthorizeReads(r, i, ip) ==
  /\ requests[r] = Idle
  /\ i \in held
  /\ Usable(sessions[i])
  /\ sessions[i].ip = ip
  /\ requests' = [requests EXCEPT ![r] =
       [pc |-> "authorized", user |-> sessions[i].user, app |-> sessions[i].app,
        ip |-> ip, source |-> i, email |-> email[sessions[i].user], minted |-> 0]]
  /\ touching' = touching \union {i}
  /\ UNCHANGED <<sessions, email, held, superseding, now, dropped, loggedOut>>

\* The UPDATE of the touch by id alone.
TouchAnyRow(i) == sessions' = [sessions EXCEPT ![i] = Touched(@)]

TouchLastUsedAt(i) ==
  sessions' = IF sessions[i].invalidated THEN sessions
              ELSE [sessions EXCEPT ![i] = Touched(@)]

\* The detached "mark the session as used", which may come after anything.
Touch(i) ==
  /\ i \in touching
  /\ TouchLastUsedAt(i)
  /\ touching' = touching \ {i}
  /\ UNCHANGED <<email, held, requests, superseding, now, dropped, loggedOut>>

TouchFails(i) ==
  /\ i \in touching
  /\ touching' = touching \ {i}
  /\ UNCHANGED <<sessions, email, held, requests, superseding, now, dropped, loggedOut>>

\* Revoke: by id alone, so that a superseded session can be closed as well.
Logout(r) ==
  /\ requests[r].pc = "authorized"
  /\ sessions' = [sessions EXCEPT ![requests[r].source] = Revoked(@)]
  /\ loggedOut' = loggedOut \union {requests[r].source}
  /\ requests' = [requests EXCEPT ![r] = Idle]
  /\ UNCHANGED <<email, held, superseding, touching, now, dropped>>

\* RevokeAllForUser with the condition on the user left out.
HeldByAnyone(u, a) == {i \in Ids : sessions[i].app = a}

\* The rows RevokeAllForUser rewrites.
HeldBy(u, a) == {i \in Ids : sessions[i].user = u /\ sessions[i].app = a}

\* The transaction of writeEmailChange, at its commit: the address moves and
\* every session of the user on this app is closed.
ChangeEmail(r) ==
  LET u == requests[r].user
      closing == HeldBy(u, requests[r].app)
  IN  /\ requests[r].pc = "authorized"
      /\ email[u] < MaxMoves
      /\ email' = [email EXCEPT ![u] = @ + 1]
      /\ sessions' = [i \in Ids |->
                        IF i \in closing THEN Revoked(sessions[i]) ELSE sessions[i]]
      /\ loggedOut' = loggedOut \union closing
      /\ requests' = [requests EXCEPT ![r] = Idle]
      /\ UNCHANGED <<held, superseding, touching, now, dropped>>

\* Any other protected handler, or one of the two above refused or failing.
Respond(r) ==
  /\ requests[r].pc = "authorized"
  /\ requests' = [requests EXCEPT ![r] = Idle]
  /\ UNCHANGED <<sessions, email, held, superseding, touching, now, dropped, loggedOut>>

-----------------------------------------------------------------------------
\* The process dies: handlers and detached goroutines with it, the rows stay.
Crash ==
  /\ requests' = [r \in Requests |-> Idle]
  /\ superseding' = {}
  /\ touching' = {}
  /\ dropped' = dropped \union superseding \union Reloading
  /\ UNCHANGED <<sessions, email, held, now, loggedOut>>

Tick ==
  /\ now < MaxTime
  /\ now' = now + 1
  /\ UNCHANGED <<sessions, email, held, requests, superseding, touching, dropped, loggedOut>>

HandlerStep(r) ==
  \/ \E u \in Users, a \in Apps, ip \in Ips : LoginReads(r, u, a, ip)
  \/ \E i \in held, ip \in Ips : RefreshReads(r, i, ip) \/ AuthorizeReads(r, i, ip)
  \/ Mint(r) \/ Reload(r) \/ Answer(r) \/ Fail(r)
  \/ Logout(r) \/ ChangeEmail(r) \/ Respond(r)

DetachedStep(i) == Supersede(i) \/ SupersedeFails(i) \/ Touch(i) \/ TouchFails(i)

Next ==
  \/ \E r \in Requests : HandlerStep(r)
  \/ \E i \in superseding \union touching : DetachedStep(i)
  \/ Crash
  \/ Tick

Spec == Init /\ [][Next]_vars

\* A goroutine that is not killed reaches its next statement, and a statement
\* returns or fails.  Nothing forces a client to call, or time to pass.
Fairness ==
  /\ \A r \in Requests : WF_vars(Reload(r) \/ Fail(r))
  /\ \A i \in 1..MaxSessions : WF_vars(Supersede(i) \/ SupersedeFails(i))

FairSpec == Spec /\ Fairness

-----------------------------------------------------------------------------
(* Safety *)

\* "Both tokens die" (the route of /auth/revoke): from the logout on, whatever
\* was in flight or detached before it, the session can neither authorize a
\* request nor be refreshed, and its row goes on saying that it was closed on
\* purpose (RevokedRefreshWindow) and did not run out.
LogoutKillsBothTokens ==
  \A i \in loggedOut :
    /\ sessions[i] = Revoked(sessions[i])
    /\ ~Usable(sessions[i])
    /\ ~Refreshable(sessions[i])

\* "A mistake in this predicate logs people out" (InvalidateAllExcept): a session
\* nobody logged out is invalidated only if its own user has another one on its app.
NobodyElseLoggedOut ==
  \A i \in Ids \ loggedOut :
    sessions[i].invalidated => \E j \in Ids \ {i} : SameOwner(i, j)

\* A login leaves one live session for the user on the app: once the goroutine
\* of session j has run and was not lost, every session older than j is dead.
OlderSessionsSuperseded ==
  \A j \in Ids \ (superseding \union dropped \union Reloading) :
    \A i \in 1..(j - 1) : SameOwner(i, j) => sessions[i].invalidated

\* Holding a refresh token is worth something: until its window ends, nothing
\* but a logout takes it away, however many sessions came after it.
SupersededCanRefresh ==
  \A i \in held \ loggedOut :
    LET mintedAt == sessions[i].expiresAt - AccessTtl[sessions[i].app]
    IN  mintedAt + RefreshTtl[sessions[i].app] >= now => Refreshable(sessions[i])

\* A rotation keeps the session where it was: same user, same app, same address
\* as the session whose token was presented, whose tokens a client really held.
LineageIntact ==
  \A i \in Ids :
    LET p == sessions[i].parent
    IN  p # 0 => p < i /\ p \in held /\ SameOwner(p, i) /\ sessions[p].ip = sessions[i].ip

\* Refreshes of session i that have read it, and have not inserted their row.
Refreshing(i) == {r \in Requests : requests[r].pc = "mint" /\ requests[r].source = i}

\* The sessions minted with the refresh token of session i.
MintedFrom(i) == {k \in Ids : sessions[k].parent = i}

\* After the logout of a session nothing is done in its name any more.  Work
\* detached before it does not write the row; no further Refresh gets past its
\* checks; and those that had passed them are all that can still log the user in
\* again, each of them once.
ClosedForGood ==
  [][\A i \in loggedOut :
       /\ sessions'[i] = sessions[i]
       /\ Refreshing(i)' \subseteq Refreshing(i)
       /\ MintedFrom(i)' # MintedFrom(i) =>
            \E r \in Refreshing(i) \ Refreshing(i)' :
              MintedFrom(i)' \ MintedFrom(i) = {requests'[r].minted}]_vars

-----------------------------------------------------------------------------
(* The abstract book *)

BookOwner == [i \in Ids |-> <<sessions[i].user, sessions[i].app>>]

BookPhase ==
  [i \in Ids |-> IF ~sessions[i].invalidated THEN "active"
                 ELSE IF sessions[i].refreshUntil = Epoch THEN "closed"
                 ELSE "superseded"]

Book == INSTANCE SessionBook
          WITH Owners <- Users \X Apps, owner <- BookOwner, phase <- BookPhase

\* The table with its handlers and goroutines implements the book of sessions.
ImplementsBook == Book!BookSpec

-----------------------------------------------------------------------------
(* Liveness *)

\* Two sessions of one user on one app do not both stay live: the older one dies,
\* unless the goroutine that should have killed it was lost.
SupersededInTheEnd ==
  \A j \in 1..MaxSessions : \A i \in 1..(j - 1) :
    (\E k \in Ids : k = j /\ SameOwner(i, j))
      ~> (\E k \in Ids : k = j /\ (j \in dropped \/ sessions[i].invalidated))

-----------------------------------------------------------------------------
(* What comments of the code say, and the code does not do *)

\* "It only means that a newer session was born" (pendencias.md, item 22; the
\* same in the comment of Refresh): a session still open is invalidated only by
\* a session minted after it.
SupersededOnlyByNewer ==
  \A i \in Ids \ loggedOut :
    sessions[i].invalidated =>
      \E j \in Ids : j > i /\ SameOwner(i, j)

\* "Nothing minted under the old one may survive" (RevokeAllForUser).
OldAddressHasNoSession ==
  \A i \in Ids : sessions[i].email # email[sessions[i].user] => i \in loggedOut
=============================================================================
