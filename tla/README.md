# Specifications of my-auth-service

The service signs users up, logs them in and authorizes their requests, for many
applications, on Go (Fiber, GORM) and Postgres. This directory holds TLA+ modules
that model it, the TLC configurations that check them on small instances, and
TLAPS proofs of what matters most for every size of instance.

Check a module with `tlc -config <file>.cfg <MC module>.tla`, a proof with
`tlapm <Module>Proofs.tla`. `PROJECT.json` maps every definition to the lines it
translates, every property to the run that checks it and to a plausible bug that
breaks it.

## 1. The system

Every HTTP request runs on a goroutine of its own, in any number of processes
that share one database. A handler is a chain of guards, then a service: each
database statement is atomic, and a sequence of them is not, except in the five
explicit transactions (`ProvisionUser`, `writeEmailChange`, `CreateForUser` and the
two `Track`). `utils.Detach` starts work nobody waits for: it runs at any later
time, its error is logged, and it is gone when the process dies.

| Component | State it keeps | Operations | What makes it correct |
| --- | --- | --- | --- |
| Sessions (`core/session`) | `sessions` | mint, supersede, touch, revoke one, revoke all | only another session of the owner, a logout or a change of email ends a session; what a logout ends stays ended |
| Authorize (`authorize`) | - | authorize, refresh, revoke, reset password, verify and change email | a token means its row, at its address, in its time |
| Login, Register | - | by password, by code | one account per address, one live session per user and app |
| Otp (`core/otp`) | `otps` | generate, verify, consume, invalidate | a code works once, in time, for its action, app and address; wrong guesses at `/otp/verify` are counted towards a ceiling, those at the endpoints that consume a code are not |
| Users (`core/user`) | `users` | create, edit (self, administrator), track | unique address per pool; the verified flag speaks of the address on the row, unless an administrator wrote either |
| Organizations, Participants | `organizations`, `participants` | create, edit, switch, move a participant to another profile | nobody raises itself; the owner cannot be locked out |
| Profiles, Permissions algebra (`core/profile`, `shared/permissions`) | `profiles.permissions` | author, stack, compare, enforce | a layer only narrows those above it, restricted queries aside |
| Users pools, Apps | `users_pools`, `apps` | create, edit, count users, track signups | the count and the history lose no signup; an app is born with its key |
| Avatars, storage | avatar keys, a bucket | grant, confirm, remove | the row of an owner names an object that is there, unless its key was promoted twice or an answer was lost |
| Tracking (`shared/tracking`) | JSON documents | record a signup, a login | the newest ten periods; no event that a goroutine lives to record is lost to another one |
| Guards, validators | request locals | read, refuse | each runs after those it needs |
| Repository layer, Detach | - | statements of one dao, transactions, loose goroutines | only the columns of the dao are written |
| Hashing, ciphers, e-mail, configuration, migrations, Swagger | - | - | not modelled, see 7 |

The last column is what the code is after and not all of what it does. The five violations
of 3 are where it falls short: a code may work twice, a failure may not be counted, the
newer session may be the one that dies, a session may outlive a change of email, and
two restricted layers may open a route. The exceptions in the column are those the
properties make.

How they interact: Login, Register and Refresh call Sessions, which detaches its
clean-up; the endpoints of Authorize, Login and Register read a code of Otp,
write what it allows and then invalidate it; every route of `/core` goes through
the auth guard (Authorize), the organization guard (Participants) and the
permissions guard (the algebra); registration writes users, organizations,
profiles, participants and the pool in one transaction and detaches the tracking.

What is hard to test here: statements of two handlers in an order nobody tried,
detached work that comes late or never, a row read before a decision and written
after it, and documents stacked in combinations nobody wrote. `PROJECT.json`
lists these hazards line by line with the properties aimed at them.

## 2. The modules

| Module | Models | Status |
| --- | --- | --- |
| `SessionBook` | what a session promises, without rows, handlers or goroutines: active, superseded, closed | done |
| `Sessions` | the table, the handlers and the detached goroutines; implements `SessionBook` | done |
| `SessionsProofs` | its theorems | done |
| `AccountBook` | what the codes promise about accounts, without rows, handlers or clocks: an address moved or verified by a proof, a password or a voucher | done |
| `Otp` | codes, and the five endpoints that consume them; implements `AccountBook` | done |
| `OtpProofs` | its theorems | done |
| `Permissions` | the algebra of documents and the guard | done |
| `PermissionsProofs` | its theorems | done |
| `Governance` | organizations, participants and profiles, the requests that change them through stale reads, and the metadata merged in memory | done |
| `GovernanceProofs` | its theorems | done |
| `PoolBook` | what a pool promises, without transactions, locks or goroutines: whole accounts, entered one by one | done |
| `Provisioning` | the transaction of a signup with its row locks, `users_count`, and the goroutines that fold signups and logins into bounded documents; implements `PoolBook` | done |
| `ProvisioningProofs` | the theorems about the transaction | done |
| `TrackingProofs` | the theorems about the documents | done |
| `PoolBookProofs` | that `Provisioning` implements `PoolBook` | done |
| `Gallery` | what a visitor sees, without keys, grants or two stores: a picture replaced in one step by its owner | done |
| `Avatar` | a row, a bucket, and the requests that keep the two together; implements `Gallery` | done |
| `AvatarProofs` | its theorems | done |

### Sessions

A row of `sessions` is a record of the sequence of that name, and its index stands
for the UUID. `requests[r]` is a handler: `idle`, about to insert (`mint`), about
to read the row back (`reload`), about to answer, or past the auth guard
(`authorized`). `superseding` and `touching` are the goroutines of `CreateNew` and
of `Authorize` that have not run yet. `held` are the sessions whose tokens reached
a client: only those can be presented. Three variables or fields are history, read
by no action: `dropped` (goroutines that were lost), `loggedOut`, and the fields
`parent` and `email` of a row.

`Mint`, `Reload`, `Answer` and `Fail` are `CreateNew` and what its callers do after
it; `LoginReads` and `RefreshReads` are what precedes it (a registration is a login
whose user has just been created); `AuthorizeReads` is `Authorize`; `Logout` and
`ChangeEmail` are `Revoke` and the transaction of `writeEmailChange`, taken at its
commit: no statement of another handler that writes these rows can fall between
its two updates, and a reader sees all or nothing of it. `Crash` loses handlers and goroutines and
keeps rows. Tokens are right or wrong: how they are encrypted is left out.

`SessionBook` says it in three lines: a session is born active, a newer or older
session of the same owner supersedes it, closing it is final.

### Otp

A row of `otps` is a record of the sequence `otps`; `email` and `verified` are the
columns of `users` the codes decide about. A handler of `GenerateConsumable` goes
through the availability of the address, the rate limit, the insert and the
e-mail; one of `VerifyConsumable` through the read and the count of a failure; one
of the consuming endpoints through the read of the code and of the account (in
the order each of them has), the write, and the invalidation, detached
(`burning`) for login and registration. A code is known only where it was
`delivered`, so that to present the right one is to have received it. `presented`,
`vouched`, `lost`, and the fields `guesses` and `uses` of a row are history.

Sessions and passwords that a code opens are not repeated here: a use is counted
on the row. All the apps share one users pool. `contact` is both the column and the
e-mail of the metadata: the controller passes no contact of its own, so that both
are the e-mail of the body, in lower case.

`AccountBook` has neither rows nor handlers: codes are mailed, whoever reads the mail
presents one, and an address is written or a flag set because of such a proof, of a
password (and then unverified), or of an administrator. `Book` maps the columns of
`users` to it, and the codes delivered and accepted to what was mailed and proven:
however late a handler writes, what it writes was proven for that address and that
purpose.

An administrator writes the address, the flag or both, and the code resets neither: the
flag of the old address stays beside the new one. Accounts it has written are `vouched`
and exempt from `VerifiedMeansProven`, as they are in the book, so that nothing here is
said against that. A wrong code presented to an endpoint that consumes one changes
nothing and is a step that is not taken: the ceiling of attempts is one on `/otp/verify`.

### Permissions

A document is a set of grants and a map from routes to rules. A regular expression
is the set of parameter values it matches, a list of methods or patterns a set.
`Layer` is `Document.resolved`, `Intersect` is `intersect`, `WithinApi` is behind
`IsSubsetOf`, `IsWithin` and the `grants` of a resolved document, and `Allows` is the
guard. `ResolveNext` is one turn of the loop of `Resolve`. The guard's last
resort, a route pattern that matches a key as a regular expression, is left out:
no registered pattern contains what `:id` is rewritten into.

The properties compare the guard on the result with the guard on each layer. They
hold for documents the guard and the algebra read alike, which the operators of
their own section spell out: nothing beside `"*"` opens more than it,
`{"*": "*"}` is alone in its query, and restricted queries speak of a common
parameter. What happens without these is the finding of `permissions_narrow`.

Two properties also say how much is lost without them. Whatever queries do to each
other, the route and the method of a call are those of every layer, if `"*"` takes at
least the methods of the paths beside it: the second half of `NoLayerIsWidened`. A
ceiling that was itself stacked may ask a parameter to match two patterns, and the
comparison accepts a profile that has one of them: `WithinExceedsNothing` says that
such a profile opens nothing both patterns refuse (`AllowsByOne`), and nothing the
ceiling refuses where each parameter has one pattern. A document whose `"*"` takes
less than the paths beside it is outside all of this: `lookup` prefers the path, the
guard `"*"`, and no doc says which is meant.

### Governance

`organizations`, `participants`, `profiles`, `current` (the column
`current_organization_id`), `defaultProfile` and `metadata` are the tables of that
name; a profile is its scope (`organization_id`) and the two halves of its document,
as sets of grants. `requests[r]` is a handler on its way through `AuthGuard` (which
loads the user, its organization and that one's ceiling), `OrganizationGuard` (the
participation and its profile), one of the ten services that write under `/core`,
and the write. Nothing is locked between these four steps, and a request decides
on what it has read: `ceiling`, `own`, `held`, and the metadata it has `seen`. `handed`,
`intended` and `raced` are history.

`Switch` to `UpdateSelf` are the reads and refusals of the services, `WriteCurrent` to
`WriteMetadata` what each of them writes in one statement or transaction, `Fail` any
refusal or error. `WithinHeld` is the comparison of whatever a caller hands out with
what it held in its guards, `ResolveCeiling` the one with the ceiling of its
organization, `Writable` and `Movable` the two refusals of an edit, `CarriedOver` the
half of a document an edit leaves alone.

Abstractions. `Resolve` is an intersection and `IsWithin` an inclusion of sets of
grants; the api half is not compared by the code and is a set of its own here.
Routes that no grant catalogs are left out of `"*"`. `ParticipantService.Create` has no
caller, so that `Joined` puts members into organizations by hand. The organization a
user is born with in `Provisioning` is one of `Owners`. What the model does not
assume away: a member that was moved to a narrower profile while its request was on
the way finishes it with what it held before; two edits of one profile, or two
patches of one row, overwrite each other (`raced`); and the members of the seeded
organization may edit its Admin row, whose key is `ADMIN` and not `<id>:ADMIN`, so that
only its api half, carried over, keeps it whole. A comment says `resolveCeiling`
makes the comparison of `UpdateParticipant`; it compares with the organization.

### Provisioning

`signups[r]` is a handler of registration: `arrived`, `open` (in `ProvisionUser`, `ran`
statements in), `provisioned`, `answered`. `rows` are the committed rows of the five
tables; what a transaction has written before its commit is `Written(r)` and visible
to nobody. `tracks[r]` is the goroutine that counts a signup, `logins[i]` the one that
queues a login; `tracking` and `queues` are the JSON documents of the pool and of the
users. `counted` and `recorded` are history.

The locks are those of PostgreSQL on the row of the pool: an insert that names it
takes KEY SHARE, `IncrementUsersCount` NO KEY UPDATE, `FindOneForUpdate` UPDATE; and an
insert of an address waits for the transaction that inserts the same one, to fail
once that commits (`FindTaken`). `Blocks(s, t)` says that `s` holds what `t` waits for.
`Commit` makes rows and count visible at once and starts the goroutine; `MintSession`
and `FailToMint` are what follows the commit. `CallTrack` reads the clock before
`LockPool` waits, as the argument of the call is evaluated: goroutines of two months
may come in the other order. `RecordSignup` and `RecordLogin` are the folds of the
package `tracking`. The queue of logins is in the order in which goroutines lock the row,
and so is `recorded`: `spec.md:100` of the tracking feature calls the removal FIFO, while
`document.go:19` lets the oldest go and `spec.md:69` puts the most recent first. A
late goroutine tells the two apart, and `QueuesLoseNothing` does not judge between them.

The breakdown of a month by app moves with its total and is left out, as are the
accounts of the seed: the pool starts with none. A crash loses goroutines and rolls
transactions back, one failure each.

`PoolBook` keeps everything and shows a part of it: an account joins and is counted in
one step, its signup is entered under one month, or lost, and its logins are entered
one by one; what is shown are the newest months and the last logins. `Book` maps the
committed rows to its accounts, the goroutines that have not ended to what is still to
be entered, and the three columns to what it shows. That a signup is entered once,
by a goroutine that runs after its commit, is what it says and the invariants do not.

### Avatar

An owner is a user, an organization or an app: the three differ in the route and the
table alone. A key has an object under `pending/` and one under `avatar/`. `Grant`,
`Upload`, `Expire` and `Sweep` are the presigned POST, its use by the client, the end of
it, and the lifecycle rule of the bucket, a day later. `handlers[h]` is a confirmation
(`head`, `copy`, `write`, `discard`) or a removal (`write`, `discard`) with the key it read
from the row at its start. `WriteFails` writes, or not, and says it did not;
`CopyFails` may come after the copy; `Discard` deletes, or not; `Crash` loses the
handlers. `copied`, `unanswered` and `orphans` are history, and name the exceptions:
a key promoted twice, a write whose answer was lost, an object left behind.

The policy of the POST and the checks after `Head` compare size and type with what
the key was granted for, and are one relation (`Fits`), checked at both places. A
client may upload again under the same grant and confirm again: the picture of a
published key changes, and is still one that fits.

`Gallery` knows owners and pictures: `Visible` maps the row of an owner, and the object
that it names, to what a visitor is shown, the grants to the pictures that are welcome,
and `copied` and `unanswered` to the owners that stumbled. A confirmation takes four
steps over two stores, and changes the gallery in one.

## 3. The runs

| Run | Instance | What it shows |
| --- | --- | --- |
| `sessions_owners` | 2 users, 1 app, 2 addresses, 2 handlers, 2 rows, no time | superseding and closing touch the sessions of their owner alone; a rotation keeps its lineage; the book is implemented |
| `sessions_clock` | 1 user, 2 handlers, 2 rows, 3 ticks, fair goroutines | a logout kills both tokens at once and for good; a superseded session refreshes until its own window ends; the older of two sessions dies in the end |
| `otp` | 2 users, 2 addresses, 1 app, 1 code, 2 handlers, a ceiling of 2 | dead codes stay dead, die for a reason, are doomed once used; the counter stops at the ceiling; a recent code keeps others waiting; the flag of an account was earned by its address; the rows implement `AccountBook` |
| `permissions` | 42 documents, stacks of up to 3, 2 routes, 2 methods, 2 parameters, 3 values | the guard on the result allows what every layer allows; reported grants are delivered, and all of them are reported; a layer takes away routes and methods whatever the queries; a profile within a ceiling exceeds nothing but, where the ceiling has two patterns for a parameter, one of them; and one of grants that exceeds nothing is within it |
| `governance` | 3 users, 2 organizations and a third to be born, 3 requests | members never outgrow what their owner handed out, nor gain by their own write; owners keep their ceiling; other organizations are untouched; patches stick |
| `provisioning` | 2 signups behind 1 or 2 addresses, 3 logins, 2 months of which 1 is kept, 2 logins kept, fair transactions | accounts are whole, counted and tracked exactly once; nobody waits in a circle, and everybody ends; the rows implement `PoolBook` |
| `avatar` | 2 owners, one of them with 2 keys, 2 files, 2 handlers, crashes | a row names an object that is there and fits, of its own owner; what no row names is accounted for; the two stores implement `Gallery` |

and those that TLC has to find violated, each a disagreement between the code and
what it says of itself:

| Run | What the code does |
| --- | --- |
| `sessions_superseded` | the goroutine of an older login, running late, invalidates the newer session |
| `sessions_moved` | a login that read the user before a change of email leaves a session after it |
| `otp_once` | two requests present one code before either invalidates it, and both are served |
| `otp_counted` | two wrong codes at once are counted as one |
| `permissions_narrow` | two layers that restrict different parameters of a route leave it open |

Why the bounds are enough. The races need two handlers and, for sessions, two rows
of one owner plus, in `sessions_owners`, a row of somebody else; a third row of the
same owner is handled by the same statement as the second, and the theorems of 5
do not depend on the number. Time only matters as "before or after" an expiry: the
access lifetime is 1, the refresh lifetime 2, and three ticks pass both. One code
is what two handlers race for; two addresses are what a change of email moves
between. A ceiling of two attempts is the smallest that distinguishes a lost
count from the last one. With one code the rate limit can refuse but nobody past it
can insert a second one: that half of `RefusalsAreFinal` rests on its theorem alone.
Two documents is what `intersect` takes, the third is applied to a result rather than
to a document; of three values, two make a ceiling of two patterns and one exceeds both. The bounds themselves
(`MaxSessions`, `MaxTime`, `MaxMoves`, `MaxOtps`, `MaxLayers`) are guards of the
actions that would exceed them.

A request of `governance` runs once: two that race and a third that comes before,
between or after them are what a stale read takes, and a client that calls again is
another request. The second owner of `avatar` has no keys: it is there to try the
keys of the first. One month kept of two is what lets a late goroutine fall behind
the document, two logins of three what lets one fall off its end. Of the addresses
of two signups only "the same or not" matters, so that the first has one.

`permissions` turns deadlock checking off: a stack of `MaxLayers` documents is
complete. So do `governance` and `provisioning`, whose requests and goroutines end;
that no transaction waits forever is `NoCircleOfWaits` and `TransactionsEnd` there.

Symmetry is used for users, addresses and handlers, never in a run that checks
liveness. The refinements of `sessions_owners`, `otp` and `avatar` are safety alone
and are checked under symmetry: the variables of the abstract specifications are
functions of the detailed ones and permute with them.

## 4. Fairness

Two properties need any. `SupersededInTheEnd`: a handler past its insert reaches its next
statement, which succeeds or fails, and a goroutine that is not killed runs its
one statement or fails: weak fairness on `Reload \/ Fail` and on `Supersede \/
SupersedeFails`, which is what the Go scheduler and a database with timeouts give.
Nothing forces a client to call, a process to crash or the clock to tick. What is
lost is recorded in `dropped`, and the property makes an exception of it: the code
has no retry. There is none for codes: `UsedCodesAreDoomed` states as safety that
somebody is left to invalidate a used one, unless that was lost.

`TransactionsEnd`: a transaction that may run its next statement, or commit, or learn
that its address is taken, does (weak fairness on `Statement \/ FindTaken \/ Commit`),
and so does a goroutine that tracks (`TrackStep`). Weak fairness is enough, and is what
a database that wakes the waiters of a lock gives, if whoever waits is no longer
blocked once those before it ended. Rollbacks and failures are not fair, so that
nothing ends for want of going wrong.

## 5. What is proved

`SessionsProofs` proves for all users, apps, lifetimes and bounds, from the
assumptions `TtlAssumption` (positive lifetimes, as the validator of the app's
payload requires) and `BoundsAssumption`:

| Theorem | Property |
| --- | --- |
| `TypeCorrect` | `TypeOK` |
| `LogoutIsFinal` | `LogoutKillsBothTokens` |
| `ClosingIsForGood` | `ClosedForGood` |
| `NobodyElseIsLoggedOut` | `NobodyElseLoggedOut` |
| `OneLiveSessionOnceDrained` | `OlderSessionsSuperseded` |
| `SupersededStaysRefreshable` | `SupersededCanRefresh` |
| `RotationKeepsLineage` | `LineageIntact` |
| `SessionsImplementBook` | `ImplementsBook` |

`TypeOK` is inductive because it carries what handlers and goroutines refer to:
without `minted` and `source` in the table no statement of a goroutine could be
typed. The other invariants are proved relative to it, one lemma per action that
can disturb them. `LogoutKillsBothTokens` is inductive with `TypeOK` because every
statement that may meet a closed row either skips it (`invalidated = false` in its
predicate) or writes the same values again. `ClosingIsForGood` says more, of the
refreshes that read a row before it was closed: nobody joins them, because `RefreshReads`
refuses the row, and each of them mints one session and is then no longer one of them.
`OlderSessionsSuperseded` needs that a
row once invalidated stays so, and that what leaves `superseding`, `Reloading` or
`requests` is either done or in `dropped`. The refinement maps every step that
inserts a row to a birth, those that close to a close, `Supersede` to a supersede
of all the rows it hits, and all others to a stutter.

`OtpProofs` proves, for all users, addresses, apps, handlers, lifetimes, rate limits and
bounds, from `NobodyAssumption` and `LimitsAssumption` (a ceiling of at least one
attempt):

| Theorem | Property |
| --- | --- |
| `TypeCorrect` | `TypeOK` |
| `NobodyComesTooLate` | `RefusalsAreFinal` |
| `NoCodeDiesUnused` | `CodesDieForAReason` |
| `UsedCodesDie` | `UsedCodesAreDoomed` |
| `FlagIsProven` | `VerifiedMeansProven` |
| `OtpImplementsBook` | `ImplementsBook` |

None of the invariants but `TypeOK` is inductive: each depends on what a handler carries from one
statement to the next. The invariant `IInv` says what that is (`Knows`), and that
nobody can undo it: a handler about to count read a counter below the ceiling and not
above the wrong codes counted since (`KnowsCount`), one about to write holds a code
that was delivered and accepted for its action and its address (`KnowsCode`), a
registration about to write has its code burnt or burning (`KnowsDoom`), and a
verification about to write found an account whose address was proved or vouched for,
or has been since (`KnowsUser`). The step is proved in two halves: what is known stays
true of handlers that do not move (`KnowledgeStays`), because histories grow, rows only
continue (`TableContinues`), doom and trust stay (`DoomStays`, `TrustStays`); and
what a handler that moves learns (`VerifyLearns`, `ReadingLearns`, `WritingLearns`).

`NobodyComesTooLate` is about steps. What is dead stays so because no statement but an
invalidation writes `invalidated`, and time does not go back. That nobody gets past
the rate limit while a code is recent needs that codes are inserted in the order of
their times (`InOrder`): the limit looks at the last one of its kind, and has to find one
that is recent there if there is any. The refinement maps the delivery of a code to `Mail`, its
validation to `Prove`, a write of an endpoint or of the administrator to the book's entry
of the same name, and everything else (counting, invalidating, losing) to a stutter;
that the write has its proof is `KnowsCode`.

`PermissionsProofs` proves, for all catalogs, documents, routes, methods, parameters and
patterns and for stacks of any height (`MaxLayers` bounds TLC alone), from the
assumptions on the constants:

| Theorem | Property |
| --- | --- |
| `TypeCorrect` | `TypeOK` |
| `ComparableLayersNarrow` | `NoLayerIsWidened` |
| `CommonCallsSurvive` | `NothingIsLost` |
| `ReportedGrantsOpen` | `GrantsAreDelivered` |
| `CeilingsHold` | `WithinExceedsNothing` |
| `SmallerProfilesFit` | `NothingIsWithheld` |
| `GrantDocumentsAreSets` | (no run) |

They rest on lemmas about the algebra: what `IntersectQuery` takes is what both
queries take, if they share a parameter (`QueryOfBoth`, `QueryOfEach`); a restricted
intersection never turns into an open query other than the empty one
(`MergedStaysRestricted`), which is where the finding of `permissions_narrow` enters;
comparable documents intersect into one that is comparable with the next
(`TidyIntersection`), the fact the induction over the stack needs. Of any documents whose
`"*"` takes the most, the intersection does as well and takes no method that one of them
refuses (`TakesLess`, `AlwaysTakesLess`), whatever becomes of their queries. That an
accepted profile opens nothing all patterns of its ceiling refuse is `AllowedByOne`. The operators are
not recursive, and the stack is an induction over steps, not over data.

`SmallerProfilesFit` is the converse of `CeilingsHold`: the comparison is syntactic, over
lists and maps, and may refuse a profile that opens nothing more. For a profile of
grants it does not, because the routes of a grant are open to every query. Put together,
`GrantDocumentsAreSets` says that documents of grants alone behave like sets: a stack
allows what all of its layers allow, and `IsWithin` is containment of calls. This is what
`Governance` takes for granted when its documents are sets and `Resolve` an intersection.

`GovernanceProofs` proves, for all users, organizations, profiles, documents, patches and
requests, from `IdsAssumption`, `SeedAssumption` and `InitAssumption` (ids of different
tables differ; the seeded documents contain each other; every organization starts
with one owner and one ceiling, every member on a row that is visible to it):

| Theorem | Property |
| --- | --- |
| `TypeCorrect` | `TypeOK` |
| `OnlyWhatWasHandedOut` | `NobodyOutgrows` |
| `OwnersAreNotLockedOut` | `OwnersKeepTheirCeiling` |
| `PatchesAreKept` | `PatchesStick` |
| `WritesStayAtHome` | `OtherOrganizationsUntouched` |
| `NobodyGainsByItsWrite` | `NobodyElevatesItself` |

A write happens long after the reads that allowed it, so that `IInv` says, beside what
the tables keep (`Books`), what a request still knows of them (`Knows`): what it held is
within what was handed out in its organization, the row it is about to hand out was
visible to it and is within that as well, the row it is about to edit is none of the
`Admins` and has the api half it will write back. `Grows` is what makes such knowledge last: rows are
only added, scopes and owners stay, `handed` never shrinks, and a row that was
within it stays so whoever edits it. Each read teaches `Knows` (one lemma per service), each write
keeps `Books` and `Grows` (one lemma per write), and `KnowledgeStays` is all that is to be
said of the requests that wait meanwhile. The two action properties follow from what
a write changes: rows of its own organization, down to what the request held
(`ProfilesTouched`), and participations of others there (`ParticipationsTouched`).

`ProvisioningProofs`, `TrackingProofs` and `PoolBookProofs` prove, for any number of signups, addresses,
months and logins, from `AskedAssumption`, `LimitAssumption` and `BoundsAssumption`:

| Theorem | Property |
| --- | --- |
| `AllOrNothing` | `BornWhole` |
| `PoolCountsItsUsers` | the last part of `BornWhole` |
| `NoDeadlock` | `NoCircleOfWaits` |
| `TransactionsAdvance` | (no run) |
| `TypeCorrect` | `TypeOK` |
| `NoSignupIsLost` | `PeriodsAreExact` |
| `NoLoginIsLost` | `QueuesLoseNothing` |
| `ProvisioningImplementsBook` | `ImplementsBook` |

The count is read under its lock and written by the commit that releases it, so the
invariant says that what an open transaction is about to write is one more than there
is, and that two transactions never hold that lock. There is no circle of waits
because a transaction only waits for those that have run a later statement: the
count comes last, and a goroutine holds its lock only while it waits for nothing. What
has ended holds nothing either (`OnlyUnfinishedBlock`), so that of those that are left
one can go on. `TransactionsAdvance` adds that no step, of whichever transaction, takes
another one back, and that its own take it further, on a scale of nine stages: with
`NoDeadlock` this is `TransactionsEnd` but for fairness, which stays with TLC. For
the documents, the induction is over the goroutine that holds the row: what it is about
to write is the fold of what is there, because nobody else can write. A document is
exactly the `Newest` months of those ever tracked (`Exact`), and forgetting a month
before or after another one is recorded makes no difference (`NewestForgets`): its
rank, an injection into the newer ones, can only grow. The refinement takes all of
these: a commit joins because the count it writes is one more and the address is
nobody's, a write of a goroutine enters because the document it holds is what the
book would show, a goroutine that fails loses its signup, and all else is a stutter.

`AvatarProofs` proves, for any owners, keys, files and handlers:

| Theorem | Property |
| --- | --- |
| `TypeCorrect` | `TypeOK` |
| `OwnersApart` | `RowsNameTheirOwn` |
| `OnlyWhatWasSignedFor` | `NothingElseIsPublic` |
| `AvatarIsThere` | `RowNamesStoredObject` |
| `OnlyFailuresLeaveObjects` | `NothingIsLeftBehind` |
| `AvatarImplementsGallery` | `ImplementsGallery` |

In `AvatarIsThere`, a key that was promoted once is
first known to the one request that promoted it, and then to the one row that request
wrote; whoever deletes it has read it from that row and has replaced it before
(`Once`). The refinement maps a write of the row to the gallery's `Show` or `TakeDown`,
and a copy over a key that is in a row to `Show` as well; that the picture is welcome
takes `EverythingFits`, and that its key was drawn (`Drawn`). A deletion is a stutter: by
`Once` it meets a key that a row names only if its owner has stumbled, and is then a
`Lose`.

Only model-checked: `SupersededInTheEnd` and `TransactionsEnd` (liveness is beyond the
prover) and the violations, which are counterexamples. Every other property of a
passing run is a theorem.

## 6. The plan

The components whose state the properties speak of are modelled. What is left, in
this order:

1. Creating an app or a pool: an insert, then its public key, computed from the id, in a
   second statement. A failure in between leaves a row that no client can address.
2. The guards of the application routes (`AppAuthorizationGuard`,
   `EmailVerificationGuard`) together with the handlers behind them: the default
   profile of the pool that the first has loaded is what a signup uses later
   (`register.service.go`), and may have been changed meanwhile.
3. An organization and its sessions: `Governance` and `Sessions` composed, for a request
   whose session is revoked between its guards and its write.
4. An abstract specification of delegation, in which a holder passes on part of what
   it holds, implemented by `Governance`.

## 7. What is not modelled

Ciphers, hashes and tokens (a token or a code is right or wrong), JSON parsing and
validation of bodies, paging and listings, logging, wording of errors, the
documentation routes, the health check, configuration and wiring, migrations.
They keep no state that the properties speak of. Postgres is taken at its word: a
statement and a transaction are atomic, unique indexes hold, and rows are locked as
its documentation has it; what a transaction reads of others matters in
`ProvisionUser` and the two `Track` alone, and is spelled out in `Provisioning`. The
bucket is taken at its word too: a copy and a delete are atomic.

Of the repository layer, query building and paging are left out: no
route deletes a row. `OrganizationService.Create`, `SetOwner` and
`ParticipantService.Create` have no caller outside the transactions that are modelled.
Of the guards, those that only read and refuse are a disjunct of a failure.
