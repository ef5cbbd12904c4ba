# Infinite Brain in TLA+

A model of the Infinite Brain server (Go, PostgreSQL through pgx and sqlc,
`net/http`), model-checked with TLC and, where it matters most, proved with
TLAPS. Every definition is read from the Go code and the SQL it runs; paths
below are relative to the repository.

## The system

One process (`cmd/server`) serves HTTP. A request passes a chain of middlewares
(`IPBlocker`, `RequestID`, `SecurityHeaders`, `CORS`, `audit.Middleware`,
`OrgResolver`, then the route's `auth.Auth` and `auth.Require`), reaches a
handler, which calls a service, which calls a repository, which issues SQL
statements on a shared pool of 25 connections. All state that lasts is in
PostgreSQL; services keep none. Components interact through rows, not through
calls: an invite and a membership request meet in `org_members`, a refresh and a
logout meet in `sessions`.

The fact that shapes the models: **every repository call is one statement that
commits by itself**. The only transaction in the running server is
`auth.pgRepository.Register`. A service method that reads, decides and writes is
therefore several atomic steps with every other request free to run in between,
and a failure between two of them leaves the first one done.

| Component | State | Operations | What is hard | What makes it correct |
| --- | --- | --- | --- | --- |
| Organisation membership (`internal/org`) | `orgs` (plan, cap, deleted), `org_members` | Update, Delete, AddMember, UpdateMemberRole, RemoveMember; Get, ListMembers | checks and writes in different statements; `:exec` statements that do not say whether a row matched | roles respected, an owner remains, cap respected, a deleted organisation frozen |
| Invites (`internal/org/invite_*`) | `org_invites` | CreateInvite, AcceptInvite | one token presented twice; failure between marking and inserting; expiry; the organisation deleted meanwhile | spent once, by a request in time, and for a member |
| Accounts and sessions (`internal/auth`) | `users`, `orgs`, `sessions` | Register, Login, Refresh, Logout; Me, MyOrgs, MyPermissions | refreshes racing on one token; failures between delete and insert | rotation: single use, revoked before replaced, dead tokens refused |
| Access tokens (`internal/auth/jwt.go`, `middleware.go`, `rbac.go`) | none: a signature and an expiry | Sign, Verify, Auth, Require | nothing revokes one | access ends a token's lifetime after the last session |
| Notes (`internal/capture`) | `nodes` of type note | Create, Get, Update, Delete, Archive; List, Inbox | a note deleted between check and write; pages read by offset, in two statements, while notes change | only the owner writes; acknowledged means done; a walk misses and repeats no more than changed |
| Server process (`cmd/server`, `pkg/config`, `pkg/database`) | configuration, listener, pool, requests in flight | load, dial, serve, signal, drain, forced end | a signal during the start; order of `Shutdown` and `pool.Close`; exhaustion of the pool | clean exit only when all is answered; a failed start leaves no pool; it does end |
| Organisation context (`pkg/database/org_context.go`) | a transaction-local setting of a pooled connection | WithOrgContext | commit after a failed callback; a connection returned dirty or not at all | callbacks are scoped; nothing leaks; what is returned is what was kept |
| Audit (`internal/audit`) | `audit_log` | Record, after the handler | which context holds the claims; insert in a goroutine nobody waits for | state-changing requests are logged; no entry is lost to the end of its request |
| Health (`internal/health`) | none | Live, Ready | the probe needs a connection as well | it gives it back |
| Rate limiter (`pkg/cache/store.go`, `pkg/middleware/ratelimit.go`) | counters with expiry, under a mutex | IncrWithExpire, Incr, Expire | window edges; two calls where one was meant | not wired in; fixed windows, and a refused client gets in again |
| Honeypot, errors, headers, metrics, prompt guard, ping | none, or none that is wired | | | |

`PROJECT.json` lists each of them, modelled or not, with the reason, and the
hazards at their lines with the properties that watch them.

## Modules

| Module | Models |
| --- | --- |
| `OrgRules` | the pure decisions: role ranking, permissions of a role, plan limits, the cap |
| `OrgAtomic` | what the membership service promises: each request one step |
| `OrgMembership` | the membership service, statement by statement, with concurrent workers |
| `OrgInvites` | extends `OrgMembership` with invites and guests on the same rows |
| `AuthSessions` | registration, login and the rotation of refresh tokens |
| `AccessTokens` | extends `AuthSessions` with the access tokens issued along, a clock, and the routes they open |
| `NoteStore` | what the note service promises: each request one step |
| `Notes` | the note service, statement by statement |
| `NoteListing` | List and Inbox, and clients walking over pages, while `NoteStore`'s steps are taken |
| `Server` | process life, middleware chain, connection pool, audit middleware; starting is one step |
| `Startup` | extends `Server` with the start in steps: configuration, dialling, early signals |
| `PooledWork` | what runs on one connection of the pool: `WithOrgContext`, plain statements, the probe, audit inserts |
| `FixedWindows` | what the rate limiter promises |
| `RateLimit` | the counter store and the limiter under a clock |
| `MC*` | symmetry and small sets for TLC |
| `*Proofs` | theorems of the module they extend |

They compose in three ways. `OrgInvites`, `AccessTokens` and `Startup` extend the
module whose rows or process they share, so its actions run beside theirs and its
properties are stated of the whole. `NoteListing` takes the store's steps for the
note service's: that the service implements the store is a theorem. And
`OrgMembership` (with one worker), `Notes` and `RateLimit` are each shown to implement
an abstract specification (`OrgAtomic`, `NoteStore`, `FixedWindows`) by a refinement
mapping. (`Startup` is written with `Server`'s own steps, so that it implements `Server`
is no result, only what lets `Server`'s theorems be used of it.)

### From code to actions

A *worker* (a *guest* in `OrgInvites`) is the goroutine serving one request.
`pc[w]` is the statement it issues next, `req[w]` what the client asked for,
`reply[w]` how it was answered. The action of a statement is the repository
method and the Go code up to the next statement: `RequireRole` is `FindMember`
on the caller together with the comparison of roles and, for Update, the
rejection of an empty name that follows it. Since a service method never carries
a value of a row from one statement to a later write (only the outcome of a
check, and ids), the program counter is all a worker remembers. `Fail` is a
statement that fails, a client that goes away or a process that dies under the
request: nothing is undone. A writing statement may succeed and still be
answered with an error; the following pairs show where:

| Code | Action |
| --- | --- |
| `handler.*` + `service.Get` + `validateRole` | `Receive`, `FindOrgBySlug` |
| `requireRole`, `ensureNotLastOwner` | `RequireRole`, `EnsureNotLastOwner` |
| `AddMember`: FindByID, CountMembers and the limit, insert | `FindOrgByID`, `CountOrgMembers`, `AddOrgMember` |
| `AcceptInvite`: FindByToken, Accept, AddMember | `FindOrgInviteByToken`, `AcceptOrgInvite`, `AddInvitedMember` |
| `Refresh`: find, delete, load user, `issueTokenPair` | `FindSessionByTokenHash`, `DeleteSession`, `FindUserByID`, `CreateSession` |
| `pgRepository.Register` (transaction) | `Register`, one step |
| note Update, Delete, Archive: `FindByID` + `requireOwner`, write | `FindNoteByID`, `Write` |
| `issueTokenPair`: sign, insert, return | `Issue` (with the statement before it), `Deliver` |
| `auth.Auth`, `auth.Require`, the handlers behind them | `Auth`, `Require`, `Authenticated`, `Read` |
| `noteRepository.List`, `ListInbox`: rows, total | `ListNotes`, `CountNotes`, `ListInboxNotes`, `CountInboxNotes` |
| `config.Load`, `database.New` | `Load`, `ParseConfig`, `NewWithConfig`, `PingFails`, `PingSucceeds` |
| `main`: `NotifyContext`, ListenAndServe, `<-ctx.Done()`, `srv.Shutdown`, `pool.Close` | `SignalEarly`, `ListenAndServe`, `SignalSeen`, `Drained`, `GraceExpires`, `Exit` |
| `WithOrgContext` | `Acquire`, `Begin`, `SetConfig`, `Insert`, `FnReturns`, `Commit`, `Rollback`, `Release` |
| `auditRecorder.Record` and its goroutine | `Start`, `Acquire`, `InsertAuditLog`, `Release` with `Over` false |
| `middleware.RateLimit`, `Store` | `Request`; `IncrWithExpire`, `Incr`, `Expire` as the entry each leaves |

`SignalAgain` is the default action `stop()` restores: a second signal kills.
`net/http`, pgx and pgxpool, PostgreSQL and the clock are not in the repository;
the actions marked external in `PROJECT.json` say what the code relies on: that a
waiter is granted a released connection, that a transaction in which a statement
failed refuses further ones and that its COMMIT rolls back without an error, that
a setting made local ends with the transaction, that a connection released lost or
in a transaction is replaced.

What the models take from reading the code rather than its documents:

- `users.role` is `"owner"` for every account (`Register`) and nothing changes
  it, so `auth.Require` lets every valid token pass and is not a guard anywhere.
- `AddMember` compares no role of its caller, and `Register` inserts nothing into
  `org_members`; an organisation may have any membership within its cap to
  start from, the empty one included.
- `Service.Delete` has no route; it is modelled as its callers would find it.
- `CreateInvite` takes the organisation from the request's host, not from the
  path: without a subdomain it is answered 400.
- Nothing deletes users, organisation units or expired sessions, and nothing
  removes an entry from the rate limiter's map.
- `WithOrgContext`, `Store.Incr`, `Store.Expire` and `RateLimit` have no caller in
  the server; they are modelled as their callers would find them.
- `created_at` is the time at which an insert began, so a note can commit after one
  that is listed above it (`Overtaking`).

## Runs

History variables (`overlapped`, `admitted`, `burned`, `dead`, `refused`,
`parent` of a session, `since`, `stayed`, `came`, `went`, `disturbed`, `passed`,
`abandoned`) record what happened for the properties; no guard reads them.
`mishap` (in `PooledWork`), which tells a failure PostgreSQL or the network causes from
one of the context or the pool, is one too, but for limiting a callback to one failure.

| Run | Instance | Shows |
| --- | --- | --- |
| `OrgSerial` | 3 users, 2 names, all roles, cap 2, one worker | one request at a time the service refines `OrgAtomic`, in which the cap holds and an owner remains |
| `OrgConcurrent` | the same with three roles and two workers | checks hold until the write unless overlapped; a write nothing overlapped is a step of `OrgAtomic`; lock-out and changes to a deleted organisation need an overlapped request; the cap is passed by at most the other workers; an acknowledged role change that nothing overlapped took effect |
| `Invites` | two guests, one invite, one worker, 2 users, cap 1 | spent once, never late; the cap is passed by spent invites only; a deleted organisation gains members only so; invites lock nobody out |
| `SessionRaces` | 2 workers, 3 tokens, one account, 1 visitor, an access token lives 1 tick | revoked before replaced, also when a failure comes in between; an acknowledged refresh leaves one usable token; reuse bounded by the requests in flight; dead tokens refused; access ends a lifetime after the last session |
| `NotesConcurrent` | 2 workers, 2 notes, 3 users of which two share an organisation | refines `NoteStore`; of many deletes one is acknowledged; an edit acknowledged is in the note |
| `NotePages` | 3 notes of one user, pages of 1 or 2, integers of 3 bits | a walk misses at most as many of the notes that stayed as left, and repeats at most as many as came; its offsets never wrap; a page nobody wrote during is a snapshot |
| `ServerLifecycle` | 2 requests of one statement and a resolver, 1 connection, 6 settings of four kinds | a failed start closes what it dialled; a clean exit answered all; a signal at any moment of the start ends it; shutdown ends; every request is answered |
| `PooledWork` | 2 uses, 1 connection, 2 organisations, 2 statements | a callback runs with its organisation's setting; nobody else sees it; what is returned is what was kept; the end of its request loses no audit entry; every use ends and gives its connection back |
| `RateWindows` | a client on two ports and one without, limit 2, window 2; one counter of `Incr` with two callers | refines `FixedWindows`; at most `2 * Limit - 1` in a span of a window; a refused client gets in again; a counter that never expires was abandoned |

Of the type invariants the runs check two: `Server!TypeOK`, which holds the accounts
of the pool, and `NoteListing!TypeOK`, which relates the feed and what a client was
shown to the notes created. The others, and `CapRespected`, are proved below for every
value of the constants and no run repeats them.

Three runs show where the program does other than a document or comment says
(`findings` quotes the lines):

| Run | Shows |
| --- | --- |
| `OrgOwnerRace` | two owners leave at once: none is left |
| `SessionReuse` | two refreshes of one token, two new pairs |
| `ServerAudit` | the audit middleware's context never has the claims: nothing is logged |

Further disagreements of code and document that the models show, but that have no
run of their own:

- *Invites and the cap.* `features/101-multi-tenancy/README.md:235` says limits are
  enforced before operations; `AcceptInvite` does not look at the cap, so one invite
  to a full organisation passes it (the `Spent` term of `InvitedOvershootBounded` is
  needed without any race). Two additions at once pass it without invites
  (`OvershootBounded` is tight: `Cap - 1 + Workers` is reached).
- *A burned invite.* `features/102-rbac/README.md:222` says the user is added on
  acceptance. Marking the invite and inserting the member are two statements
  (`invite_service_impl.go:59`, `:63`); when the second fails the invite is spent
  for nobody, and a retry is answered not found. `SpentOnce` has the case as
  `burned`.
- *A logout that failed.* `auth/service_impl.go:100` says "Logout invalidates the
  refresh token". Any failure of the lookup, a lost connection too, is taken for
  "already gone" (line 105) and answered 204; the token stays usable
  (`AuthSessions!Fail`).
- *Pages.* `features/010-notes/README.md:79` and `docs/ARCHITECTURE.md:177` say
  listing is cursor-based; it is by offset, which is why a walk can miss and repeat
  notes at all. `int32((page-1)*pageSize)` wraps: a page far beyond the end is
  answered with an error or with another page. `NotePages` asks for such pages, and no
  property constrains their answers; `WalksStayInRange` says that a client that only
  asks for the next page after a full one does not get there.
- *The rate limiter.* `ratelimit.go:15` and `features/098-security/README.md:43`
  say "sliding window". The windows are fixed, so more than the limit
  passes in the span of one: up to `2 * Limit - 1` at the seam of two, which is reached
  (`LessThanTwice`). Not twice the limit: the second window opens strictly after the
  first has ended, when the request that opened that is more than a window ago. The
  limiter is not in `applyMiddleware`.
- *Configuration.* `config.go:81` says Load fails "if any required variable is
  missing or invalid", and line 168 that validate will surface a missing one. It
  looks at four settings only; a missing `DATABASE_URL` goes on to pgx's defaults,
  and a number that does not parse is replaced by the default. The pool's size
  and lifetimes are `DefaultConfig`'s; the `DB_*` settings are not used. `Startup` has all
  this but the last; a property that no value is replaced would be false, and one that
  the four are looked at would repeat `validate`, so there is none.
- *Token ids.* `features/007-auth/README.md:50` says the JTI is tracked to prevent
  reuse of a token. `Sign` puts an id into every access token (`jwt.go:41`) and nothing
  stores or compares it: an access token can be used any number of times until it expires,
  after a logout as well, which is why `LockedOutInTime` speaks of a lifetime.
- *No cap.* `org/model.go:16` says a nil `MaxMembers` is unlimited; `AddMember` then
  takes the plan's cap (`service_impl.go:65`, `RoomFor`). And zero, which "means
  unlimited" for a plan (`limits.go:10`), admits nobody when `max_members` holds it.
- *WithOrgContext.* COMMIT runs after a failed callback as well, so what it wrote is
  kept unless the failure was a statement's; and if the callback overlooks that a
  statement failed, COMMIT answers without an error and nothing is kept
  (`ReportsTruly` names both).
- *A member who accepts an invite* keeps the old role and is answered 204, though
  `invite_service.go:15` says the user is added with the invite's role
  (`AddInvitedMember` is the `ON CONFLICT DO NOTHING` of `org.sql:33`).
- *Two e-mails with one slug* (`a.b@c.d`, `a-b@c.d`) cannot both register: the second
  is told that it is registered already (`auth/repository_pg.go:43`).

### Bounds

Two workers are enough for what the checks are about: one request between two
statements of another; what depends on their number (`OvershootBounded`,
`BoundedReuse`) is proved for any. Three users give caller, target and a third
who acts in between; two owners and another member exist at once. Cap 2 is met,
and passed by one. One invite and two guests race; several invites would only be
independent copies, since no statement relates two of them. Three tokens let one be
replaced twice at once, or twice in a row; one visitor, since visitors do not see
each other, and one account, since the statements of one do not touch another's
rows; `Lifetime` 1 is the least at which a token can outlive its session, and the
proof is for any.

Three notes and pages of two (the default size here, below a maximum of 3) make a
walk of two pages with a note to come or to go in between; with pages of one it is
three. `Int32Max` 3 makes page 5 wrap to a negative offset with pages of one
and
to the first page's with pages of two. There are no more notes than that
(`ListingAssumption`): the program does not enforce it, but 2^31 notes of one user are
out of its reach, and `WalksStayInRange` would not hold of them. `Overtaking` 1 lets
one later note be overtaken; more would only be sequences of the same. The proofs of `NoteListing` take none of these bounds.

One connection makes requests queue, and in `PooledWork` makes every use get the
connection another has left. Two statements in a callback let the first be done
when the second fails. Each setting is unset, good or bad, whatever its kind; two
secrets, so that one alone can be at fault, a required setting besides the URL that
nothing checks, one enumerated and one parsed. `Limit` 2 and `Window` 2 give a window
a beginning, a middle and an end; counts beyond `MaxCount` 3, one more than the
limit, are not told apart, since only the comparison with the limit is used.

`Invites`, `Tokens`, `NoteIDs`, `Requests` and `MaxStatements` bound what can be
created: when they are used up the creating statement can only fail, which it
always may. `CHECK_DEADLOCK FALSE` stands in the `Server*` configurations, where
the process ends, and in `PooledWork`, where the calls return and the pool closes.
Symmetry is left out where liveness is checked.

### Fairness

Safety needs none. `ServerLifecycle` assumes weak fairness of the end of the
shutdown, of the pool's granting what is released, and of each request's own next
step: goroutines run, pgxpool serves its waiters, and the database ends every
statement (`pool.Close` on the forced path relies on the last one: it waits for
connections in use before `os.Exit(1)`). Of the start it assumes that main goes on,
and that the Ping ends once a signal has cancelled its context, which pgx sees to;
without a signal it may wait for ever, since `database.New` sets no deadline.
Signals, new requests and clients that give up are not assumed to come.

`PooledWork` assumes that each call takes its next step, callbacks returning
included. Weak fairness of `Acquire` is enough with these bounds: when the other
call has returned, the connection stays free. `RateWindows` assumes that time passes
and that the clients keep asking, which is what `RefusedPassesLater` is about.

## Proofs

TLAPS checks, for every value of the constants within the named assumptions
(`MaxMembersAssumption`, `RolesAssumption`, `SetsAssumption`, `GuestsAssumption`,
`LifetimeAssumption`, `ContentsAssumption`, `ListingAssumption`, `BoundsAssumption`,
`SettingsAssumption`, `LimitAssumption`, `KeysAssumption`, `PoolAssumption`):

| Module | Theorems |
| --- | --- |
| `OrgMembershipProofs` | `TypeCorrect`, `ChecksHoldInvariant`, `AtomicWrites`, `LockoutOnlyByOverlap`, `DeletedOrgFrozen`, `OvershootIsBounded`, `AcknowledgedChangesHold`; with one worker `SerialImplementsAtomic`, `SerialKeepsOwners`, `SerialRespectsCap` |
| `OrgInvitesProofs` | `InviteTypeCorrect`, `InviteSpentOnce`, `LateIsTooLate`, `InvitedOvershootIsBounded`, `InviteChecksHold`, `DeletedTakesInvited`, `InvitesLockNobodyOut`, `InviteAtomicWrites`, `InviteAcknowledgedHold` |
| `AuthSessionsProofs` | `TypeCorrect`, `RevokedBeforeUse`, `ReuseIsBounded`, `DeadAreRefused`, `RefreshExchanges`; with one worker `SerialSingleUse`; of access tokens `AccessKeepsSessions`, `AccessTypeCorrect`, `LockedOut` |
| `NotesProofs` | `TypeCorrect`, `ServiceImplementsStore`, `DeletesOnce`, `EditsHold` |
| `NoteListingProofs` | `InvHolds`, `TypeCorrect`, `WalksInRange`, `SkipsBounded`, `RepeatsBounded`, `Snapshots` |
| `ServerProofs` | `TypeCorrect`, `ExitIsClean`; of the start `StartupTypeCorrect`, `ExitClosesItsPool` |
| `PooledWorkProofs` | `TypeCorrect`, `Scopes`, `Contained`, `Reports`, `AuditSurvives` |
| `RateLimitProofs` | `TypeCorrect`, `EverlastingOnlyIfAbandoned`, `UnderTwiceTheLimit`, `ImplementsFixedWindows` |

**Membership.** `TypeOK` carries `Stage`: which requests can be at which
statement. Each reading statement is shown to end in one of two ways
(`ReadOutcome`): it refuses, or proceeds with the checks made so far still true
and its own added; each writing statement (`WriteOutcome`) ends its request and
marks the others overlapped if it changed a row. With `TypeOK`,
`ChecksHoldUnlessOverlapped` is then inductive, and the three action properties
follow from it: a write whose checks hold is a step of `OrgAtomic`, so a step that
is not must have been overlapped. With one worker `overlapped` stays false, which
gives the refinement. `OvershootBounded` is inductive because counting admits a
worker only below the cap, so at most the other workers stand between count and
insert, and an insert moves one worker from `Inserting` to `Members`; with one
worker nobody else does, and the cap itself is what is left.
`AcknowledgedRoleChangeHolds` needs to know whose step an answer is: a request that
is under way has none yet (`BusyUnanswered`), so the answer "ok" to a worker at its
write is that write's, and its target, found by the request and still there since
nothing overlapped, has the new role.

**Invites.** `SpentOnce` is stated in its inductive form: an invite is marked
accepted exactly when one guest holds it, or one user was inserted for it, or it
was burned, and these exclude each other. Only `AcceptOrgInvite` creates a holder,
and only of an unmarked invite. `LateNeverSpends` is strengthened to `LateIsRefused`: an
acceptance that is late has an expired invite, which stays expired, and is at its
lookup or before it, which compares `expires_at` and refuses. `InvitedOvershootBounded`
takes the membership's count further: the guests that hold an invite and have yet
to insert are counted to the load, and each stands for one spent invite.

The action properties rest on the membership's: a step of the whole is one of
`OrgMembership`, or `AddInvitedMember`, or leaves the organisation, its members and
the workers alone (`InviteStepCases`). `AddInvitedMember` marks every membership
request under way as overlapped if it inserts, which keeps
`ChecksHoldUnlessOverlapped` (`InviteChecksHold`) and with it what the membership's
writes promise (`InviteAtomicWrites`, `InviteAcknowledgedHold`); it takes no member
away and changes no role, so it cannot lock anybody out; and it is the step of a
guest whose invite is in `admitted` from then on, which is what
`DeletedOrgTakesOnlyInvited` lets through.

**Sessions.** `UsedIsRevoked` needs only the types. `BoundedReuse` counts
children, requests that have deleted and requests that have found the token. A
request that finds the token finds it live, so by `UsedIsRevoked` there is no
child yet, and all the others are workers; every later step keeps the sum or
lowers it. `DeadTokensRefused` rests on dead tokens staying dead;
`RefreshRotates` on `UsedIsRevoked` and on the new token being unknown before.

**Access tokens.** Each step of `AccessTokens` is a step of `AuthSessions` or leaves
it alone (`AccessKeepsSessions`), so its theorems carry over. `LockedOutInTime` needs
`held[e] + since[e] <= Lifetime`: what the clients of an account hold has at most
the lifetime left that has not passed since it last had a session or a request that
was let in. A new token is delivered by such a request, when `since` is 0 (this
needs `Entitled(e) => since[e] = 0`), and a tick takes one from the first term and
adds one to the second.

**Notes.** `TypeOK` says that whoever is about to write is the note's owner;
owners never change and the write repeats `deleted_at IS NULL`, so each write is
the store's step whatever came in between. No auxiliary invariant is needed.

**Listing.** The listing is a set of notes put in order by their places in the index;
a page is the notes whose rank, the number of listed notes before them, lies from the
offset on. Ranks need no induction: an injection of a finite set into an interval of
its own size leaves nothing out (`RankOnto`). A write changes the listing by one note
at most and keeps the order of the others (`Change`), so it moves every rank by one at
most, and at most one note across a given offset. Hence, of a walk that reads on from
an offset, what it has missed (the notes that stayed, were not shown and have a lower
rank) grows by one only when a note went, and what it will be shown again (the notes
shown that have a higher rank) only when one came: that is `Standing`. A page takes the
offset to its own end and the notes on it from the missed to the shown; between the
statement that reads it and the client that looks at it, it is `Given`. A page that is
not full reaches the end of the listing, where every listed note has a lower rank, and
so does one that reaches the total; the walk is then `Complete`. A full page has as many
notes as its size, all distinct, so the next offset is at most the number of notes,
which fits an `int32`. That the rows are the page asked for, if nothing was written
since, is an invariant as well (`RowsAreSnapshot`).

**Server and start.** `TypeOK` includes the pool's accounts (`PoolOK`).
`GracefulExitIsClean` is not inductive alone: `Settled` adds that the pool is open
until `main` closes it, that nobody is refused by an open pool, and that a pool
closed on the graceful path has no active request. `Startup`'s variables are
related to these by `BootOrder` (what has been dialled at each step, and what of the pool
an exit leaves); every step of the start is `Server!Start` or changes nothing of the
server, so `Server`'s invariants can be used (`StartupServes`).

**Pooled work.** The invariant says of every connection that is free that it is in
no transaction, of every connection that it has no setting but a transaction's own,
and of every call (`CallOK`, `HeldOK`, `Outcome`) what its connection, its rows and
its result can be at the statement it has reached. A step changes one call and one
connection at most (`SameConns`, `OneConn`), so the other calls' parts hold because no
two share a connection, which is in `TypeOK`. `AuditOutlivesRequest` is about a step that
fails a `Record`: the context it runs under never ends, so the step is an `Acquire` of a
pool that is closing or could not dial, or an insert on a lost connection, or one that
PostgreSQL refused. Whichever it is, the entry is lost without a trace, since `Record`
drops the error.

**Rate limiter.** The mapping takes a counter that is in force for an open window
and caps its count at the limit. It needs `ClientsExpire`, that a client's counter
always has a time to live, for which the two kinds of keys have to be apart
(`KeysAssumption`): the limiter's have the prefix `rl:`. For `LessThanTwice` the
invariant divides what a client got through by the window it is in
(`PassesCounted`): the passes since that was opened (`Recent`) are no more than its
counter says and no more than the limit, and the one that opened it is among them;
those from before (`Former`) are less than the limit. The division moves with the
clock, as the passes do. When a window has ended everything in it was recent and what
had been former was forgotten; the tick that ends it forgets the pass that opened it as
well, and leaves less than the limit. When a window opens all earlier passes become
former.

Only model-checked are the liveness properties (`ShutdownEnds`, `AllAnswered`,
`EarlySignalEnds`, `RefusedPassesLater`, `AllReturn`), which are out of the prover's
reach. Every other property that a passing run checks is a theorem. The three
properties of the runs that expect a violation are false of the code; what holds
instead of the first two is `LockoutOnlyByOverlap` with `SerialKeepsOwners`, and
`ReuseIsBounded` with `SerialSingleUse`.

## Not modelled

Formats, hashing, the arithmetic of signing and random tokens (a token is right or
wrong, new tokens are new); the columns no decision depends on; GetOrg and
ListMembers, which return rows as they are; the bodies of the health answers and
the liveness probe, which is always true; the honeypot and IP blocker, wired to a
no-op; the compliance recorder and the Valkey client, which nothing constructs;
migrations, a list of files run once in order; header, logging and metrics
middlewares, which keep no state; generated code. Row-level security appears in
`PooledWork` only: the repositories do not use `WithOrgContext`, and whether the
policy of migration 005 applies to their statements depends on the database role.

## Plan

1. Done: membership and its atomic specification, invites on top of it, sessions
   and access tokens, notes, their store and their listing, the server and its
   start, the uses of its pool, the rate limiter; the proof of every property of
   theirs that is not liveness.
2. When the code gets there: `WithOrgContext` under the note repository (compose
   `Notes` with `PooledWork`), the limiter in the middleware chain, and more than
   one process on one database, which the models of the services already allow and
   `Server` does not.
