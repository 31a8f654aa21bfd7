# A TLA+ model of ghost-sso-proxy

ghost-sso-proxy is an Envoy ext_authz gRPC server that lets staff who are
logged in to Authentik into Ghost's admin without a second login. For each
request it asks Authentik who the browser is, checks that this is active Ghost
staff, finds or creates a row in Ghost's own `sessions` table, signs a session
cookie as Ghost would, and plants it in the browser.

This directory models that system in TLA+, checks small instances with TLC and
proves, for every instance, the safety of the store, the service, the process
and the set-up script, that the service implements its abstract
specification, and that the whole system, from the browser to the table,
implements a specification a site owner can read: a browser is admitted for a
bounded time after it was logged in as active staff. The proofs are checked by
TLAPS. `PROJECT.json` maps every definition to the lines it translates.

## 1. Inventory

| Component (source) | State | Operations | What makes it correct |
|---|---|---|---|
| **Session store** (`internal/adapters/secondary/mariadb/session_store.go`) | pool, signing secret read once at start-up, `sessionMaxAge`; Ghost's `sessions` table is shared by all replicas and by Ghost | `FindByUserID` (SELECT then UPDATE), `Create` (INSERT), `NewSessionStore` | hands out the caller's own session, verified and unexpired; does not revive what is too old or removed |
| **User repository** (`.../user_repository.go`, `core/domain/user.go`) | none (Ghost's `users`) | `FindByEmail` | status as of the query |
| **Auth service** (`core/service/auth_service.go`) | none of its own | `EnsureSession` | only active staff get sessions, calls reuse rather than duplicate, every call returns |
| **ext_authz server** (`internal/adapters/primary/extauth/server.go`) | `maxAgeDays` | `Check`: pass on, redirect, redirect with cookie | fails open without ever planting a wrong cookie; cookie and row lifetimes agree |
| **Authentik client** (`.../authentik/forward_auth.go`) | HTTP client with a 5 s timeout | `Check`: e-mail, redirect with Set-Cookies, error | passes the login flow's state cookies on |
| **Process** (`cmd/main.go`) | `errCh`, signal context | start-up, serve, graceful stop | clean shutdown exits 0 and drains |
| **Configuration** (`config/config.go`) | — | `Load` | ranges of ports and of SESSION_MAX_AGE_DAYS |
| **Set-up script** (`scripts/authentik-setup-ghost.py`) | Authentik's objects | create provider, application, outpost assignment | can be re-run; "Done" is true; undoes others' changes only in a race |
| External: browser, Envoy, Authentik, Ghost | cookie jar; login; PKCE cookies; `sessions`, `users`, `settings` | modelled as far as the code relies on them | — |

How they interact. Envoy calls `Check` over gRPC; `Check` calls Authentik over
HTTP and then `EnsureSession`, in the same goroutine; `EnsureSession` runs at
most four SQL statements, each of them its own implicit transaction. Calls
share nothing in memory that changes. All their interaction is through the
database, which Ghost also writes, and through the browser's cookie jar.

What is hard about it:

* lookup and insert are separate statements, with no uniqueness on `user_id`,
  run by overlapping calls of several goroutines and replicas;
* the UPDATE acts on a row selected earlier, does not look at how many rows it
  touched, and carries a clock reading older than its own arrival;
* an UPDATE or INSERT can commit and its reply be lost;
* `created_at` is never refreshed, `session_data.cookie.expires` is, and the
  browser's Max-Age runs on a third schedule: three lifetimes that must agree;
* staff status, signing secret and Authentik login are each read once and can
  change before the answer is used;
* both error paths of `Check` let the request through to Ghost;
* the browsers of one user share a row, and one browser may change users;
* shutdown races with the start of `Serve`, and has to wait for calls that
  wait for Authentik or for one of five database connections;
* the set-up script looks, then writes, at every step, can stop at each, and
  writes back a list an administrator edits too.

`PROJECT.json` `hazards` has each of these at its line.

## 2. Modules

    SessionService          what EnsureSession promises (abstract)
       ^  implemented by (Service == INSTANCE SessionService WITH ...)
    AuthService             EnsureSession; the `users` table
       |  EXTENDS
       v
    SessionStore            the table, FindByUserID, Create, Ghost's writes, the clock

    Admission               what the proxy promises the site's owner (abstract)
       ^  implemented by (Promise == INSTANCE Admission WITH ...)
    ExtAuth                 EXTENDS AuthService: Server.Check, Authentik, browsers,
                            secret rotation, restarts
    Replica                 one process: start-up, serving, shutdown, pool, lifetimes
    SetupScript             authentik-setup-ghost.py

    MCSessionStore, MCAuthService, MCExtAuth, MCReplica     instances for TLC
    SessionStoreProofs, AuthServiceProofs, ServiceProofs,
    ExtAuthProofs, CookieProofs, AdmissionProofs,
    ReplicaProofs, SetupScriptProofs                        theorems

`Replica` and `SetupScript` stand alone. `Replica` looks at the same calls as
`AuthService`, but as users of Authentik's and the database's time and of the
process they run in, not at what they read and write; the two views share no
variable of the code but the connection pool, whose only effect on `AuthService`
is delay, which its statements may have anyway.

### SessionStore

`sessions` is the table, a set of rows with the columns and `session_data`
fields some reader tells apart. `op[c]` says where call slot `c` is: a statement
outstanding (`select`, `update`, `insert`) or a result the caller has yet to
look at (`found`, `missing`, `created`, `failed`).

| Action | Code |
|---|---|
| `FindByUserID`, `Create` | the calls, up to their first statement |
| `SelectRow`, `SelectNone` | the SELECT: a most recent row within the cutoff, or `sql.ErrNoRows` |
| `Update`, `UpdateReplyLost` | the refresh, with its reply or without |
| `Insert`, `InsertReplyLost` | the INSERT, likewise |
| `StatementFails` | any `return nil, fmt.Errorf(...)` with no effect on the table |
| `Return` | the caller takes the result |
| `GhostLogin`, `GhostTouch`, `GhostDestroy` | Ghost's express-session middleware |
| `Tick` | the wall clock |

*Time.* A tick is a unit no shorter than the table's timestamp resolution. A
statement's parameters come from `time.Now()` some time before it reaches the
database, so every instant used is *some* reading since the call's last reply
(`ClockReads`), and `NewRow` takes two, as `Create` does (one in
`buildSessionData`, a later one for `created_at`). No step of a call takes more
than `MaxLag` ticks: Envoy's ext_authz timeout cancels the context, and
`MaxLag` also stands for the skew between replicas' clocks, the code having no
other means against it. Were `MaxLag` unbounded, no statement about lifetimes
would hold.

*Reply lost.* When a context is cancelled the driver returns an error and the
server may still apply the statement. A statement that lands after its caller
has left is a slot that stays in flight: slots are not RPCs, only places where
a statement may be outstanding.

*Ids.* `generateSessionID` draws 24 random bytes. `used` records the ids drawn,
and no id is drawn twice. This is the one probabilistic fact taken as certain.

*Replicas.* `MaxAge[c]` is the configured age of the replica that runs slot `c`;
all that is assumed is `MaxAge[c] >= MinAge > 0`.

### AuthService

`req[c]` is the `EnsureSession` call in a slot: waiting for `FindByEmail`
(`user`), inside the store (`store`), or with one of its four kinds of return.
`staff` is what the `users` table says, and changes at any time
(`StaffChange`). Two history variables serve the properties: `lastActive` and
`minted`. `Linked(c)` ties `req[c]` to `op[c]`; it is part of the type invariant. A user is identified with the e-mail address. `AuthSpec` is shown
to be a client of the store (theorem `AuthIsStoreClient`), so what is proved of
the store's unconstrained callers holds of it.

### SessionService

`EnsureSession` without tables, statements and clocks. A request is `asked`,
then `cleared` by a status that was active, then either refused or granted a
session: a registered one of the user's, one that has been removed a moment
ago, or a fresh one, registered and granted in one step. A grant may also
register a session and come to nothing: the INSERT whose reply was lost.
What it forbids is what a reader of `EnsureSession` would not expect to see
from outside: a session without an active status before it, another user's
session, a registration by a call that was not cleared, a change of mind.

The mapping (`AuthService`, "Refinement"): `live` is the table's pairs of id
and user, `issued` the ids drawn, and `Asking` reads the state of a request off
`req[c]` and `op[c]`. The session of a grant is fixed where the code fixes it:
at the UPDATE or INSERT, not at the return; the SELECT and the miss are
stutters.

### ExtAuth

`check[c]` is the `Check` RPC in a slot: waiting for Authentik or for
`EnsureSession`. `Receive` snapshots what the request's Cookie header carries
(the Authentik session, the ghost cookie or not), so a logout or a switch of
accounts can overtake it; `AuthentikAccepts`/`AuthentikRedirects`/`AuthentikFails` are the three
outcomes of `Client.Check`, `PassThrough` and `PlantCookie` the two endings
after `EnsureSession`. Several requests of one browser can be in flight, each
on its own replica, whose signing secret `loaded[c]` was read at start-up. The
environment logs in (only with the state cookies of the redirect), logs out,
deletes a rejected cookie (the documents' "stuck session" remedy), rotates
Ghost's secret and restarts replicas. `Accepted(b)` is Ghost's side of the
bargain: signature, row, expiry, `verified`.

`seen[b][u]` is a history variable: the last instant browser `b` was logged in
to Authentik as `u`. `CookieIsConfirmed` needs only whether there is one,
`LogoutIsBounded` how long ago it was. `bare[b]` is another, the last instant `b`
sent no ghost cookie. `StuckIsBounded` compares it with the clock: the fast path
looks at a cookie's name only, so a cookie Ghost rejects keeps a browser out,
but for Max-Age and the six phases of a call at most. It speaks of `ExtSpec`, in which nobody
has to delete a cookie or restart a replica.

The jar holds the cookies the proxy plants. A session Ghost creates itself
(`GhostLogin`) is in the table, and the proxy may reuse it, but its cookie
is taken to be in another browser.

An answer reaches the browser in the tick it is given in (`ExtTime`): network
delay after `EnsureSession` is part of the step before it. Authentik's client
gives up after 5 s and the caller's deadline ends the query for the user, so
both phases last `MaxLag` at most (`since` is when the phase began).

### Admission

The whole system without requests, rows and statements. A browser has a pass, of
a user and until an instant, or none. `Admit(b, u)` needs that `b` was logged in as `u`
at most six latencies ago and that `u` was active staff at most four ago; `Withdraw` takes
passes away, of several browsers at once because they may share a row; nothing
else changes a pass. It forbids what a site owner would not want to see: a
pass without a recent login and a recent active status, and a pass that comes back
after it was withdrawn, as it would if a refresh re-inserted a row Ghost had removed
under a cookie that is still in the jar. `PassesAreBounded` follows: a logout, an
account switch, a suspension or a removal from the staff has had its effect
when the pass's lifetime and those steps have gone by.

The mapping (`ExtAuth`, "Refinement of Admission"): the pass of a browser is what its
cookie is worth (`Worth`), the user of the row it names until the cookie's Max-Age has
run out, and nothing if there is no such row. The histories `lastActive` and
`seen` are shared. `PlantCookie` is the one step that admits; Ghost's removal
of a row withdraws the passes of all browsers that share it; every
statement and return in between is a stutter. A signature that no
longer verifies is not a withdrawal in this view: the pass is what the browser
holds, and `PlantingAdmits` says when Ghost honours it.

### Replica

`main` is where the main goroutine is: the four stages of start-up, the
`select`, inside `GracefulStop` (`draining`), at `<-errCh` (`result`), gone.
`serve` is where the goroutine is that calls `Serve`.

| Action | Code |
|---|---|
| `Load`, `ConnectAndRead`, `Listen`, `BootFails` | `run` up to the `select`, in its order, and its error returns |
| `StartServe`, `AcceptFails`, `ReturnNil`, `ReturnError` | the goroutine: `Serve` begins, breaks, returns; send and close of `errCh` |
| `StopServing`, `Drained`, `ReturnResult` | `case <-ctx.Done()`: `GracefulStop` begins and returns; `return <-errCh` |
| `ServeFailed` | `case err := <-errCh` |
| `Accept`, `AuthentikReplies` | a `Check` call comes in; Authentik's reply or time-out |
| `TakeConnection`, `StatementEnds`, `GiveUp` | one of up to three statements gets a connection, ends and gives it back, or the context is cancelled first |
| `EnvoyConnects`, `EnvoyLeaves`, `Terminate`, `Kill`, `StartAgain` | Envoy and the kubelet |

`Serve` after `GracefulStop` returns `ErrServerStopped`; `Serve` during it
returns nil once `GracefulStop` has finished; both are gRPC's contract.
The buffered channel keeps one value, so the send never blocks and send and
close are one step. A SIGTERM before `NotifyContext` kills the process (`Kill`).

`RowAge`, `OriginalAge` and `CookieAge` are the three products that
SESSION_MAX_AGE_DAYS enters, in nanoseconds, milliseconds and seconds, in integers
that wrap around at `Half`; the constants `Second`, `Milli` and `DaySecs` are parameters, so that
a small instance overflows too. `AgesAgree` says that they are one lifetime as
long as it fits a `time.Duration`, and what happens at the first overflow, which
`Load` does not exclude: rows are born expired while the cookies that name them
live.

### SetupScript

One step per API request: `FindFlows`, `FindProvider`/`PostProvider`,
`FindApp`/`PostApp`/`PatchApp`, `FindOutpost`/`PatchOutpost`. A run keeps what
it keeps in the code: the provider's key and the list it read. Every request can
fail (`Fail`), every write can be applied and its reply be lost (`Applied`),
Authentik rejects a name or slug that is taken (`Reject`), and a run can be started
from any terminal at any time, dry or not. The administrator assigns other
providers to the outpost and takes them off; he leaves the script's own objects
alone. `SetupInit` is any state an older set-up may have left. The history
`missed[r]` has the providers that were assigned to the outpost, or taken off it, by
others since run `r` read its list: writing the list back, the run may undo
those changes (the lost update is real), but no other (`LossIsARace`).

Flows are stable and found or not; pages, tokens and texts are left out.

## 3. Runs

| Run | Instance | Shows |
|---|---|---|
| `store_safety` | 2 calls, 2 users, 2 ids, Ghost active, time to 4 | ownership, usability, bounded reuse, no resurrection |
| `store_excluded` (violation) | 1 call, no Ghost, time to 4 | the cutoff excludes rows that have not expired |
| `auth_concurrent` | 2 calls, 1 user, 2 ids, time to 2 | duplicates are bounded, and come from overlap only |
| `auth_duplicates` (violation) | as `auth_concurrent` | two overlapping calls insert twice |
| `ext_lifetimes` | 2 calls, 1 browser, time to 3 | the cookie does not outlive its row |
| `ext_identity` | 2 calls, 2 users, 1 id, time 0 | a browser gets only sessions of users who logged in from it; the calls implement `SessionService` |
| `ext_admission` | `CalmSpec`, 1 call, 3 ids, 1 rotation, `MinAge` 3, time to 3 | staff get in, again and again; every call returns; a replica that knows the secret plants only cookies Ghost accepts |
| `ext_long` | 1 call, 1 user, `MinAge` 2, time to 8, staff changes, logouts | delay of a revocation; how long a logged-out or suspended user's cookie, or one Ghost rejects, is sent; the system implements `Admission` |
| `ext_cookie_skips` (violation) | 1 call, time to 2 | Authentik is asked before the cookie is looked at |
| `ext_mixed_age` (violation) | 2 calls with different ages, 2 browsers, no latency | a refresh can shorten a row below a cookie already planted |
| `replica` | 3 calls, 2 connections, 4 values of SESSION_MAX_AGE_DAYS, 6-bit integers, fairness | what an exit status means; shutdown completes; calls end; connections come back; lifetimes agree until they overflow |
| `setup_script` | 2 terminals, 1 other provider, fairness | "Done" is true; no run undoes it; a run undoes others' changes only in a race; dry runs do not write; re-runs converge |

Bounds. Two calls are enough for a check-then-act race, for two refreshes out
of order and for a write overtaken by another; that nothing needs three is
what the theorems show. `MinAge = MaxLag = 1` makes
an age and a latency collide within a few ticks, so expiry, the cutoff's
boundary and stale readings all occur. The latency margins are the smallest that
hold: with one tick less in any of `HandedOutUsable`, `ReuseBounded` (2 each),
`RevocationIsPrompt` and `SuspensionIsBounded` (4 each), `CookieMatchesRow`, `PlantingAdmits` (2 each),
`LogoutIsBounded` and `StuckIsBounded` (6 each), TLC finds a violation in an instance of the
same kind: the six are the phases of a call, Authentik's reply, the query for
the user, the SELECT, the miss, the INSERT and the return, the last four of which
are those of `RevocationIsPrompt`. `ext_long` has eight ticks, two for Max-Age
and one for each of the six; it also checks `ImplementsAdmission`, whose two guards speak
of four and six of them. Its one call and one user leave some of what these properties
say to their theorems: switches of accounts, rows shared by two browsers, rotations, and
the last latencies of `StuckIsBounded`, for which a first call has to plant its
cookie while a second one is under way (an instance with two calls, `MinAge` 7 and
thirteen ticks has a violation of the bound with five latencies; it is too large to be
explored in full, and not a run). `ext_admission` has `MinAge` 3, the least that `PlantingAdmits` speaks of:
with less, a row may have run out when its cookie is planted. `ext_identity` has a clock that stands still because the property is about who, not when;
then the calls' and users' interleavings can be explored in full; its one id
makes all of them compete for one row. In `ext_admission`, `LogoutElsewhere` removes the first session only, because each
removal costs one of the instance's three ids.
`replica` has one call more than connections, so calls wait for the pool; `SomeDays` has
values below, at and above zero, and the smallest that overflows a Duration.
`setup_script` has two terminals because each hazard is a matter of two parties;
the theorems are for any number. Symmetry is
used in safety runs only. Runs do not disable the deadlock check.

Fairness. `CalmSpec` makes the
assumptions that a promise of eventual admission needs, and no others: users
who keep making requests, finish a login they were redirected to, and clear a
cookie Ghost rejects; weak fairness of each call (a goroutine is scheduled,
and a statement always ends, because the caller's deadline makes
`StatementFails` possible at every moment); strong fairness of each *successful*
outcome, which says that Authentik, the database and Envoy fail transiently, not
for ever; and of `Restart` after a rotation, which is the remedy the documents
give. So `StaffIsAdmitted` takes the documented manual remedies, the cookie
deleted and the replica restarted, as given; what holds without them is
`StuckIsBounded`. Staff changes and Authentik logouts are left out there: with them nothing
is promised. `CallsReturn` is checked in the same run; it needs only the weak
fairness of the calls. That a statement ends is its assumption, not its result: the code sets no time-out
on its queries, so against a database that never answers only the caller's
deadline helps. The clock ends at `MaxTime`, when a whole cookie lifetime has gone by: the cookies and rows of
the first tick have run out, and a row may have done so before the cookie planted for it.

`FairReplicaSpec`: the two goroutines are scheduled; Authentik's reply comes or
the client's 5 s end; a statement ends; Envoy obeys GOAWAY. Nothing forces
`GiveUp`, `Kill` or a signal, so `CallsEnd` and `ShutdownCompletes` do not rest
on deadlines or on the kubelet. A connection is given to a waiter picked at random
by `database/sql` (strong fairness of `TakeConnection`: a call that finds a
connection free again and again gets one; without it a call may starve, and
`CallsEnd` fails). `FairSetupSpec`: a run makes progress, and the script is run
again whenever it has ended; failures are not excluded, but `RerunsConverge` speaks
of behaviours in which they stop (`Breaks`).

## 4. Proofs

`SessionStoreProofs` assumes only `StoreAssumption`; `AuthServiceProofs` and
`ServiceProofs` also `AuthAssumption`, that the set of call slots is finite (it
is counted), and `ExtAuthProofs` and `CookieProofs`
`ExtAuthAssumption` besides; `ReplicaProofs` assumes `ReplicaAssumption`, `SetupScriptProofs`
`SetupAssumption`. `AdmissionProofs` builds on `CookieProofs` and
`ServiceProofs` and assumes nothing more.

*The store.* No safety property of the store is inductive alone: that a found
session is usable depends on what was true of the row before the UPDATE, and on
no other call's late UPDATE or id having spoiled it. `StoreInv` is the
conjunction of `StoreTypeOK`, `UniqueIds` (rows have different ids, all of
them drawn) and, for every call, `CallInv(c)`: its clock has not run out of
`MaxLag`, and the row its `sid` names, if it is still there, is the user's, was
young when selected, and is refreshed late enough. The lemma `RowStep`
describes all that any action can do to an existing row: leave it, remove it,
or push its expiry to a reading no older than `MaxLag` plus at least `MinAge`.
With it, one step per action settles `CallInv` for the other calls. Theorems:
`StoreTypeCorrect`, `SessionOwnership`, `SessionUsability`, `SessionReuse`, and
the action property `SessionRemoval`.

*The service.* `AuthIsStoreClient` maps every step of `AuthSpec` to a step of
`StoreSpec` or a stutter, so `StoreInv` is available. `AuthInv` adds the tie
between `req` and `op`, a count (`SessionsBounded`: an insert moves one unit from
`Inserting` to `Young`, and a call that misses has just seen an empty window), the fact
that the young sessions a missing call knew have aged, and a chain of delays from the status check to the
hand-over. Theorems: `AuthTypeCorrect`, `DuplicatesBounded`,
`RapidRequestsReuse`, `RevocationBounded`.

*The refinement.* `ServiceImplemented` is `AuthSpec => ImplementsService`. Under
`AuthInv`, each action of `AuthNext` is shown to be one of `ServiceNext`, or a
stutter. The lemmas `AskBecomes`, `AskSame` and `Becoming` carry a change of
one call's `req` and `op` over to `Asking`; `SameRegistered` says that a
refresh leaves `Registered` alone. The interesting steps are the UPDATE (a
`Grant`: `AuthInv` gives that the id was issued and that a row still bearing it
is the caller's) and the INSERT (a `GrantNew`: `Register` of an id not issued, and
of the caller's own), with and without their replies.

*The whole system.* `ExtIsAuthClient` is `ExtSpec => AuthSpec`: every step of
`ExtNext` is one of `AuthNext` or leaves `authVars` alone, so what is proved of
the service, the store and the refinement holds behind Envoy too. That a browser holds only
sessions of users who logged in from it is not inductive by itself: between the login and the
cookie lie the request's snapshot, the reply of Authentik, six more steps, and the logouts, switches and
other requests that overtake them. `ExtInv` follows the identity along that way:
who is logged in was seen so (`BrowserInv`), the login a request carries was confirmed for
its browser, the service works for that login, and the session it
answers with is that user's (`RequestInv`, from `AuthInv`'s `Owns`). The lemma
`OwnersKept` says that no step changes whose a session is. Theorems:
`ExtIsAuthClient`, `ExtTypeCorrect`, `IdentityConfirmed`.

*How long a cookie lasts.* `CookieProofs` has two more inductive invariants, over
`ExtInv`. `LogoutInv` carries the chain of delays of `RevocationBounded` back to the browser:
`LagInv(c)` says how many latencies after its browser was last seen logged in,
and last seen without a ghost cookie (`LastSeen(c)` is the earlier of the two),
each phase of call `c` may begin (Authentik's reply one, the query for the user one,
then `Steps`), so a planted cookie is dated at most six after both, and `JarLag` keeps it
so although rows and logins change. `MatchInv` compares each row with the instant
a cookie was planted for it (`Matched`); the lemma `StaysMatched` shows, from `RowStep`, that
no write by another call or by Ghost spoils a row for an earlier cookie, and a cookie
is planted only when the row is `Fresh`. Theorems: `LogoutBounded`, `StuckBounded`,
`CookieWithinRowAge`.

*The promise.* `AdmissionImplemented` is `ExtSpec => ImplementsAdmission`. A step is an
admission, a withdrawal or a stutter only because of what is not visible in the step itself, so
the proof rests on three invariants (`AdmissionInv`, with `ExtInv` and `LogoutInv` in it):
rows keep their user and a row once gone stays away (`OwnersKept`), so what a kept cookie is worth is unchanged or
nothing (`PassKept`); the call that plants a cookie began when its browser was logged
in, at most six latencies ago (`LagInv`); and its user was active at most
four latencies ago, which is `ActiveLag`, carried through the statements by
`ActiveLagNext` from the delays of `AuthInv`. `PlantingIsAdmission` and `NothingPlanted`
are the two kinds of step, `StepIsPromised` has one case for each action of
`ExtNext`, and `AdmissionImplemented` adds the stutters.
`PromiseIsBounded` is proved of `Admission` alone, in six short cases (`PromiseStep`): a pass
ends at its lifetime after the admission, and both histories only grow.
`SuspensionBounded` then follows from the two by refinement, without looking at
`ExtAuth`'s steps again: after a suspension, which the fast path never
notices, a browser sends the user's cookie for Max-Age and four latencies at most.

*Planting.* `PlantedIsAccepted` rests on `MatchInv`: the row of a served session is `Matched` at
the present instant, so with `2 * MaxLag < MinAge` it has not run out when
its cookie arrives; it is verified, and the cookie is signed with the secret the replica knows. It
has two side conditions, that no other browser's logout has removed the row
since, and that latencies are short against lifetimes, and it speaks of the cookie planted
in this step. A restart after a rotation does not end the rejections of the cookies
signed before it: they still take the fast path by their name, and are rejected until their
browser drops them, which `StuckBounded` bounds.

*One system.* `RevocationBehindEnvoy` and `ServiceBehindEnvoy` restate what is proved of
`AuthSpec` for `ExtSpec`, under which their runs check it, and
`CalmIsSafe` says that `CalmSpec`, under which liveness is checked, is an
`ExtSpec`.

*The process.* `ReplicaInv` says that the free connections and the running
calls add up to the pool (`PoolIntact`), how `main`, `serve` and `errCh` are in
step (`InStep`: `closed` is seen only after `GracefulStop`, `error` only after a failure that
has a cause), and that a drained server stays drained (`StaysDrained`). Theorems:
`ReplicaTypeCorrect`, `CleanExitIsDrained`, `FailureIsCaused`, and, since `Load`
has looked at the days the rest of the process uses (`Loaded`), a product that fits
does not wrap around (`WrapFits`) and the next ones come out negative (`WrapOverflows`), `LifetimesAgree`.

*The script.* `RunInv(r)` says what run `r` relies on at its step: its key is
the provider's, the application points to it, and the outpost differs from
what it has seen only by what it missed. `Harmless` and `Noted` are
all that a step may do to Authentik; `OthersKeep` shows that they leave the
other runs' `RunInv` intact, so each action is examined for its own run only.
`StepsAreHarmless` collects that for every step; with it `SetupIsKept` shows that no
run undoes a complete configuration, however old what it has read. Theorems:
`SetupTypeCorrect`, `DoneMeansConfigured`, `LostUpdates`, `DryRunsOnlyRead`, `SetupIsKept`.

*Only model-checked.* Liveness (`CallsReturn`, `StaffIsAdmitted`,
`ShutdownCompletes`, `CallsEnd`, `RerunsConverge`), which needs
fairness and is out of the prover's reach. Every safety property of a passing run
has its theorem.

## 5. Where code and documents disagree

Each is a run whose expected outcome is a violation; `PROJECT.json` `findings`
quotes both sides.

* `ExcludedIsExpired`: the cutoff is on `created_at`, which no refresh moves, so
  an excluded session may be unexpired (comment at `session_store.go:117`).
* `NoDuplicateSessions`: overlapping calls do create duplicates (comment at
  `auth_service.go:61`). `SessionsBounded` and `NoRapidDuplicate` are what does hold.
* `CookieSkipsAuthentik`: Authentik is asked before the cookie is looked at
  (`docs/extauth-architecture.md:175` and `:87`).
* `CookieWithinRow`: changing SESSION_MAX_AGE_DAYS is not always harmless while
  replicas differ (`docs/extauth-architecture.md:365`). `CookieMatchesRow` states
  by how much the cookie may then outlive its row.

## 6. Left out

The HMAC and cookie encoding (an equal secret generation verifies, a different
one does not); logging; header layout; which malformed Authentik reply an error
stands for; e-mail and id of a user as different things;
idle and expired pool connections (`SetMaxIdleConns`, `SetConnMaxLifetime`), which change
cost and not outcome; the health service's constant answer; in the set-up script, the
provider's fields (a re-run finds the provider by its name and never compares
or patches them), an outpost other than the first found, and the time-out
`urlopen` does not have; the legacy ports under `core/ports/driven` and
`driving`, which nothing implements; build and container files.

## 7. Plan

Done: every module of section 2, with its runs and proofs, and the two
refinements. Left, in order:

1. `Admission` proved to follow from `SessionService` and the browser's steps
   alone, without the table, so that another store could be put in its place.
2. The pool of `Replica` with the statements of `AuthService` in one
   module, if the code comes to rely on more than the delay between them.
