# pwrap in TLA+

pwrap turns a Postgres cluster into a multi-tenant backend. `pwrapd`, the control
plane, creates a *project* per tenant (a role `p_<slug>` that owns a schema of the
same name), exchanges API keys for short-lived login roles, retires those roles
when they have expired, tells PostgREST which schemas to expose, and pushes the
changes of tenant tables to WebSocket subscribers. Several replicas of `pwrapd` may
run on one database. SDKs in Go, Python and TypeScript talk to it and then straight
to Postgres.

This directory models the parts of it that interleave, fail and restart. Paths below
are relative to the repository; `PROJECT.json` maps every definition to its lines.

## Inventory

| Component | State | Operations | What is hard, and what must hold | Modelled |
|---|---|---|---|---|
| Projects (`projects/`) | `projects` rows, tenant roles, schemas, stored passwords | Create, Delete, GetCredentials, ReencryptAll | Delete is one transaction that lists roles and then drops them while mints, sweeps and clients go on. Nothing of a deleted project may survive it; nothing of another may be touched. Passwords are encrypted by every replica that starts. | `Tenancy`, `Migrations` |
| Tenancy (`tenancy/`) | `ephemeral_roles` rows, login roles | Mint, Sweep, retireRole | retireRole is five autocommitted statements per role, run by every replica. No role without a row, no row forever, no object lost, no role dropped early, names never reused. | `Tenancy`, partly |
| API keys (`keys/`) | `api_keys` | Issue, Revoke, Verify | Verify and the use of its result are separate statements. | `Tenancy`, `Access`, partly |
| PostgREST bootstrap (`authsetup/`) | authenticator's memberships, `pgrst.db_schemas` | EnsureRoles, GrantTenant, RevokeTenant, RebuildSchemasList | Read-then-write without a lock, from every create, delete and start. The list must be the live projects. | `SchemasList`, partly |
| Realtime (`realtime/`, change-log trigger, SDK `subscribe.go`) | hub goroutine, subscribers' channels, connections | LISTEN loop, hydrate, fanout, Subscribe, Close | Lost notifications, full channels, reconnects on both sides. Order, at most once, filters, accounted losses; a closed subscription ends, an open one comes back. | `Realtime`, `Subscription`, partly |
| Process (`cmd/pwrapd/main.go`, `server.go`) | goroutines, connection pool | startup, shutdown | Who holds a connection when the pool closes. A signal or error must end the process. | `Pwrapd`, partly |
| Migrations (`migrations/`) | `migration_log`, the tenant schema | Apply, SweepStale, Status | Check, log row, DDL and completion are separate statements of a request that may be cancelled at each; a starting replica fails rows that look orphaned. What the log says must be true. | `Migrations` |
| Branches (`branches/`) | child projects, links, copied rows | Create, Sync, List | Six or more transactions without compensation, next to tenants' writes and deletions of either side. Rows go from parent to branch only; success means complete. | `Branches` |
| SDK client (`sdk/go/pwrap/client.go`) | current pool, its expiry, connections | New, refreshLoop, refresh, Close, WithUser, run | Refresh timing against expiry; the pool is swapped under load; connections change users. | `SdkClient` |
| SDK collections (`table.go`, `vector.go`, `geo.go`) | the tenant's rows | twenty calls | Some run with the user's claims and some go to the pool directly. Nobody sees another user's rows. | `Collections` |
| Admin tokens and audit (`admintokens/`) | `admin_tokens`, `admin_audit_log` | Issue, Revoke, Verify, RequireScope, Audit, PruneAudit | Credentials change while requests are in flight; the audit row is written after the fact. | `Access`, partly |
| Authentication, rate limiter (`internal/auth/`) | buckets per bearer | APIKeyMiddleware, AdminOnly, Limiter, StartCleanup | Evicting a bucket forgets what was spent. | `RateLimiter`, `Access` |
| Cipher (`internal/crypto/`) | keys | Encrypt, Decrypt, IsEnvelope | Mixed cleartext and envelopes. | inside `Migrations` |
| Declarative SQL, REST tokens | none of their own | ApplySQL, token | Who may call them. | `Access`, partly |
| Matviews (`matview.go`) | catalog, `pwrap_matviews` | Register, Refresh, Drop | Four statements per registration. | hand-over in `Tenancy` |
| Neon client, SDK queue and REST, Python and TypeScript SDKs, config, store, telemetry, CLI, examples | small or none | | | no |

`PROJECT.json` lists every component with its status and, under `hazards`, every place
where the code can go wrong in a way a test would hardly reach.

How they interact: requests come through `Access` and `RateLimiter` and then do what
`Tenancy`, `Migrations`, `Branches` and `SchemasList` say to the same `projects` table;
`Branches` calls `Migrations`' Apply inside its own requests and is composed with it;
`Access` is composed with `RateLimiter`, `SdkClient` with `Collections`. What an SDK gets
from the exchange (a login role with an end, `Tenancy`) is the lease `SdkClient` renews.
`Pwrapd` is about the one thing all goroutines of the process share, its connections;
`Subscription` composes it with the SDK's subscriptions, whose upgrades use them too.

## Modules

| Module | Role |
|---|---|
| `Tenancy` | Projects, keys, ephemeral roles, clients' objects, sweepers. The core. |
| `Credential` | What Tenancy promises of a credential: abstract specification. |
| `SchemasList` | PostgREST bootstrap and the schema list. |
| `Realtime` | From the committed change to the application's hands. |
| `Feed` | What Realtime promises an application: abstract specification. |
| `Pwrapd` | Life of the process, its goroutines and its pool. |
| `Subscription` | Life of an SDK subscription and its handler, composed with `Pwrapd`. |
| `Migrations` | Apply, the log, startup passes; also what `Branches` promises of Apply. |
| `Branches` | Create and Sync, composed with `Migrations`. |
| `Collections` | What each call of the SDK does to rows under a row-level-security policy; operators only. |
| `SdkClient` | Refresh loop, pools, closers and calls of the Go SDK. |
| `RateLimiter` | Token buckets and their eviction: also the abstract view of requests. |
| `Access` | Requests through rate limit, authentication, handler and audit. |
| `TenancyProofs`, `SchemasListProofs`, `RealtimeProofs`, `PwrapdProofs`, `MigrationsProofs`, `BranchesProofs`, `SdkClientProofs`, `AccessProofs` | Theorems; the last one is also about `RateLimiter`. |
| `MCTenancy`, `MCSchemasList`, `MCRealtime`, `MCPwrapd`, `MCSubscription`, `MCMigrations`, `MCBranches`, `MCSdk`, `MCAccess` | Instances for TLC. |

Operators named `X_Something` next to a definition `X` are plausible bugs of `X`;
`PROJECT.json` says which property catches each. No specification uses them.

### Tenancy

*Grain.* Autocommitted statements are single steps. A transaction is a read step (what
its statements saw) and a commit step (its writes, which nobody saw before). Everything
else, of any actor, may happen in between.

| State | Code |
|---|---|
| `project` | `projects`: absent, live, or `deleted_at` set. The tenant role and schema are created and dropped in the same transactions, so they are not separate variables. |
| `keyOf`, `active` | `api_keys.project_id`, `revoked_at IS NULL` |
| `row`, `pgRole` | `ephemeral_roles`; `pg_roles` with the membership given by `IN ROLE` |
| `age` | `expires_at` against the clock: a name not drawn yet, valid, expired, past `sweepGrace` ("due") |
| `session` | roles with a client connected; Postgres checks `VALID UNTIL` at login only |
| `home`, `owner` | the schema an object is in and its owner |
| `req`, `sweep` | program counters and locals of handlers and sweep goroutines |

`ExchangeVerify`, `ExchangeCredentials`, `MintCreate`, `MintCommit` are
`POST /v1/connection`. `DeleteGet`, `DeleteList`, `DeleteCommit` are
`DELETE /v1/projects/{id}`. `SweepSelect` to `SweepDeleteRow` are `Sweep` and
`retireRole`, one action per statement; a failing one abandons the role and keeps its
row. `RequestAborts` and `SweepFault` are failed statements, cancelled requests and
crashes. Postgres locks that matter are guards: the `projects` row a deletion updates,
and the tenant role whose membership a mint or a `REVOKE` changes (Postgres 16, the
oldest version the repository supports, locks it to the end of the transaction).

`RestEnabled` says whether PostgREST is configured; it decides whether Delete issues the
`REVOKE` that makes it wait for mints in flight. `SessionsLinger` says whether clients
may stay connected past the grace. A request is cancelled after 30 s and the grace is
5 min, so a role does not become due while its mint is pending.

`Credential` says that a name is issued once, to one tenant, and revoked only when its
lease is over or its tenant gone; `ImplementsCredential` maps Tenancy to it (a mint in
flight has issued nothing, a name drawn by a rolled-back mint is retired).

| Run | Instance | Shows |
|---|---|---|
| `tenancy_safety` | 2 projects, 2 roles, 1 key, 1 object, 2 handlers, 1 sweeper, 1 fault; lingering sessions, no PostgREST (the most interleavings) | `TypeOK`, `NoOrphanRole`, `OwnershipStaysInProject`, `NothingOutlivesProject`, `NoEarlyRetire`, `ImplementsCredential` |
| `tenancy_retire` | 1 project, 1 role, 2 objects, 2 handlers, 2 sweepers, 1 fault; PostgREST on, sessions end within the grace | `ObjectsSurviveRoles`, `ExpiredRolesRetired`, `NoTombstones` |
| `tenancy_stranded_role` | 2 handlers, no PostgREST | **violated** `ExpiredRolesRetired`: a mint that commits after the deletion listed the roles leaves a role whose sweeps all fail, for `GRANT` of the vanished tenant role |

Two projects are what it takes to confuse tenants, two handlers to overlap a mint with a
deletion, two roles to have one listed and one not, two sweepers to retire the same
role twice. One fault at every possible place is enough to leave any prefix of retireRole
behind; the loop starts over from the row alone, so a second adds nothing new.

*Fairness* (`tenancy_retire`): each sweeper keeps taking steps, because `main.go` runs
`Sweep` at startup and at every tick. Nothing is assumed of requests and clients.

### SchemasList

A process is one replica as far as one request at a time goes; overlapping requests of a
replica are two processes. `Start`, `CheckRole`, `CreateRole` are `EnsureRoles`, with its
look-then-create race between replicas; `ReadSchemas`, `AlterRole`, `Notify` are
`RebuildSchemasList`; `RebuildFails` is an error or hang-up that the callers ignore;
`Crash` may happen anywhere. PostgREST (external) reads its settings when it connects and
when notified. `Overlap` says whether a request may commit while another process rebuilds
the list.

| Run | Instance | Shows |
|---|---|---|
| `schemas_serial` | 2 projects, 2 processes, 1 fault, `Overlap = FALSE` | `InSync`, `StaleIsTold`, `RewritesAreExact`, `PostgRESTFollows` |
| `schemas_lost_update` | the same, `Overlap = TRUE`, no fault | **violated** `InSync`: the rebuild that read first writes last |

A project name is never reused, so two projects give a stale list both ways to be wrong
(a live schema missing, a dropped one listed). `StaleIsTold` is what makes the NOTIFY after
an unchanged list necessary: the process that changed it may have died before its own. `member` is
written by the transactions that change `project` and read by nothing here. *Fairness*: a process in the middle of a
start or rebuild goes on; PostgREST reconnects and handles its notifications.

### Realtime

`Commit` is the transaction of a captured change: log row and `pg_notify` appear together,
and only a session that LISTENs gets the notification. `WaitForNotification`, `fanout`,
`HydrateFails`, `HubLosesConn`, `Listen` are the hub's loop. `Register`, `Hello`,
`Deliver` are the handler's, `Break` and `Close` end a connection (a network failure, a
write timeout, the request's 30 s, the application), and the SDK's loop registers anew.
`Restart` is a crash of pwrapd. `rank`, `since`, `missed` and `dropped` are history
variables; no guard reads them except that a change commits once. The handler's channel,
the socket and the SDK's channel are one queue of capacity `BufCap`; what is in it when
the connection breaks is lost.

| Run | Instance | Shows |
|---|---|---|
| `realtime` | 3 changes of 2 tenants, 2 subscribers with different filters, channel of 1, 1 fault | `InOrderAtMostOnce`, `OnlyMatching`, `NoUnaccountedLoss`, `ImplementsFeed`, `EventuallyHandedOver` |

A channel of one already makes a slow subscriber drop with two changes of its tenant; one
unfiltered and one filtered subscriber distinguish "skip this subscriber" from "stop".
`Feed` says that an application is handed committed changes its filter asks for, each
ranking above the last, and that nothing else happens to it; `ImplementsFeed` hides the
hub, the channels and the connections.
*Fairness*: a hub that listens keeps running (nothing makes one that lost its connection
`Listen` again, since an attempt that times out ends it: see `Pwrapd`), and a handler with an event in its channel writes it
or loses its connection (the write has a 5 s timeout).

### Pwrapd and Subscription

`main` walks through `run`: startup, serving, the signal's way out (Shutdown, StopHub,
deferred pool.Close) and the error's (straight to the deferred calls). The hub, the sweep
goroutine and the requests acquire and release connections of one pool of `MaxConns`; the
hub holds one while it listens and takes a second to look up a log row, which is why the
pool is assumed to have two. After `pool.Close` has begun, nothing is acquired. While the
database is away, an attempt to connect or LISTEN fails: most errors lead to the backoff
(`HubUnreachable`), a deadline met inside the pool ends the goroutine for good
(`HubTimesOut`, state `gaveUp`).

`Subscription` EXTENDS `Pwrapd` and lets its requests be the upgrades of subscriptions.

| State | Code |
|---|---|
| `caller` | the application's call of `Subscribe` and its `Close` |
| `loop` | where `runLoop`/`runOnce` is: dialling, waiting for the hello, reading, handing an event to Changes, in its backoff, ended (`stopped`) or ended with `Err` (`failed`) |
| `ws` | where `Handler.Subscribe` is: `keys.Verify` and its UPDATE, `projects.Get`, registered, hello written, ended |
| `keyLive`, `faults` | `revoked_at IS NULL`; how many of the environment's faults were used |

`Dial` is also `Arrive` of Pwrapd; each query of the handler acquires a connection
(`Acquires`), which `Verify`, `Accept` and the refusals release. A connection that was taken over from
the HTTP server is not waited for by Shutdown: it goes with the process (`ProcessEnds`).
`HandlerEnds` (the 30 s of the request, a write or ping that times out) costs no fault,
since every connection ends that way. What is delivered is `Realtime`'s matter.

| Run | Instance | Shows |
|---|---|---|
| `pwrapd_shutdown` | `Subscription` with a pool of 2, 1 subscription, 1 fault (133,000 states) | `HubReleasedFirst`, `SignalExits`, `HubComesBack`, `ClosedEnds`, `ComesBack` |
| `pwrapd_listen_error` | `Pwrapd` alone, pool of 2, 1 request | **violated** `ErrorExits`: run returns without StopHub and `pool.Close` waits for the LISTEN connection |

The pool of two is the smallest that works and so the one with the most contention: hub
and sweeper leave an upgrade nothing, and an upgrade leaves the hub's lookup nothing. One
subscription is enough because subscriptions share nothing but the pool. One fault is any
timeout, network failure, refusal or the revocation, at any place; the loop starts over
from nothing, so a second meets it in a state it was in before. The hub's own failures are
not counted against it: they may come at every attempt. `HubComesBack` excepts the hub
that gave up, which is what the code does, and not what the comment at `hub.go:102` says.
*Fairness*: goroutines and main run; a request ends, because middleware.Timeout cancels it
after 30 s; a waiter on the pool is eventually served (strong fairness of the hub's two
acquisitions and of `Acquires`), because the pool's semaphore is first come, first served; that of `HubAcquire` also says that a hub which keeps trying
meets the database at some attempt, if none of them times out.
The subscription's goroutine (`LoopStep`) and the handler's (`HandlerStep`) run. `Event`
and `Send` are not fair: nothing makes changes happen or the application read them. No
fairness makes a connection break, the application close, or the signal come.

### Migrations

*Grain.* Each statement is a step. The baseline is one multi-statement `Exec`, which
Postgres runs in one transaction. `GetCredentials`, `isApplied`, `LogPending`,
`ApplyBaseline`, `MigrateRiver`, `UpdateLog` are Apply in order; `StatementFails` sends any
error of applyAll to the row; `Cancel` is a hang-up or the end of the request's 30 s: the
statement in flight takes effect or does not, nothing after it does. `Start`, `SweepStale`,
`ReencryptList`, `ReencryptRow`, `ReencryptEnds` are the passes of a starting replica, and
`Crash` may come anywhere.

| State | Code |
|---|---|
| `project`, `stored` | `projects` with its role and schema; `pg_password` as the number of envelopes around it |
| `baseline`, `river` | which schemas have the two halves of what applyAll installs |
| `log`, `now` | `migration_log` in order of insertion; the database's clock |
| `job`, `proc` | locals of handlers; where each replica is in its life |

Requests span a tick and rows get stale (`RequestTimeout = StaleAfter = 1`), so a sweep
meets both a running apply and an orphan. That no running apply is swept rests on
`RequestTimeout <= StaleAfter` (30 s and 5 min in the code), the module's assumption.

| Run | Instance | Shows |
|---|---|---|
| `migrations` | 2 replicas with a handler each, one provisioned and one new project, 2 log rows, 2 ticks, 1 fault (3.9 million states) | `MigrationsTypeOK`, `AppliedIsInstalled`, `OutcomesAreFinal`, `EncryptedForGood` |

Two rows are what it takes for two applies of a project to disagree; a fault is any failed
statement or crash, and a cancelled request needs none.

### Branches

`Branches` EXTENDS `Migrations`: a `Create` goes through `GetParent`, `CreateChild`,
`SetParent`, `GetChild`, then the whole of Apply with what is left of the request's time,
and `AfterApply` reads what it returned; a `Sync` goes through `GetBranch`,
`GetItsParent`, `TableExists`/`Truncate` per table, and both end in
`TableExistsInBoth`/`CopyTable` per table and `CopyDone`. `Abort` is a failed or cancelled
statement. In between, tenants `Insert` and `Remove` rows of parent and branch and
projects are deleted. `INSERT ... ON CONFLICT (id) DO NOTHING` skips a row the child has
under the same id and *fails* on any other unique column (`Clash`).

`owed` is a history variable: the parent's rows at the start of a copy, less what anybody
removed from either side meanwhile. No guard reads it. `ImplementsMigrations` says that
hidden behind the branches' steps Apply and the replicas do what `Migrations` says, so its
theorems carry over.

| Run | Instance | Shows |
|---|---|---|
| `branches` | a provisioned parent and a name for its branch, 2 handlers in 1 replica, 2 tables, 2 rows of one unique key, 1 fault (1.7 million states) | `ImplementsMigrations`, `RowsComeFromTheParent`, `CopiesAreComplete`, `BranchesAreReady` |

Two handlers overlap a Sync with a Create or two Syncs with each other; two rows with one
`doc_id` are what makes a copy fail; a second table, so that a failure leaves something
behind. `Table` may be any list a request gives (`CopyTables`, `Tables`), but all its keys
are drawn at random: `pwrap_matviews`, whose key is a name the user chooses, is therefore not among
them, and a name both sides have taken hides the parent's row. `CASCADE` reaches no
copied table. Time stands still during a request here (`RequestTimeout = 0`); the finer clock is
`migrations`', and the theorems have any.

### Collections and SdkClient

`Collections` writes each call as a relation between claims, rows before, rows after and
rows returned, under a policy that compares `data->>'user_id'` with the claims; filters,
limits and distances are any choice the statement could make. `TableOf` and `OwnerOf` are
any assignment. The policy is the one the repository's row-level-security example and
tests put on `pwrap_documents`, taken for the other two tables as well.

In `SdkClient`, `New`, `Awake`, `refresh`, `RefreshFails`, `Retry` and `LoopStops` are the
refresh loop, `closer` and `Drained` what happens to a swapped pool, `Close` and
`CloseEnds` the two halves of Close around `<-refreshDone`. A call is `Load` (the pool is
read), `Acquire` or `AcquireFails`, `SetConfig` if it runs for a user, and `Body`,
`Rollback` or `ConnectionLost`. A pool has one connection, the worst case for sharing it.
The exchange's answer may come as late as the HTTP timeout and carry a credential minted
at any time since the request was sent.

| Run | Instance | Shows |
|---|---|---|
| `sdk` | 2 users, 4 rows, 2 calls, 2 pools, 2 failures, 12 ticks of 15 s (424,000 states) | `TypeOK`, `OneFailureIsTolerated`, `CurrentPoolIsOpen`, `PoolsAreClosed`, `UsersAreIsolated` |

The margins have the code's values (`Lead` 2 min, `Floor` 30 s, `RetryAfter` 1 min, HTTP
timeout 15 s); the credential's life is shortened to the least the assumption allows, which
leaves the loop the least room. Two pools are one swap: `refresh` only looks at the
current one. Abstractions: opening and pinging a pool takes no time; the clock is stopped
before New, after Close and while a connection is held (a call is short against 15 s); an
idle connection that breaks is met at the next `Acquire`. *Fairness*: the loop's and the
closers' goroutines run and calls end; nothing makes the application call or close, nor
time pass.

### RateLimiter and Access

`RateLimiter` counts time in tokens (100 ms at 10 rps): `Granted` and `Refused` are
`Allow`, `StartCleanup` is one pass of the janitor. It assumes `Burst <= IdleLimit` (20
tokens and 10 min in the code): an idle bucket has filled up again before it is
forgotten. `granted` is a history variable.

`Access` composes it with the routes of `server.go`. A request `Arrive`s, passes
`RateLimit` (the SDK's endpoints only), `Authenticate` (bootstrap token, admin token with
`RequireScope`, or API key), `Handle`, which leaves in the tables what that endpoint does,
and `Audit`. `HangUp` cancels its context at any time: what it does after that fails, but
a statement in flight may take effect, and the audit row is written in a context of its
own. A branch that fails after its child was committed leaves the child and answers with an
error (`Answers`). `listProjects` stands for the reads that leave no row. An audited request
is one that `Audit` wraps: `POST /v1/connection` creates a role without a row, as in the
code. `/v1/subscribe`, which the limiter wraps too, is not among the routes: it is `Subscription`'s. Spec implies `LimiterSpec`.

| Run | Instance | Shows |
|---|---|---|
| `access` | 2 tokens (one with two scopes, one not issued yet), 2 keys, 2 projects, 2 requests at once and 3 in all, 1 fault (3.0 million states) | `AccessTypeOK`, `EveryMutationIsAudited`, `EffectsAreAuthorized`, `NeverMoreThanTheRate` |

Two requests overlap a revocation with a use; a third comes after both. Bursts of one
meet the limit at the second request. A token with a misspelt scope is asked for, too.

## What is proved

TLC checks the instances above; the theorems hold for every value of the constants.

**TenancyProofs** assumes `NamesApart` (roles, projects and None are different) and
`FlagsAssumption`. None of the safety properties is inductive alone. `IInv` conjoins
`TypeOK`, `NoOrphanRole`, `OwnershipStaysInProject`, `NothingOutlivesProject` with

- `IssuedInv` and `FreshInv`: a name with a row or role has been drawn, a name not drawn
  has neither row, role, session nor object;
- `PendingInv`: a pending mint owns its name, and no other handler has it;
- `RequestInv`: what a handler carries is of its project, which exists;
- `SweepInv`: what a sweeper carries pairs a role with the tenant its row names, and it is
  past the grace.

`SweepInv` is what makes `OwnershipStaysInProject` inductive: retireRole reassigns to a
tenant it read several statements ago. `RequestInv` is what makes `NothingOutlivesProject`
so: the deletion's list may be old, but everything in the schema goes with it. Frame
lemmas say what an action leaves alone, one lemma per actor does its steps, and `Invariant`
combines them. On it rest `RetiredOnlyWhenDue` (only two kinds of steps drop a role),
`RowsOutliveRoles` (only one deletes a row, that of a role already gone) and `Refinement`
(each step is a step of `Credential` or a stutter).

Retirement needs more, `RetireInv`: where clients leave within the grace
(`~SessionsLinger`), nobody is connected as a role that is due, so nothing comes back to a
role between `REASSIGN OWNED` and `DROP OWNED` (`EmptiedInv`), which gives
`ObjectsSurvive`; where PostgREST is configured, `REVOKE` makes a deletion and the mints of
its tenant wait for each other, so the deletion's list is complete (`LockInv`), which gives
`NoRoleOutlivesProject`. Without PostgREST that conclusion is false:
`tenancy_stranded_role` is its counterexample. Together they give `RetirementsGoThrough`:
only a failure stops a retirement that has begun.

**SchemasListProofs**: `SerialInSync` and `SerialRewrites` assume `~Overlap`; their invariant says that a list in hand is current
(`HandsAreCurrent`), and that a stale list without a failure means some process still has
to rebuild, the restart of a crashed one included (`StaleIsPending`). `PostgRESTIsTold`
(of `StaleIsTold`) and `RolesComeFirst` hold for any overlap: what overlapping rebuilds can get wrong is
the list, not who hears of it nor the order of a startup.

**PwrapdProofs**: `TypeCorrect` and `HubStopsFirst`, from an invariant that ties the
hub's state to where `run` is. `SubscriptionsKeepPwrapd`: every step of the composition is
a step of Pwrapd or a stutter, so the shutdown keeps its order whatever subscriptions do.
`PoolIsAccountedFor` counts who holds the pool's connections (`Held`) for any number of
requests; `HubNeverWaitsForItself` needs the pool of two that `MaxConns` is assumed to
have. For any number of subscriptions, `SubscriptionInvariant` relates each side of a
WebSocket to the other and both to the pool and the application; from it
`SubscriptionsReleaseThePool` (a handler has a connection only while it answers the
upgrade) and `SubscriptionsEndWhenTold`.

**RealtimeProofs** assumes `CapAssumption` and `EventAssumption` (`NoEvent` is not a
change): `TypeCorrect`, `DeliveredInOrder` and `DeliveredMatching`, for any changes (even
infinitely many), subscribers, filters and capacities. `Ranked` says that a new commit
ranks above every other; `InLine` and `PipelineInLine` order all stations of a change:
what an application was handed was committed before what is in its channel, that before
what the hub is looking up, that before the notifications still queued. Without the order
*between* stations, a delivery could not be shown to keep the order within one.
`StaysInLine` is the frame lemma of all the steps that only lose changes; a commit, the
fan-out and a delivery have a lemma each. `RealtimeImplementsFeed` needs the same
invariant: the order between stations is what lets a delivery be the feed's `HandOver`.
`NoLossUnaccounted` follows a change through the same stations (`Accounted`): every step
either keeps what was accounted for, or takes a change off one station and onto the next,
into `missed` or into `dropped`.

**MigrationsProofs** assumes `TimesAssumption`, `PlacesAssumption` and `BoundsAssumption`.
Its `IInv` conjoins the types with `JobInv` (what an Apply in progress has: a project that
exists, a deadline no farther than `RequestTimeout`, its own pending row, and as much
installed as its place says), `OwnRows` (no two applies share a row) and `RowInv` (an
applied row of a live project is installed). `MigrationsTyped`, `LogIsTrue`,
`OutcomesStay` and `PasswordsEnclosed` rest on it. The step that carries `OutcomesStay`
is `RunningIsYoung`: a running apply's row cannot be older than the request timeout, hence
not `Orphaned`. `PasswordsEnclosed` has an invariant of its own (`PasswordInv`): a pass has every
live cleartext password in hand, as cleartext, so that the compare-and-set never wraps an
envelope another replica's pass has written, and nothing is left when it is through.
`AnswersHaveTheirRow`: an Apply that ends well has seen, or written, an applied row, and a
row's verdict stays.

**BranchesProofs** extends it: `BInv` is `IInv` and, per request, that its replica is up
and its time not over (`Served`), which Apply it is in (`Called`), that its projects exist
(`Named`) and are linked (`Linked`), that a new branch in its copy is provisioned
(`Ready`), and that every row owed is there or in a table still to do (`Owing`);
`OwnChildren` says that two requests never link the same child. `BranchesImplement`,
`BranchesKeepTheLog` (the log's truth, for branches), `RowsAreInherited`, `CopiesComplete`
and `BranchesReady` follow, for any number of handlers, replicas, projects, tables and
rows. The family tree has an invariant of its own (`ForestInv`): every set of projects has
a member with no link into the set, *pending* links counted, that is, those of handlers
between `CreateChild` and `SetParent`; and whoever is linked to exists. A step adds no link
but that of a child it has just created, to which nobody is linked yet (`LinkStep`), hence
`NoBranchIsItsOwnAncestor`; and `BranchesStayLinked`.

**SdkClientProofs**: `IInv` says that a call holds its own connection and runs its body
with its own claims (`CallInv`), that a connection nobody holds has none (`PoolInv`), that
the pool in use is the last one opened and no closer has it (`PoolsInv`), and how late the
loop can be, by the number of failures (`LoopInv`, `Latest`). From the last, `MarginsAddUp`
holds for every delay with `Lead + Floor + HttpTimeout <= TTL` and
`2 HttpTimeout + RetryAfter + Floor <= Lead`. `CollectionsIsolate` covers the twenty
calls; with `CallInv` and `PoolInv` it gives `CallsAreIsolated` for any users, rows and
order of calls. `CallsGetAnOpenPool` and `SdkTyped` complete it. `PoolsAreAccountedFor`
adds that every open pool is in use or has a closer, and that Close outlives the loop;
`PoolsNeverReopen` is the pools' life as an action property.

**AccessProofs**: `LimiterKeepsTheRate` needs more than the rate: what was granted and what
a bucket could still grant together stay within a burst and the rate, which survives
eviction because an idle bucket is full. `AccessImplementsLimiter` carries it to
`AccessKeepsTheRate`. `AccessIsAuthorized` follows from what a request knows after each
stage: a request being handled was authorized for its route by a credential that was not
revoked when it came, and scopes of an issued token do not change. `AccessIsAudited` is a
counting argument (`Ledger`): the rows, the rows the database refused and the audited
requests in flight add up to the requests that came, so nothing is missing once all are
over; `Answerable` and `TrueRow` carry what a handler did into what its row says.

Every invariant and every safety property of the passing runs is a theorem. Only
model-checked is liveness, which is out of the prover's reach. The safety half of each is
proved, which says what can never happen on the way, however long that is; that the fair
steps lead there is TLC's to say, on the instances of the runs:

| Liveness, by TLC | Its safety half, proved |
|---|---|
| `ExpiredRolesRetired` | `RolesAreTracked`, `RetirementsGoThrough` |
| `NoTombstones` | `RowsOutliveRoles` |
| `PostgRESTFollows` | `PostgRESTIsTold` |
| `EventuallyHandedOver` | `NoLossUnaccounted` |
| `HubComesBack` | `HubNeverWaitsForItself` |
| `SignalExits` | `HubStopsFirst`, `PoolIsAccountedFor` |
| `ClosedEnds`, `ComesBack` | `SubscriptionsEndWhenTold`, `SubscriptionsReleaseThePool` |
| `PoolsAreClosed` | `PoolsAreAccountedFor`, `PoolsNeverReopen` |

## Disagreements between code and documentation

Three runs expect a violation (`tenancy_stranded_role`, `schemas_lost_update`,
`pwrapd_listen_error`); `PROJECT.json` (`findings`) quotes the sentence each contradicts.

## Behaviours worth knowing

Not disagreements with what the repository says, or not shown by a run, but met while
modelling and visible in the modules:

- A client that stays connected past `VALID UNTIL` and creates an object between retireRole's
  `REASSIGN OWNED` and `DROP OWNED` loses it (`ephemeral.go:219`); `tenancy_retire` therefore
  says that sessions end within the grace (`SessionsLinger = FALSE`).
- `hello` does not wait for the hub's LISTEN (`realtime/handler.go:92`): what is committed
  between the two is lost, and `Realtime` accounts for it as missed.
- A call that loaded a pool and acquires only after the closer's pause fails
  (`AcquireFails` on a closing pool), though only calls slower than that pause can.
- Close of a clone made with `WithUser("")` closes the shared pool: only the clone's
  non-empty user tells it from the root.
- Once parent and branch have each inserted an embedding with one `doc_id`, every Sync
  without truncate fails at that table (`branches/service.go:174`, `Clash`).
- `SweepStale` runs at startup only: a replica that comes back within five minutes leaves
  its orphan pending until some later start (`sweep.go:23`). Nothing reads pending rows.
- The WebSocket endpoint takes the key from the query string, so its requests carry no
  bearer the limiter could tell apart (`server.go:185`): they are not limited.
- A dial that is refused with 401 is tried again until Close (`Unauthorized`, `Fails`): pwrapd
  never closes with 1008, the only status `runOnce` takes for permanent, while
  `subscribe.go:44` says that an invalid API key closes Changes.
- An application that stops reading Changes holds the goroutine at `subscribe.go:187`; it
  notices a broken connection, and dials again, only after the application reads on
  (`Send` is not fair; `ComesBack` counts such a subscription as up).
- A handler that panics skips Audit; replicas with and without the encryption key on one
  database leave passwords the latter cannot read (`Keyed`, and `CanDecrypt` in
  `GetCredentials`).
- The hub gives up for good on `DeadlineExceeded` (`hub.go:114`), which a reconnect whose dial
  times out inside the pool returns, though `hub.go:102` says that errors "trigger a brief
  backoff + reconnect": pwrapd serves on, subscriptions stay open, and no change reaches them
  until it is restarted (`HubTimesOut`; `HubComesBack` without `gaveUp` is violated by it).
- A branch whose Apply fails leaves its child behind and the caller with an error.

## Not modelled

- `DropForProject`, which nothing calls; the building of the DSN.
- Key expiry, `last_used_at`, hashing; `PruneAudit`, which deletes what is older than any
  run looks back.
- The contents of schemas other than who owns an object (`Tenancy`) and which rows there
  are (`Branches`, `Collections`). A table's columns, a filter's meaning and distances are
  choices.
- The length of the SDK's backoff, and of pings and timeouts: when, not how long.
- Clocks that differ: pwrapd's writes `expires_at`, the database's decides what is due; the model
  has one.
- How an ephemeral role's name is built: it is drawn fresh, so that the random suffix survives
  the cut to 63 bytes is assumed.
- A crash or panic between a handler's commit and the audit row; the expiry of API keys.
- The matview registry, Refresh and Drop: single statements on catalog tables.
- The SDK's queue (River's client), change-capture switch and REST call; the Neon client,
  which nothing in the control plane calls: their state is the library's or the service's.
- The SQL of a declarative apply: the caller's text.
- The Python and TypeScript SDKs, which mirror the Go one; configuration, telemetry, CLI,
  examples, benchmark and conformance programs: no state that interleaves.

## Plan

Done: every module above with its runs, and the proofs of all its safety properties.
Left: the matview registry against the catalog.
