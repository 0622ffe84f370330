# TLA+ models of the API starter

This directory models the parts of the repository whose correctness depends on
order, concurrency or failure, checks them with TLC on small instances and
proves the most important properties with TLAPS for all instances.
`PROJECT.json` is the machine-readable index: the components, the runs, the map
from definitions to source lines, the hazards, the findings and the theorems.

    tlc -workers 2 -config RateLimit.cfg MCRateLimit     # one run
    tlapm RateLimitProofs.tla                            # one module of proofs

## 1. Inventory

The repository is a Go API skeleton: an HTTP contract framework
(`internal/httpx`), a Postgres layer (`internal/db`), JWT authentication
(`internal/jwt`, `internal/api/auth`), a server (`internal/server`, `cmd/api`)
and a few packages under `pkg/`.

| Component | State | Operations | What is hard |
|---|---|---|---|
| Cache and limiter (`db/cache`, `queries/cache.sql`) | one UNLOGGED table shared by every process | Get, Set, Increment, Flush, FlushPattern, GetPattern, PruneExpired; Limiter.Allow, Assert, Clear | statements of many processes interleave; NOW() is older than the effect; two clocks; crash empties the table |
| Transactions (`db/db.go`) | connection pool, one transaction per call | WithTransaction | callback error or panic, refused COMMIT, lost reply, exhausted pool |
| Registries and Build (`httpx/schema.go`, `enum.go`, `validation.go`, `compile.go`) | known types, enums, validate tokens, two version counters | RegisterKnownType(s), RegisterEnum, RegisterValidation, InitValidator, BuildWith | a build is hundreds of reads under three mutexes while anyone may register; unbounded retry |
| Declarations (`httpx/declaration.go`, `guard.go`, `compile.go`) | the tree of groups, frozen by Build into a catalogue of operations and chi routers | Guard, Mount, Sub, Register, HandleInfra, Build; then one request at a time over nested routers | groups mounted twice, inline or below themselves; guards as router middleware here and as a chain there; the router finds routes in its own order |
| Request pipeline (`httpx/request.go`, `problem.go`, `response.go`, `middleware/recover.go`) | per request: the response writer; shared: problems in package variables | guard chain, bind, handler, dispatch, commit, recovery | application code may do anything its types allow, panics included; failures at every stage of writing |
| OpenAPI projection (`httpx/openapi.go`, `schema.go`) | the document, frozen by Build | buildResponses, applyValidateTag, schema derivation in two directions, reconciliation and naming of components | must be true of the pipeline and of the validator; recursive types; names that collide |
| Document generator (`cmd/openapi`, `db/inert.go`) | a temporary file and `openapi.json` | compile, create, chmod, write, close, rename, remove | runs overlap, fail at any call and are killed |
| Lifecycle (`cmd/api`, `server/bootstrap.go`, `server/server.go`, `db/queue.go`) | pools, queue, listener, shutdown goroutine | Bootstrap, StartQueue, Start, shutdown | signal at any time, failures at every step, order of closing |
| Authentication (`api/auth`, `jwt`) | user rows, issued tokens | RegisterAdmin, Login, Me, Refresh, guards | racing registrations, stale tokens, failures reported as something else |
| Client address (`pkg/clientip`) | per request: context value and RemoteAddr | Middleware, Resolve, AddrFromRequest | headers written by anyone on the way |
| Cursor pages (`httpx/response.go`) | none; the client keeps a cursor | FinishCursorPage | rows change between pages; flags at the ends |

Interactions: a request enters through Recovery, the compiled router, the
guards and the bound handler; handlers call services, which call the store
(`WithTransaction`, queries, the cache). Build reads the registries once at
start-up; the pipeline then uses frozen plans. The same Build, over inert
dependencies, feeds the document generator. Shutdown stops the queue, closes
the pools and drains the server.

The correctness properties, component by component, are those of section 3; the
hazards they answer to are listed in `PROJECT.json`, each at its source line.

## 2. Modules

| Module | Role |
|---|---|
| `RateLimit` | the cache table and the limiter |
| `Transaction` | `WithTransaction` over the pool |
| `Lifecycle` | start-up, serving and shutdown of the process |
| `Auth` | accounts, tokens and the bearer guards |
| `StableSnapshot` | abstract: a build looks at the registries in one instant |
| `BuildRegistry` | `BuildWith` and the registrations, entry by entry |
| `Contract` | operators: what a declaration means to the binder, the dispatcher and the document |
| `Pipeline` | requests served under these declarations (extends `Contract`) |
| `CursorPages` | a client that turns the pages `FinishCursorPage` assembles |
| `Credentials` | operators: requirement sets of guards and their conjunction |
| `Routes` | groups declared, compiled and routed over (extends `Credentials`) |
| `ClientAddress` | the address a request is served under |
| `Constraints` | a validate tag as the validator and as the document read it |
| `Components` | the components of the document, from derivation to names |
| `Generator` | overlapping runs of `cmd/openapi` |
| `Document` | the three of them, composed |
| `MCxxx` + `*.cfg` | small instances |
| `xxxProofs` | theorems and proofs |

Operators named in a comment as *mutant* are plausible mistakes in the code
(a dropped guard, a wrong comparison, a missing return). They are used only to
confirm that the property they stand next to notices them; nothing else refers
to them.

### RateLimit

`table` is the `cache` table with the columns that decide anything: the value as
a counter (or `NonInteger`, any JSON that does not cast to INT) and
`expires_at`. Each statement is autocommitted. Postgres fixes NOW() when the
statement starts, so an upsert is `IncrementBegin` (the Go-side argument check
and the statement's NOW()) followed by `IncrementApply` (the atomic effect under
the row lock), `IncrementFails` or, after the effect, `ReplyLost`; `Decide` is
the rest of `Limiter.Allow` with the application's clock. A DELETE is a snapshot
(`FlushBegin`, `PruneBegin`) and an effect (`DeleteApply`) that tests rows
changed since the snapshot again, as READ COMMITTED does. `Crash` empties the
table. `Set` reads nothing and stays one step. `window` is a history variable:
the last window opened on a bucket, its charges and its grants.

Only the limiter touches keys built by `Key(scope, identifier)`, so `Set` is
restricted to other keys. The run has one key of each sort; on the plain one
`Set` and `Increment` meet.

### Transaction

One call per caller: `Begin`, the callback's statements (`Write`,
`StatementFails`), `CallbackEnds` with nil, an error or a panic, and the
deferred closure (`RollBack`, `Commit`, `CommitFails`). `broken` stands for
Postgres' aborted-transaction state and for a lost connection; a COMMIT can be
taken only when it is false, and even then its reply may be lost.

### Lifecycle

Two threads of control. `main` walks `Bootstrap` (`NewRoot`, `NewRiver`, the
other steps), the queue (`NewQueue`, `QueueStart`), the router build and
`ListenAndServe`; each may fail, with the cleanup the code performs on that
path and no other. The shutdown goroutine walks `Notify`, the wait for a signal,
stopping the queue, `Close` of the pools, `Shutdown` of the server and the
`close(shutdown)` that lets `Start` return. Calls that block are two steps, the
call and its return, so that everything else runs in between. `Signal` may come
at any instant and kills the process while no handler is installed. Requests,
jobs, the pools, River and net/http are external and modelled by what the code
uses of them: stopping the queue waits for running jobs, closing a pool waits
for acquired connections and refuses later acquisitions, `Shutdown` stops
accepting and waits for handlers. All these waits are under
`context.Background()`, so none of them gives up. A request accepted between
the closing of the pools and `Shutdown` is answered without a connection
(`Respond` without `Acquire`).

What a process leaves behind when it ends is stated by cases, because the code
does not clean up on every path. `LeftOpenExplained`: a pool is open or the queue
running at the end only if a signal came before the subscription, the route tree
made `MustBuildHandler` panic (`server.go:38`), or the listener failed
(`server.go:61-66`) while the shutdown goroutine was not done with the database.
`CutOffExplained` says the same of jobs and requests, and how far a shutdown
that is under way when the listener fails has already protected them.

### Auth

One call per client at a time: `RegisterAdmin` (hash, INSERT), `Login` (lookup,
comparison, issue), `Refresh` (guard, lookup, issue) and `Me` (guard, lookup).
Every statement is a step and may fail; an INSERT may take effect with its reply
lost. `users` is the table with the columns that decide anything, a hash is
known by the password it was made from, and `NotAHash` is a stored value that
`decodeHash` refuses. `UserRemoved` and `RoleChanged` are an operator at work on
the table; no code of the repository deletes a user or changes a role.

Instances have clocks up to `Drift` away from true time (`now`). Claims are
truncated to the second and compared without truncation, with the leeway of
`parseTokenClaims`, so time is counted in ticks. `views` is a history variable:
the tables there were while a call was running.

`columns` says whether `auth_users` has the columns `tenant_id` and
`customer_id` that `CreateAdminUser` and the unique indexes name. The migration
does not create them (section 6), so `auth` looks at concurrent calls on the
table the queries are written for and at clocks on the one the migrations
describe, on which `committed_schema` finds its violation. Even
with the columns the unique indexes cover only rows of tenants, so registering
one address twice makes two rows, and a lookup by address returns any of them.

### BuildRegistry and StableSnapshot

Each registry has its own mutex, so a registration and a lookup are one step
each, and a build is a sequence: the two version reads, one lookup per type
while plans are compiled, a snapshot of the known types and lookups of enums and
tokens while the document is derived, then the two comparisons, the second only
if the first succeeds. `SpecSkipped` is a build whose plans hold violations. A
conflicting registration panics, which ends the process (`alive`). What is
compiled from an entry is abstracted to the entry.

The linearisation point of a successful build is `CheckKnown`: the known-type
version is found unchanged there, and the enum version is found unchanged
afterwards, so at that instant both registries held what the build had read.
`StableSnapshot` is that statement: `Look` records a generation, `Return`
returns it. The refinement maps `snap` to the history variable `seen` and the
result to the compiled plans, or to `Mixed` when plans and document disagree.

### Contract and Pipeline

`Contract` holds pure operators: the status of a kind, the classification of
errors, which inputs fail to bind and how, what Build accepts, the problem plans
and the responses `openapi.go` lists. Values are three tokens (empty, convertible,
not convertible), a parameter is a base type under pointers and slices, bodies
are a presence, a media type and a class of content.

`Pipeline` serves requests: guards (`GuardPasses`, `GuardRejects`,
`GuardReturnsNil`), `Bind`, the handler's outcomes (`HandlerFails`,
`HandlerReturnsNil`, `CommitRefused`, `CommitFails`, `Commit`), raw handlers,
panics and `Recovery`. Dispatching an error is two steps, stamping and writing,
because problems in package variables are shared by requests. Guards and
handlers are application code, so each may return every error in `Errors`.

### CursorPages

A row is its position in the order of (created_at, id). The query is not in the
repository, which has no list endpoint yet: it is external and does what the
comment on `FinishCursorPage` expects of it, limit + 1 rows past the cursor,
downwards for `before_*`. The client follows the cursors only where a flag
tells it to; others insert and delete. `walk`, `steady`, `queried` and `left`
are history variables.

### Credentials and Routes

A requirement is a set of alternatives, an alternative a set of schemes, and
`Unstated` is a guard that asks for none. `And` is the product that
`RequirementSet.And` computes; `Satisfied` is the reference: which
presented credentials pass.

In `Routes` a path is a sequence of segments, each a literal or a placeholder.
`Guard`, `Mount`, `Register` and `HandleInfra` append to the slices of a group
in any order, as nothing is checked before `Build`. A node is one place of a
group in the compiled tree. `compiler.node` is recursive; in the model one call of
it is a step: `work` holds the places still to enter, `Node` enters the first of
them in the order of the recursion (`Before`, depth first) and adds its children,
with the prefix and chain of their place and the groups on the way down for the
cycle check. When nothing is left, `Materialize` collects the violations of pass 1
(`InvalidDeclaration`, `ChildTopologyConflict`, `DuplicateRoute`, `DuplicateID`,
`UnboundParameter`, `AmbiguousPaths`) and, if there are none, materialises; the
panic that chi raises there is a state (`panicked`), so that it can be shown not
to occur. A
request then moves from router to router: `RouterGuards` runs, `Found` is the
entry that chi's tree search meets first (static before parameter before the
catch-all of a mount, with backtracking), and a subrouter never gives a request
back. chi is external and modelled as `materialize` uses it.

### ClientAddress

A request collects hosts on its way. Configured proxies append the address that
called them to `X-Forwarded-For`, on the last line or on a new one, and may set
`X-Real-IP`; everyone else writes what they like, text that is no address
included. A spelling (plain, with a port, mapped into IPv6) parses to its host.
`True-Client-IP`, which the middleware deletes, is read by nobody and left out.

### Constraints, Components, Generator and Document

`Constraints` reads the tokens of one tag in order. Each token has two meanings:
what the validator refuses (`Holds`, external: validator/v10) and what
`applyValidateTag` does to a schema. The two readers keep places of their own in
the field: `position`, which a `dive` takes into the elements of any collection,
and `target`, which it takes into the items of an array schema only; on a map, or
on a named collection that is a component, the generator writes a note and stays.
From there on they read different things (section 6). A `dive` on what is no
collection is refused by the build. A wire value is its size, the length of its text, the literal it is, its
string classes and whether its elements are distinct, which is all that tokens
and keywords tell apart; an int64 is a string on the wire, so its size and the
length of its text differ.

`Components` derives named types recursively with an explicit stack (a type
reserves its id before its members are visited, so cycles end), first in
response direction for every body, then in request direction for JSON bodies.
Reconciliation is the code's two passes: variants whose response twin no body
needs take the plain name (`rename`), and of the types in both directions those
whose twins say the same under the assumption that all candidates do collapse,
one comparison at a time (`Separate`) until nothing changes. Then names are
assigned, references rewritten and collisions and dangling references refused.
`reachableComponents` is a search with a set of visited ids; here `ReachedFrom`
is what such a search finds, the smallest set that holds the roots and follows
the references of stored schemas.

`Generator` is `main` of `cmd/openapi` call by call; the directory is external
and its rename atomic. `CreateTemp` takes any name that no file has at the
moment, so a name one run has renamed away may be handed to another before the
first has come to its deferred `Remove`, which goes by name and may fail without
anyone noticing. `robbed` holds the runs whose file was removed or renamed by
another in this way, `stuck` those whose `Remove` failed.

`Document` composes the three. They hand results on and share no state, so a
behaviour follows one of them while the others rest.

## 3. Runs

| Run | Instance | Shows |
|---|---|---|
| `rate_limit` | 1 bucket with 2 callers, or 1 plain key with 1 caller (rows that never expire, hold no counter, or are at the end of INT), 1 sweeper, 2 ticks a second, 7 instants, limit 1, INT up to 3, skew ±1 tick, lag 1 | `FirstLimitGranted`, `RetryAfterSuffices`, `PenaltyNotExtended`, `WindowsDoNotOverlap`, `PurgeInvisible` |
| `build_registry` | 2 known types (1 registered at start), 1 enum, 1 token, 2 values, 1 builder | `DocumentedTagsEnforced`, the refinement `ImplementsStableSnapshot`, and that the retry loop ends (`BuildReturns`) |
| `pipeline` | 1 request under 216 declarations, all errors, 312 inputs, 128 replies; 2 requests with 1 package-level problem; lists of up to 6 rows, 2 to a page, 2 edits | `ServedIsDocumented`, `AnsweredOnce`, `HandlerRunsGuarded`, `CookiesOnlyOnSuccess`, `OwnInstance`; `WalkMeetsAll`, `TurnsBack` |
| `aborted_request` | 1 request | expected violation, see section 6 |
| `routes` | 3 groups with a guard each, up to 2 links (mounts, inline groups, nil, cycles) and 2 routes, requests of up to 3 segments and 2 methods; 4 hosts, 2 of them proxies, paths of 3 hops | `CompileIsComplete`, `GuardedAsDocumented`, `NoBypass`, `ServedAsDocumented`, `ParametersBound`, `SecurityHonest`; `AddressIsVouched` |
| `document` | tags of up to 3 of 23 tokens on 16 fields of up to three levels; type graphs over 3 types with up to 2 bodies and 3 namings; 3 runs of the generator over 2 temporary names | `AcceptedIsDocumented`, `EnforcedIsVisible`; `DirectionsKept`, `FailuresExplained`, `CollapseIsGreatest`; `PublishedWhole`, `NoLitter`; and that all of it ends (`DocumentEnds`) |
| `wrong_keyword` | the same | expected violation, see section 6 |
| `transaction` | 3 callers, 2 connections, 2 rows | `OutcomeHonest`, and that every call ends (`EveryCallEnds`) |
| `lifecycle` | 2 requests, 2 jobs | `OrderlyReturn`, `LeftOpenExplained`, `NothingUsedAfterClose`, `CutOffExplained`, and that a process that received its signal ends (`ShutdownEnds`) |
| `auth` | 1 address; 2 concurrent clients with a customer's row, 2 passwords, 1 more row, 2 token pairs, 1 edit by an operator; or 1 caller at a time on 2 instances in step or 2 ticks apart, 2 ticks a second, lifetimes of 3 and 5 ticks, leeway 3, 9 instants, a row with a broken hash, a table without the columns | `AnswersJustified`, `IssuedFromCurrentRow`; `PromisedLifetime` |
| `login_outage`, `committed_schema` | the same | expected violations, see section 6 |

What the proofs of section 4 establish for every instance and the properties
above already notice when it fails, the type invariants, the inductive
invariants and properties such as `CountsEveryHit`, `OneGeneration`,
`ConnectionsReturned`, `HandlerProblemsDeclared`, `ServesConnected` and
`NoLateAcceptance`, is left to the proofs.

Parts that share no state, or do not bear on each other, are checked in one run,
side by side: the cache's two sorts of keys, the pages of a list beside the
requests, the address beside the routes, the rows of accounts beside the clocks.
Their MC modules let a behaviour follow one of them.

Why the bounds are enough: a second of two ticks is the smallest in which
rounding to seconds is visible; seven instants hold two windows of one second
and the waits between them; two callers race for one unit of budget; one lag
tick lets a statement use a NOW() from before a restart; two known types let a
batch be partly new; two DELETEs can doom the same row; three callers over two
connections wait, and a leak blocks the last of them; two rows let a transaction
be half done; builds share only what they read, so one stands for all; a second token pair lets a refresh issue one (the calls under
way when it is issued are the last of a behaviour), and one edit falls between any
two steps of the calls. Requests of the pipeline share only
package-level problems, which have declarations of their own, so the other
properties need one request. Three groups are a group between two others, the
smallest tree in which a mount below an inline group (and the reverse) meets a
sibling; conflicts are between two routes or mounts, so two of each are enough;
three segments reach below two prefixes. A tag of three tokens has one that
overwrites another's keyword and one before or after; three types form a cycle
with a type that hangs off it (the graphs leave out those in which all three are
slices or aliases, and slices around two branching types); three levels are a
list or map in a list. A second run of the generator can take over the name the
first one gave up and lose its file to the first one's `Remove`, a third can take
it over again and be published half written in the second one's stead; with two
names this happens beside an undisturbed run. Nine instants see a token issued
at every phase of a second accepted to its last tick and refused afterwards. Six
rows at two to a page are three pages,
so a walk has a middle one to come back to; two edits delete a cursor's row and
insert another. Three hops are a client, a hop nobody vouches for and a proxy.
Appends to different slices of the tree commute, so `MCRoutes` declares guards
first and routes last.
Bounds are named: `MaxClock` ends time, `Lag` the delay of a statement,
`MaxInt` is 2^31 - 1 in production. Arguments outside the Go-side checks
(windows of 0 and 3 with `MaxTTL` 2, lifetimes of -1 and 3) are offered to the
guards that must refuse them, and some declarations of `MCPipeline` are ones
Build refuses.

Deadlock checking is off: time ends at `MaxClock`, transactions, builds,
requests and runs of the generator are done once, and a panicking registration
ends the process. That
nothing stops earlier is what the liveness properties and `AnsweredOnce` state.

**Fairness.** `build_registry` assumes weak fairness of each builder's next step:
`BuildWith` is a loop in a running goroutine that never blocks except on mutexes
held for a map access. Registrations get no fairness. `transaction` assumes
that callbacks end (their context does), that deferred closures run, and that a
free connection is handed to a waiting `Begin`, which pgxpool does in order of
arrival; failing `Begin` is possible and not required. `lifecycle` assumes
that both goroutines run, that handlers answer and that jobs end. The last two
are real assumptions: no wait of the shutdown has a deadline, so one handler or
job that never returns keeps the process alive. `document` assumes that the
generator, a sequential program, is not stopped for ever; a killed run counts
as ended.

## 4. Proofs

Proved for every value of the constants, from the named assumptions in the
modules (`ConstantsAssumption`, `NullAssumption`, `RegistryAssumption`,
`NothingAssumption`, `PoolAssumption`, `JobsAssumption`, `AuthAssumption`,
`NoneAssumption`, `PipelineAssumption`, `PageAssumption`, `AddressAssumption`,
`ConstraintsAssumption`, `ComponentsAssumption`, `GeneratorAssumption`,
`RoutesAssumption`: finite sets of types and callers, positive seconds, page and
pool sizes, arguments of the type their token takes, registered types that refer
to nothing, paths made of segments that are never empty, placeholders of patterns
kept apart from what requests carry (a request that spells `{id}` carries a value
like any other), model values that are not data).

* **RateLimitProofs.** `LimiterInv` is inductive together with `TypeOK`.
  `CountsEveryHit` alone is not: a window without a row must be known to have
  closed (`PurgedHasClosed`), a charge must be positive (`WindowsCharged`), and
  the instants calls carry must be ordered (`CallsTimely`, `SweepsTimely`).
  From it: `HitsCounted`, `BudgetExact`, `RetryAfterHonoured`, and the action
  properties `PenaltyFixed`, `WindowsDisjoint`, `PurgeUnseen`. `RetryAfterHonoured`
  covers any length of a second: the lemma on `RetryAfter` says that it is at
  least what remains.
* **BuildRegistryProofs.** `BuildInv`: as long as a version is the one an attempt
  recorded, every entry it has read is the entry of the registry; versions only
  grow, so a version that moved never compares equal again. From it:
  `BuildIsAtomic`, `TagsAgree` and the refinement `BuildRefinesSnapshot`.
* **TransactionProofs.** `NoConnectionLost` by counting the calls that hold a
  connection (`HoldersMove`), `TypeCorrect` from it, since `free` stays within
  the pool only because releases match acquisitions, and `OutcomesHonest` from
  `TransactionInv`.
* **LifecycleProofs.** `LifecycleInv` adds to the properties what `main` has
  opened at each of its steps (`StartOrder`) and what the goroutine has closed at
  each of its own (`ShutdownOrder`). `OrderlyReturn` is not inductive without
  them: it speaks of the return of `Start`, and what makes it true was done
  several steps earlier by the other goroutine. From it: `ReturnIsOrderly`,
  `LeavingsExplained`, `PoolsOutliveUse`, `ConnectedUntilSignal`, `LossesExplained`.
* **AuthProofs.** `AuthInv` adds to `AnswersJustified` what a call knows at each
  step (`InProgress`: the row it holds was in a table it saw) and what a token was
  made from (`TokensDated`). A call keeps what it knows while others work because
  `views` only grows (`KnownStays`), so each action is looked at for its own call
  only. `TypeOK` is not inductive by itself: a row is well formed because the call
  still holds its password. `LifetimeKept` and `AcceptanceEnds` follow from
  `TokensDated` and the bounds of truncation (`DateBounds`); the first needs
  `ClocksAgree`, a leeway of a second less a tick and twice the drift, which the
  default of ten seconds gives.

* **PipelineProofs.** For any declarations, errors and number of requests.
  `PipelineInv` says of each request what its place in the chain may assume:
  guards passed before binder and handler (`Progress`), a problem written is the
  request's own clone (`OwnProblem`), a handler's fault is judged by its
  operation's plan (`OwnPlan`), responses were sound when sent (`WireSound`) and
  a typed operation has written nothing before its last step (`WrittenLast`).
  `AnsweredOnce` is not inductive without the last: that nothing was written
  must be known at every place from which Recovery may write. From it:
  `OneAnswer`, `GuardsFailClosed`, `ProblemsDeclared`, `CookiesHeld`,
  `InstancesOwn`.
  `DocumentIsTrue` is the theorem of `ServedIsDocumented`: whatever the binder
  refuses, the handler returns and `Recovery` writes is a status the document
  lists. Two parts are known before a response is written: the fault a request
  carries is one its plan admits (`FaultDocumented`), and a response that was
  sent is documented (`ResponseDocumented`). The proof had the first version of
  `BindError` corrected: overlapping `CASE` arms leave open which one applies,
  while the code takes the first that does.
  `WalkIsComplete` and `PagesTurnBack` are about any table, page size and number
  of edits. `PagesInv` describes each page as a window of the table the query
  saw, the first or last `Limit` rows past its cursor in ascending order
  (`PageShown`), the page a client left likewise (`LeftBehind`), and says that
  steady rows up to the last one shown have been met (`Walked`).
* **RoutesProofs.** `AndIsConjunction`: credentials satisfy the documented
  conjunction of two guards if and only if they satisfy both, unstated and
  anonymous ones included; `AndCommutes`, `AndAssociates`: the order and
  bracketing of a chain do not show in the document. `AddressVouched`, for any
  number of hops: behind the last host that is not a trusted proxy only proxies
  have added to the headers (`LastOther`, `Vouched`), so the right-most entry
  that is not a proxy's is the address that host had.
  All properties of `Routes` are proved for any groups, any nesting of mounted and
  inline ones, any guards and operations: `CompileComplete`, `AlwaysGuarded`,
  `NeverBypassed`, `AlwaysServed`, `AlwaysBound`, `AlwaysHonest`. The invariant has
  two parts.
  *The tree* (`Compiled`, kept by `Grows`): every place has a router that serves it
  and, if patterned, one that holds it, and its prefix and chain are theirs put
  together (`Serves`, `Holds`); what is below a place inherits from it (`Inherits`);
  the ways to two places part at a place of the tree (`Parts`). The last is what
  pass 1 is about: two mounts of one router, or a mount and a route, are claims of
  different children of the place where their ways part, so
  `ChildTopologyConflict` at that place has compared them, whatever inline groups
  lie between (`MountsApart`, `RoutesApart`). With `NoPanic` this is
  `CompileComplete`.
  *The request* (`Routed`): it is at a router whose prefix matches, with exactly the
  guards and the parameters of the way there, and nothing that could serve it, or
  whose guards it must meet, is aside of its way (`OnTheWay`). `NoBypass` and
  `ServedAsDocumented` are not inductive without it: they speak of routes of the
  whole tree, and a router hands a request over for good. It is kept because a
  mount that matches excludes every other entry (`MountAlone`). When no mount
  matches, the entry that is found answers the request, and an entry exists because
  the lexicographic order of ranks is well founded (`FoundSome`). `SecurityHonest`
  needs `And` folded over a chain (`ConjoinedSatisfied`): the length at which a fold
  would first go wrong is a least number, so no induction rule is needed.
* **DocumentProofs.** Tags of any length, graphs over any finite set of types,
  any number of runs. `DocumentAllowsAccepted` and `OnlyUnwrittenHidden` rest on what
  is known of every keyword that a tag has left so far: it comes from a token
  that applies at its position, so a value that passes the tokens satisfies the
  keyword. That holds of every position except the one where a dive has parted
  generator and validator (`ReadAlike`); of that one the statement is false
  (`wrong_keyword`). `OnlyUnwrittenHidden` names the two tokens that leave nothing
  (`Unwritten`). `GreatestCollapse` is the argument for a greatest fixed point: every
  consistent set of twins is among the candidates at first, and a comparison
  that fails for all candidates fails for a subset of them, so `Separate` never
  removes a member of one. `GeneratorInv` says that a run at work finds its own
  file under its name unless it was robbed, that it renames nothing it has not
  written to the end, and that what stands in the directory after an end belongs
  to a run that was killed or is stuck. From it: `NothingHalfPublished`,
  `LeftOnlyWhenStuck`.
  `DirectionsAlwaysKept` and `FailuresAlwaysExplained` hold for graphs with any
  cycles, without induction over them: what is reachable is the smallest set
  closed under references (`ReachedFrom`), so it lies within any closed set.
  `Derivation` says of every reserved id that it is stored or on the stack, and
  of every reference that it leads to a reserved id or is still to be visited;
  when the stack is empty the stored ids are closed. `Reconciliation` then says
  that a plain name given to a request variant is not reachable in plain
  direction, and that every mapped reference leads to a stored component.

Only model-checked: the liveness properties (`BuildReturns`, `EveryCallEnds`,
`ShutdownEnds`, `DocumentEnds`), which rest on fairness and are out of the
prover's reach. The order in which `Found` ranks the entries of a router is chi's,
so what is proved about routing holds as far as that external model does.

## 5. Not modelled

* Contents: keys and identifiers are model values, enums are opaque, messages
  are left out.
* Generated queries (`db/sqlc`), configuration, logging, documentation pages,
  cryptography, string helpers: no state that a later step depends on. Glob
  patterns of the cache are the set of keys they match.
* `created_at` of the cache, which nothing reads.
* Of authentication: `UpdateVerificationStatus`, which nothing calls, the loading
  of keys, and identities that are telephone numbers, which match no row.
* Of request binding: the compilation of request structs into plans and the
  traversal that finds enum members are abstracted to flags of the declaration;
  reflection over Go types is outside what a model checker tells apart.
* Of the document: tags and descriptions, parameter styles, examples and the
  `openapi` struct tag; what RawDoc documents is taken as declared. A nullable
  field with `oneof` is documented by an enum without null, which the model
  leaves aside as it has no null among its values.
* Of routing: trailing slashes, catch-all patterns, and segments that mix text
  and a placeholder (`/v{n}`), which `dynamicRoutingSegment` does not recognise
  as dynamic. A patterned group without routes has a router without a handler,
  whose guards do not run; `NoBypass` is stated for the others.
* A page without rows has no cursors: a client whose rows were all deleted
  starts again from the first page. `TurnsBack` is stated for pages with rows.

## 6. Findings

`aborted_request`: the comment on `Recovery` (`internal/middleware/recover.go:14`)
says that it "converts panics to a sanitized problem response". A panic with
`http.ErrAbortHandler` is recovered but neither answered nor raised again, so
the request ends with nothing written and net/http, which would have closed the
connection, sends an empty 200. `PanicsAnswered` states the comment; TLC finds
the request that ends unanswered.

`login_outage`: `/login` documents its 401 as "The credentials are invalid"
(`internal/api/auth/routes.go:21`), but `Login` answers 401 for every error of the
lookup. `InvalidCredentialsOnly` states the description; TLC finds a login with
the right password answered 401 because the lookup failed. (`Refresh` does the
same; `Me` tells a missing row from a failed lookup.)

`committed_schema`: `/register` promises "User registered" or "A user with this
identity already exists" (`routes.go:31`, `34`). `CreateAdminUser` inserts into
columns that migration 0002 does not create, so every registration is answered
500. `RegistrationAnswered` states the promise for calls in which nothing failed
by itself.

`wrong_keyword`: the comment on `applyValidateTag` (`internal/httpx/schema.go:1422`)
promises that constraints which do not fit the derived schema are "appended to the
description instead of being emitted as (wrong) schema keywords". On a map, or a
named collection that is a component, `dive` leaves a note and the tokens after
it are applied to the map itself (`schema.go:1436-1443`), while the validator
applies them to the elements: `map[string]string` with `dive,min=3` is published
with `minProperties: 3`, and the server takes a map of one long string.
`NoWrongKeyword` states the comment; TLC finds such a map.

Beside these, without a promise in the repository that they break: `number`,
`numeric` and `boolean` on a reference, a list or a map, and `required` on
elements, are enforced and leave neither a keyword nor a note
(`schema.go:1479-1482`, `1574-1590`; `EnforcedIsVisible` names them); and Retry-After has
nothing that makes up for an application clock ahead of the database's
(`RetryAfterSuffices` bounds the shortfall by the skew).

## 7. Plan

Done, in the order of importance: the limiter, the build, the pipeline,
transactions, the lifecycle, authentication, routes with credentials, the
document with its generator, the client address and cursor pages, all with
proofs. What would add most next:

1. Routes: a guard that rejects in the middle of a nested chain, composing
   `Routes` with `Pipeline`.
2. The enum traversal of request bodies (`request.go`) and the nullability of
   derived schemas (`schema.go`).
