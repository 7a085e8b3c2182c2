# HawkAPI in TLA+

TLA+ models of HawkAPI: the parts whose correctness depends on the order in
which things happen (requests that await, fail and are cancelled, limiters
shared between requests or processes, hooks registered in one order and run in
another, messages that pass a pipeline of middleware), and the algorithms that
decide which handler answers a request and with which arguments. TLC checks the
models on small instances; TLAPS proves their safety properties for every value
of their parameters.

Paths below are relative to the repository; the implementation is under
`src/hawkapi/`. `PROJECT.json` gives the lines that each definition models.

## 1. The system

HawkAPI is an ASGI framework in Python. One asyncio event loop runs one task
per request; handlers may also run in worker threads; several server processes
may share a Redis. Code between two `await`s is atomic with respect to other
tasks of the process; every `await` is a point where any other task may run and
where `CancelledError` (a `BaseException`, so `except Exception` does not see
it) may be thrown.

| Component | State | Operations | Interacts with | Hard behaviour | What makes it correct |
|---|---|---|---|---|---|
| Request execution: `app.py` `_core_handler`, `_execute_route`, `di/resolver.py`, `di/scope.py`, `background.py` | per request: cleanup stack of generators, DI scope, response, background tasks; `HawkAPI._in_flight` | permission, resolve, handler, exception handling, finalise, send, background, close scope | lifecycle (drain), middleware around it | failure and cancellation at each await; threads outliving a cancelled request | finalisation order, agreement of client and generators on the outcome, nothing left open, counter balanced |
| Circuit breaker: `middleware/circuit_breaker.py` | per path: state, failure count, probe count, time opened | admit, reject, record failure or success | inner application | outcomes that arrive in another period than the one that admitted the request | probe bound, fresh count when closed, no state for ever |
| Circuit breaker (Redis): `middleware/circuit_breaker_redis.py` | the same in a Redis hash, plus a fall-back in memory | Lua scripts check, record | Redis, other processes | Redis failing between check and record | the circuit of the in-memory breaker, shared |
| Bulkhead (in process): `middleware/bulkhead.py` | per name: limit, `asyncio.Semaphore`; per task: stack of tokens | enter, wait, time out, exit | request handlers, Redis backend | timeout and cancellation against hand-over; contexts shared by child tasks | no slot lost or made, no lost wake-up, tokens paired |
| Bulkhead (Redis): `middleware/bulkhead_redis.py` | a Redis hash of leases | acquire, poll, release, reap | other processes | crash between commands, slow holders, reaper against release | distributed limit, capacity comes back |
| Application lifecycle: `lifespan/*.py`, `app.py`, `plugins.py` | hook lists, plugins, mounts, open resources | register, start, drain, stop | ASGI server, requests | hooks that raise, registration order, requests that never end | closed in order, everything closed, shutdown ends |
| Adaptive concurrency: `middleware/adaptive_concurrency.py` | limit, in-flight, latency samples | admit, release, adapt | inner application | limit moving under running requests | in-flight bounded, never closed for good |
| Rate limits: `middleware/rate_limit*.py` | buckets | take, refill, clean up | Redis, other processes | buckets forgotten, scripts out of order, fall-back | at most burst + rate * time, no refusal below that |
| Dependency container: `di/container.py`, `provider.py`, `scope.py`, `testing/overrides.py` | providers, overrides, singletons and their locks, scope cache | register, resolve, override, close | request execution | concurrent first resolution, nested locks, cancelled waiters | one singleton, one instance per scope, all closed, overrides undone |
| Dependency plans: `di/param_plan.py`, `di/resolver.py` | plan of each route | compile, resolve | routing, container | three resolvers for one signature | they agree |
| Routing: `routing/*.py`, dispatch of `app.py` | radix tree, routes, mounts | insert, include, mount, lookup | plans, OpenAPI | backtracking, partial insert on conflict, fast paths decided at registration | lookup is what the templates say, each path answers alike |
| OpenAPI: `openapi/schema.py`, `breaking_changes.py` | cache of documents | generate, compare | routing, plans | cache against registration; rules of its own for parameters | the document tells the truth, changes are reported |
| Middleware pipeline: `middleware/*.py`, `responses/*.py`, `staticfiles.py` | per request: held start message, buffers, status seen, replayed body | enter, wrap `send` and `receive`, leave | server, request execution | holding back, rebuilding, aborting and counting one answer in several layers | one start, whole body, right count, right client |
| WebSocket: `websocket/connection.py`, `app.py` | connection state, DI scope | accept, receive, send, close | peer, server, container | concurrent tasks, peer closing, failing resolution | ASGI message order, scope closed |

Not modelled, with the reason in `PROJECT.json`: gRPC mount, feature flags,
security schemes, validation and serialization, code generation and linting,
GraphQL, tooling (see section 6).

What is hard to test in this code is listed in `PROJECT.json` under "hazards",
each at its line and with the properties that cover it.

## 2. Modules

| Module | Models | Run | Proofs |
|---|---|---|---|
| `CircuitBreaker` | `middleware/circuit_breaker.py`, one path | `breaker` | `LimiterProofs` |
| `RedisCircuitBreaker`, `MCRedisCircuitBreaker` | `middleware/circuit_breaker_redis.py`, one path | `redis_breaker` | `RedisCircuitBreakerProofs` |
| `InFlight` | abstract: a counter and those it counts | through `RouteExecution`, `AppLifecycle` | |
| `RouteExecution`, `MCRouteExecution` | `app.py`, `di/resolver.py`, `di/scope.py`, `background.py` | `route` | `RouteExecutionProofs` |
| `CapacityPool` | abstract: what a bulkhead promises | through both backends | |
| `LocalBulkhead` | `LocalBulkheadBackend` of `middleware/bulkhead.py`, one name | `bulkhead` | `BulkheadProofs` |
| `RedisBulkhead` | `middleware/bulkhead_redis.py`, one name | `bulkhead` | `BulkheadProofs` |
| `Bulkhead` | `Bulkhead` with either backend | `bulkhead` | `BulkheadProofs` |
| `BulkheadTokens`, `MCBulkheadTokens` | `_push_token` and `_pop_token` of `middleware/bulkhead.py` | `bulkhead_tokens` | `BulkheadProofs` |
| `AppLifecycle` | `lifespan/*.py` and the hooks `app.py` registers | `lifecycle` | `AppLifecycleProofs` |
| `RateLimit` | `middleware/rate_limit.py`, `rate_limit_redis.py`, one client | `rate_limit` | `LimiterProofs` |
| `AdaptiveConcurrency` | `middleware/adaptive_concurrency.py`, one path | `adaptive` | `LimiterProofs` |
| `DependencyContainer`, `MCDependencyContainer` | `di/container.py`, `provider.py`, `scope.py`, `testing/overrides.py` | `container` | `DependencyContainerProofs` |
| `Routing` | `routing/_radix_tree.py` as functions | `dispatch` | `DispatchProofs` |
| `ParamPlan` | `di/param_plan.py`, `di/resolver.py` as functions | `dispatch` | `DispatchProofs` |
| `OpenApi` | `openapi/schema.py`, `breaking_changes.py` as functions | `dispatch` | `DispatchProofs` |
| `Dispatch`, `MCDispatch` | `routing/router.py`, `controllers.py`, `version_router.py` and the dispatch of `app.py`, over the three above | `dispatch` | `DispatchProofs` |
| `HttpExchange` | `middleware/*.py`, `responses/*.py`, `staticfiles.py`, `requests/request.py`, the end of `_execute_route` | `connection` | `ConnectionProofs` |
| `WebSocketConnection` | `websocket/connection.py`, `_handle_websocket` | `connection` | `ConnectionProofs` |
| `Connection`, `MCConnection` | `HawkAPI.__call__`, over the two above | `connection` | `ConnectionProofs` |

`RedisCircuitBreaker` implements `CircuitBreaker`, both bulkhead backends
implement `CapacityPool`, `RouteExecution` implements `InFlight`, which
`AppLifecycle` instantiates: it relies on requests only as far as
`RouteExecution` is shown to keep that promise.

Each definition named "Mutant of X" is X with a plausible mistake in it; the run
that checks a property is known to notice the mistake the property is about.

### CircuitBreaker

`state`, `failure_count` and `half_open_calls` are the fields of
`_CircuitState`; `recovered` stands for `monotonic() - opened_at >=
recovery_timeout`. `__call__` is two atomic steps, its two critical sections:
`Enter` (one of `AdmitClosed`, `AdmitProbe`, `RejectOpen`, `RejectHalfOpen`) and
`Finish` (`Succeed`, `Fail`, or `Abandon` for a call that was cancelled or
returned without a response start and thus records nothing). `failure_count` is
capped at the threshold, with which alone it is compared. Paths share nothing
but the lock and no critical section awaits, so one path is enough. `probes`,
`lost` and `streak` are history: the probes of the present half-open period in
flight, whether one of them ended with nothing to record, and the failures since
the last success.

### RedisCircuitBreaker

The hash (`shared`), the fall-back circuit of each process (`local`), and a
program counter for each request of any process. A script is one step at Redis;
connecting, the call and the reply are steps of their own that may fail, and
once one has failed its process turns to its own circuit for good
(`_redis_available` is never set again) until it restarts. What Redis knows of a
request is kept in the history variables of `CircuitBreaker`, so that the hash
as seen by the requests of all processes can be shown to be that circuit: a
request whose outcome goes to the fall-back is to Redis one that was abandoned.
The clocks of the processes are taken to agree.

### RouteExecution

One record per request holds the program counter and what `_execute_route` has
in its locals: the cleanup stack, `handler_succeeded`, the response, what the
client was sent, whether background tasks ran, where an exception escaped from;
of each generator (`res`) whether the code behind its yield ran, raised (which is
logged and changes nothing), or was closed instead.
A route is what decides the control flow: the kinds of its dependencies in the
order in which they start (a generator, a scoped instance with a close method,
or neither), whether it has permissions, a sync handler, background tasks. Each
await that may fail is a step with three outcomes: on, an exception, a
cancellation. `_execute_trivial_route` is the flow of a route with no
dependencies. Generators the framework has lost are closed by the interpreter
at some later time (`RuntimeFinalises`, external).

`Faults` chooses which rare failures are possible: cancellation, a plugin's
`on_exception` raising, closing an unsent stream of a HEAD response raising.
Which response is built from what is `Dispatch`'s and `HttpExchange`'s subject,
here abstracted to "ok" and "error".

### LocalBulkhead, RedisBulkhead, Bulkhead, CapacityPool

In `LocalBulkhead` `limit` and the semaphore's `value` and `waiters`, the future
each waiting call awaits, and why it was interrupted. `asyncio.Semaphore` (of
Python 3.12 or later) and `asyncio.timeout` are modelled from their documented
behaviour and marked external. What matters is that a slot is handed over by
completing a future and the waiter runs only in a later turn of the loop: in
between its timeout or a cancellation may come. A `ValueError` for a second
limit under the same name changes no state and is a disabled action.

In `RedisBulkhead` the hash is the set of its fields; a lease is old once
`lease_ttl` has passed since it was written, and its call is then late. HSET,
HLEN and PEXPIRE are one MULTI/EXEC transaction and one step (`Attempt`); the
reply, the HDEL of a refused attempt, the HDEL of a release, the reaper's
HGETALL and its HDEL are steps of their own, and calls of other processes,
crashes (`Die`), time (`Age`) and the key's expiry come between any two. A call
is `Punctual` from the pipeline that admits it until it leaves, dies or is late.
The set of lease ids bounds how many fields exist at once. `KeyExpires` may
happen as soon as every field is old, which allows more than the code's ten
`lease_ttl` since the last attempt.

`Bulkhead` chooses one of the backends for the life of the object. `CapacityPool`
says what any backend promises: capacity fixed at creation, never more holders
than that.

### BulkheadTokens

Which dict a task's context refers to and the token list of each. A child task
starts with a copy of its parent's context and thus with the same dict. What a
dict's list should hold is counted by `OpenBlocks`: the blocks that the tasks
whose context leads to it have open.

### AppLifecycle

The hook lists in the order of registration, the agenda of calls that running
them amounts to, and what is open. A call has a list of what it still goes
through: the plugins or mounts for the framework's own hooks, which loop over
them (`GoOn`), one thing for any other. The loops of both run forward, at
startup and at shutdown. A call that raises is left with the rest of its list
undone; `broken` says what raised. `NamesAssumption` says that plugins, mounts and hooks are
different objects. Requests are `InFlight`'s, accepted only between startup and
shutdown. Mounts are those with `autostart`; `HookRegistry.merge`, which nothing
calls, is left out (so is the "Router-level hooks" its module's docstring
mentions).

### RateLimit, AdaptiveConcurrency

Both compute with floats. `RateLimit` counts tokens in units of which a clock
tick refills a whole number; `AdaptiveConcurrency` counts the limit in `Units`
to a request and rounds down. `RateLimit` has both middlewares (`middleware`
says which): in memory the cleanup comes at the request that finds it due; with
Redis the request reads the clock, and the script that uses this time runs
later, up to `Grace` ticks, in an order of its own. `granted` is the history the
properties speak of: how many requests each bucket let through at each time;
`Through` counts the grants of a window. `lapses` is history too: when a cleanup
forgot a bucket that was not full by then. In `AdaptiveConcurrency` a request's latency is what the clock ticked while it was
inside, at most `MaxRtt`.

### DependencyContainer

A resolution is a stack of calls of `Provider.resolve`, each awaited by the
factory of the one below it; `FromScope` and `FromContainer` say what tasks ask
for. A lock is a queue whose head holds it; `HandOver` (external) is
`asyncio.Lock.release`, which wakes the next one, and a cancelled waiter passes
the wake-up on. `Scope.close` is a walk of single steps during which late tasks
may still store instances. Overrides are entered and left as a stack, which is
what `override` in `testing/overrides.py` does; `original` is what each
context remembers. `NeedsAssumption` excludes factories that reach themselves,
under their name or, for a named key that falls back, under none: such a
singleton waits for its own lock. `UnnamedAssumption` says that the unnamed key
of an unnamed key is itself, and `OverridesAssumption` that the override
contexts are named apart from the keys.

### Routing, ParamPlan, OpenApi, Dispatch

A path template is a sequence of segments, a node of the tree the sequence of
edges that lead to it. `Insert` goes down the template (`Descended`) and returns
the set of outcomes, because a conflict leaves what was put into the tree before
it, some methods of the route included. The loop of `lookup` with its stack of
alternatives is written as a function of the segments that are left: what is
found from each node on is made of what is found from the nodes below it
(`Onward`), the text first and then the parameter (`OrElse`).

A parameter is a record of what its declaration says. `ParamPlan` compiles it
(`BuildHandlerPlan`) and has the three ways of giving it a value:
`ResolveFromPlan`, `ResolveTrivial` and `ResolveDependencies`. What a
`Depends(f)` runs is a function of the depth (`CallsTo`): `f` runs after what it
depends on, raises if one of these did, or if an argument is missing.
`DependenciesAssumption` says that there are finitely many and that a function
names only those that were there before it, as Python's evaluation of
annotations and defaults has it. `OpenApi` makes documents of signatures and
compares two.

`Dispatch` runs a program, a set of registrations in any order, and interleaves
requests for documents, which fill the cache. Its actions are the registrations;
what a request is answered with is a function of the tables
(`Target`, `FastAnswer`, `FullAnswer`), so that properties quantify over all
requests in every state. How the handler ends is part of the request
(`Endings`); each of the two executions maps it to a status by the except clauses
it has (`FullClauses`, `TrivialClauses`). `planned` keeps of each route for which types and which
names its plan was made, which is what `Stale` compares. Mounts are a dict by
path: mounting the same path again replaces the application and keeps its place.
`RoutersAssumption`, `ProgramsAssumption` and `RequestsAssumption` say what
shape these inputs have (`Registrations`, `Parameter`); among them, that only a
handler without parameters has its answer built at registration
(`_compute_static_response`).

### HttpExchange, WebSocketConnection, Connection

In `HttpExchange` control goes inwards through the pipeline, into the
application (a route, or a mounted application that streams or serves files) and
outwards again; each middleware has what its code keeps for the request (`mw`).
A message passes all wrappers of `send` in one step, since nothing else runs on
behalf of the request meanwhile; between two messages the client may leave, the
served file may change and the request may be cancelled. Every message is
awaited, though, and the await of any may raise, because the task is cancelled in
it or the server's `send` fails: `CutWith` delivers the messages up to that one,
of those that a `GZipMiddleware` makes of one message possibly the first only, and
leaves each wrapper where it then is (`CutState`), with what it sets after its
await not set. This holds of messages of the application (`Says`, `SaysLast`),
of answers and rebuilt answers of a middleware (`Answer`) and of what `finalize`
sends. What is raised is a cancellation, an error, or a `RequestValidationError`,
which only `ErrorHandlerMiddleware` tells from the others. A hook middleware's
`before_request` may read the body (`TakesBody`), answer or raise, and its
`after_response` give another response or raise. Bytes are counted:
`raw` those of the application's content a message stands for, `size` those it
has, `lens` the values of its content-length headers. `sent[i]` is the answer as
far as position `i` of the pipeline has sent it outwards: `wire`, which is
`sent[1]`, is what the server got; the others are history, but for what a
middleware has put into its own `mw`. Two fields are history: `spoilt` (a
`GZipMiddleware` was cut off before it set `_started`, a hook middleware dropped
or replaced an answer) and `core.failed` (the answer was not finished, or was lost
on its way out).

A request says who its client really is (`truth`). `Truthful` is what is taken to
be so of those who write `X-Forwarded-*`: a client that connects directly is who
the server sees, whatever it claims; a trusted proxy tells the scheme and host it
was asked for and appends its client's address, and after that only trusted
proxies append. A client behind a proxy that does otherwise is not modelled.

In `WebSocketConnection` the handler and a task it has started call `accept`,
`send`, `receive` and `close`; each method looks at `_state` before it awaits the
server and sets it after. The server accepts messages in any order and records
disorder; the peer may leave at any time. The scope is closed, unless resolving
in it raised, to its last instance or not: a cancellation in `await
di_scope.close()` cuts it off (`scope = "cut"`).

`Connection` is the choice `HawkAPI.__call__` makes by `scope["type"]`.

## 3. Runs

| Run | Instance | Distinct states | What it shows |
|---|---|---|---|
| `breaker` | 4 requests, threshold 2, 2 probes | 2 447 | `ProbesBounded`, `TripsOnThreshold`; under fairness `NeverStuck` |
| `route` | 2 requests, 3 routes with up to 3 generators or 2 scoped instances, all faults | 335 241 | `LastStartedFirst`, `OutcomeAgrees`, `LeaksExplained`, `ScopeOutlivesUse`, and the refinement of `InFlight` with its liveness (`ImplementsInFlight`) |
| `bulkhead` | locally 4 calls, limits 1 and 2; in Redis 3 calls, 3 leases, limit 2, a reaper | 98 028 | `NoSlotLost`, `NoStarvation`, `HoldersKeepLease`, `OrphansReclaimed`, and both refinements of `CapacityPool` (`ImplementsLocalPool`, `ImplementsPool`) |
| `bulkhead_tokens` | 3 tasks, nesting 2, the two children symmetric | 50 555 | `TokensPaired` |
| `lifecycle` | 2 plugins, 1 mount, 2 hooks, a context manager, 1 request | 267 443 | `ClosesInOrder`, `StopsClean`, `ShutdownEnds` |
| `redis_breaker` | 3 requests in 2 processes, threshold 2, 1 probe | 249 338 | `FallbackBounded` and the refinement of `CircuitBreaker` (`ImplementsCircuit`) |
| `rate_limit` | 1 process and Redis, 2 requests, burst 2, half a token per tick, 5 ticks, a cleanup interval of 1 | 225 583 | `WithinRate`, `RefusedOnlyInExcess` |
| `adaptive` | 3 requests, limits 5/4 to 7/4 requests starting at 8/4, window 2 | 18 028 | `InFlightBounded`, `NoLockOut` |
| `container` | 2 tasks; a singleton that needs another one and is also asked for by a name, a scoped service, 2 overrides; 2 instances per provider | 241 430 | `InstancesShared`, `ScopeClosed`, `OverridesNest`, `ResolveEnds` |
| `dispatch` | all sets of 3 of 13 registrations with overlapping paths; every signature of one parameter, on the application and included; every set of route options; every end of a handler | 23 228 | `RoutingCorrect`, `FastPathsAgree`, `PlanFollowsSignature`, `SchemaTrue`, `BreaksReported` |
| `connection` | 10 pipelines, every kind of answer, up to 3 chunks; 5 kinds of forwarded addresses; a WebSocket with 2 tasks | 2 154 630 | `AnswersInOrder`, `AnswerIntact`, `CountedAsAnswered`, `BodySeen`, `ClientJudged`, `MessagesInOrder`, `NothingLeftBehind` |

Why these bounds are enough to see what could go wrong:

- `breaker`: a late outcome needs one request of an earlier period beside the
  probes of this one and one that finds the circuit full, hence four for two
  probes. `redis_breaker` needs two requests of one process, of which one falls
  back while the other still talks to Redis, and one of another process.
- `route`: two requests share only the counter, so two suffice; the routes have
  a scoped instance between generators, two generators in the part whose stack
  the resolver keeps and one in the part `_execute_route` keeps, and two scoped
  instances, of which closing one may be interrupted.
- `bulkhead`: a hand-over race needs a holder, a waiter that is interrupted, the
  next waiter and a newcomer. In Redis three calls allow two holders and an
  attempt, or an orphan, a holder and two attempts, and the reaper's two steps
  around them.
- `bulkhead_tokens` needs a parent, a child and a grandchild that outlives the
  child. `lifecycle` contains every kind of thing that is opened, two of those
  of which order matters.
- `rate_limit`: five ticks pass the cleanup interval and the time to live of the
  key and refill a bucket once over; the interval is shorter than the time a
  bucket takes to fill up, so that some are forgotten early; two requests are
  enough for scripts out of order. Buckets are independent, so one process
  suffices beside Redis.
- `adaptive`: with limits below two requests a single one may close the path, and
  the initial limit lies above the maximum.
- `container`: races are between two; the needed singleton is overridden while
  the one that needs it waits for its lock; the named key falls back to another.
- `dispatch`: a lookup that must come back to an alternative needs two templates
  that overlap and a path that only the second fits, a third registration gives
  conflicts and inclusion; paths of one and two segments and some of three reach
  every node and every dead end. Parameters are resolved one by one, except that
  a plan needs a scope if one of them does, hence the one signature of two.
- `connection`: each pipeline puts a middleware inside and outside of those it
  could disturb, two have some twice and one is empty; a minimum size of two chunks
  separates bodies sent as they are, compressed at once and compressed while they
  stream. Two tasks are enough for each pair of WebSocket calls to overlap.

Deadlock is checked except in `lifecycle`, `connection` and `dispatch`, which
come to an end, and `rate_limit`, whose clock does.

One run states what the guide promises and shows the code to break it:
`connection_doc_streaming`. `docs/guide/responses.md:71` has a handler `return
StreamingResponse(...)`; `_build_response` (`app.py:957`) knows `Response` and
`JSONResponse` only and encodes everything else as JSON, which fails. The same
holds for `FileResponse` and `EventSourceResponse`.

Other promises are broken in cases that the properties of the passing runs name
as exceptions, so that they hold of everything else:

| Promise | Exception | What happens |
|---|---|---|
| "If the probe succeeds the circuit closes; if it fails the circuit re-opens" | `lost` in `NeverStuck` | a probe that is cancelled, or returns without a response start, does neither and keeps its place: the circuit rejects the path for ever |
| "cleanup code runs after the handler completes, even on exceptions" (`README.md:205`) | `LeaksExplained`, `LastStartedFirst` | generators started before another dependency of the same plan raised are forgotten (`app.py:683`) |
| a scope closes its instances on exit | `LeaksExplained` | an exception out of `Plugin.on_exception` passes the code that closes the scope (`app.py:779`) |
| "Ensures ALL instances are cleaned up" (`di/scope.py:64`) | `LeaksExplained`, `"cut"` in `NothingLeftBehind` | a cancellation in the await of one close leaves those that are left open (`scope.py:71`) |
| "run cleanup after the response is sent" (`docs/guide/dependency-injection.md:43`) | `OutcomeAgrees` says before | generators are resumed before the response is sent (`app.py:786`), and a success is told although one of them raised (`app.py:795`) |
| "Run shutdown in reverse order." (`lifespan/manager.py:82`) | `OfOneHook` in `ClosesInOrder`, `Precedes` in `StopsClean` | plugins among themselves and gRPC mounts among themselves are closed in the order they were opened in, and one that raises leaves those after it open (`app.py:347`, `:420`) |
| "Returns 413 Payload Too Large when exceeded" (`README.md:541`) | `WithoutClause` in `FastPathsAgree` | the trivial path has no clause for `RequestEntityTooLarge` or for a missing credential: 500 instead of 413 or 401 (`app.py:622`) |
| the document lists the parameters | `Unannotated` in `SeenDifferently` | a parameter without annotation is read from the path and not listed (`openapi/schema.py:133`) |
| a bucket holds what the rate allows | `lapses` in `WithinRate` | the cleanup forgets a bucket by its age, and the client starts with a full one; with the default values none is forgotten before it is full (`rate_limit.py:82`) |
| "its lease expires after `lease_ttl`" (`docs/guide/bulkhead.md:76`) | `Reaper = TRUE` | without a reaper, the lease of a crashed worker stays while other calls renew the key's time to live (`bulkhead_redis.py:60`) |
| the token lists are forked per task | `released.shared` in `TokensPaired` | a child task spawned inside a block shares its parent's list, and each releases the other's token (`bulkhead.py:127`) |
| "Wait for in-flight requests to complete before shutdown" (`app.py:398`) | `StopsClean` speaks of the end only | the wait was registered first and shutdown runs in reverse: everything else is closed before it (`app.py:146`) |
| "Created once per scope" | `raced`, `FellBack` in `ScopeShared` | two tasks of one scope that both miss the cache get an instance each (`scope.py:46`); a named key that falls back caches under the unnamed one (`scope.py:37`) |
| "Only safe to call when route._trivial is True" | `MissingQuery`, `StaticIgnores` in `FastPathsAgree` | the trivial path leaves out a `Query()` without a default where the full one gives `None`; a static response ignores permissions, dependencies and deprecation |
| "Same logic as resolver.py" | `OnlyInPlans`, `Stale` in `PlanFollowsSignature` | the resolver without plans knows neither `SecurityScopes` nor `= Depends(f)`; a plan made before a provider was registered keeps its sources |
| ASGI: one response start | `AnswersInOrder` | `finalize` sends a second start and body after an answer that was encoded already, by the application (`req.coded`) or by another `GZipMiddleware` further in (`gzip.py:196`); and after a message it was cut off in, since `_started` is set when its messages have been sent (`gzip.py:124`, `:168`; `spoilt`) |
| metrics count the status | `spoilt` and 422 in `CountedAsAnswered` | a hook middleware outside of the metrics drops or replaces the answer that was counted (`base.py:112`); an `ErrorHandlerMiddleware` outside answers a `RequestValidationError` with its own status where 500 was counted (`error_handler.py:40`) |
| a body is read once and for all | `taken` in `BodySeen` | `before_request` has a `Request` of its own on the same `receive`: what it reads the handler does not get (`base.py:54`) |
| ASGI: order of WebSocket messages | `torn` in `MessagesInOrder` | `accept` and `close` set `_state` only after their await |
| a connection's scope is closed | `unresolved` in `NothingLeftBehind` | `_resolve_ws_dependencies` raises after it opened a scope nobody else knows of (`app.py:538`) |

### Fairness

- `CircuitBreaker`: requests keep arriving, the clock advances, every forwarded
  call ends (it is awaited without a timeout, so that is the inner
  application's promise). Nothing is assumed about how it ends.
- `RouteExecution`: every started request is resumed, that is, dependencies,
  handlers and background tasks end. Nothing is assumed of worker threads or of
  the garbage collector.
- `LocalBulkhead`: the loop runs tasks whose future is done, and protected
  blocks end; nothing is assumed of timeouts.
- `RedisBulkhead`: time passes, a key whose time to live runs out is removed,
  and, if there is a reaper, it runs again and again.
- `AppLifecycle`: the lifespan task runs and hooks end; nothing is assumed of
  requests.
- `AdaptiveConcurrency`: requests keep arriving and those admitted end.
- `DependencyContainer`: the loop resumes tasks and factories end, in whichever
  way; nobody is assumed to be cancelled.

All of it is weak fairness of single steps: asyncio's ready queue is FIFO and
starves nobody. The other modules state safety only.

## 4. Proofs

Assumed throughout is only what each module's `ASSUME`s say: finite sets of
requests, calls and leases, positive limits and thresholds, and routes of the
right shape. No bound on their size is used.

**`LimiterProofs`**, for the three limiters that keep their state in one process.

- `CircuitBreaker` (`TypeCorrect`, `ProbesStayBounded`, `HalfOpenIsWaiting`,
  `ClosedIsFresh`, `OpensOnThreshold`). The code compares `half_open_calls`, the
  property speaks of probes in flight. `IInv` ties them: outside of a half-open
  period there are neither, inside it the counter is at least the number of
  probes, and equal to it while none was lost; the counter is positive. That a
  closed circuit's count equals the streak is inductive along with it and gives
  `TripsOnThreshold`.
- `AdaptiveConcurrency` (`AdaptiveTypeCorrect`, `InFlightHolds`). `in_flight`
  counts the requests inside, each of which was let in under a limit that was
  not above the largest one. That the limit stays between its bounds, although
  it is computed with two divisions from the samples and the floor, is
  `AdaptedFacts`; that the sum of the samples is positive, `TotalFacts`.
- `RateLimit` (`RateTypeCorrect`, `RateHolds`, `RefusalsAreDue`). The code
  compares the tokens of one bucket, the properties speak of all windows of time.
  `RateIInv` is an account: what a window has cost is missing from the bucket
  (`Budget`), also once it was forgotten, because a bucket that is gone would be
  full by now (`Forgotten`, where the key's time to live is needed) unless it was
  forgotten early within the window (`Unlapsed`; no interval is assumed); a bucket is overdrawn at most by what a script's clock was behind
  (`NotOverdrawn`); and there is a window whose grants are all that is missing
  (`Spent`), the reason for each refusal.

**`RedisCircuitBreakerProofs`** (`TypeCorrect`, `FallbacksBounded`,
`CircuitImplemented`). `IInv` has two halves. `SharedInv` ties what
Redis knows of a request to where the request is: an outcome that a record
script is given belongs to a request that a check script admitted, because a
process never returns to Redis once it has failed it. `LocalInv` bounds the
probes of a fall-back by its counter and says that a process which Redis never
failed has a fresh one. For the refinement each script is shown to be one action
of `CircuitBreaker` (`CheckIsEnter`, `RecordIsFinish`), a request that Redis will
not hear of again to be `Abandon` or a stutter (`VanishIsAllowed`), and all
other steps to leave the circuit alone (`StepImplemented`).

**`RouteExecutionProofs`** (`TypeCorrect`, `GeneratorOrder`, `OutcomeAgreement`,
`LeaksAreExplained`, `ScopeSafe`, `CountsInFlight`). `IInv` says of every frame
(`FrameInv`) which combinations of program counter, stack, resolved
dependencies, outcome and escape can occur, in named parts; beside it, `Counted`
says of the counter that it is the number of active requests. One lemma per
transition proves that a frame keeps `FrameInv`; since a step changes one frame,
the rest follows. `CountsInFlight` is the safety half of the refinement of
`InFlight`.

**`BulkheadProofs`**, for a bulkhead with either backend. `LocalPart` and
`RedisPart` reduce `BulkheadSpec` to the backend in use.

- In process (`SlotsKept`, `LocalPoolImplemented`). `LocalIInv` ties each future
  to where its call is: a future exists while its call waits, and a cancelled
  one belongs to a call that will not go inside. With it the sum of `NoSlotLost`
  is inductive, and so is its clause on wake-ups: `WakeUpFacts` says that waking
  stops only where no slot or no pending future is left. In which order futures
  are granted plays no part. One lemma per action says what it does to
  `Running`, from which `CapacityPool` is implemented.
- In Redis (`TypeCorrect`, `LimitHolds`, `HoldersAreSafe`, `PoolImplemented`).
  HLEN counts fields, the limit speaks of calls. `RedisIInv` says that no two
  calls know of the same lease and that a known lease that is not old is in the
  hash and not among those the reaper has collected; punctual calls therefore
  inject into the hash, which `Attempt` has just compared with the limit.
  `PunctualMoves` states what each step does to them, from which `CapacityPool`
  is implemented.
- Token stacks (`EveryTokenReleased`, over `TokensSpec`). That a list holds as
  many tokens as there are blocks open on its dict is inductive once a new dict
  is known to be nobody's, for which there is a pigeonhole: a task refers to one
  dict at most (`NewDictFree`). That a task releases its own token needs `Separate`:
  a list with tokens is its task's alone unless tasks were spawned inside a
  block.

**`AppLifecycleProofs`** (`TypeCorrect`, `ShutdownIsClean`, `ClosingIsOrdered`).
`StopsClean` speaks of the last state only. `IInv` says why it comes true:
whatever startup opened belongs to a registered hook or is excused, and while
shutdown runs a thing still open is excused or pending on the agenda
(`NothingForgotten`), as the drain is while requests are in flight. `InStopOrder`
says that the agenda is what remains of the shutdown hooks from last to first,
with what a hook's loop has left at the head of it, and `Registered` that none is
there twice; from both, and from `OrderInv`, which says in which order things were
opened, follows the action property `ClosesInOrder`.

**`DependencyContainerProofs`** (`TypeCorrect`, `InstancesAreShared`,
`ScopeCloses`, `OverridesAreNested`). `IInv` has three parts. `Overriding` says of
every prefix of the entered overrides what each key led to and that the next
context remembers it. `Resolving` says who holds or waits for a lock: a
singleton's factory runs only under it and only while there is no instance, and
by `NeedsAssumption` no task waits twice for the same lock (`Descending`).
`Scoping` follows the instances of a scope from the cache to the teardown list
and through the walk that closes it; an instance that is in neither was stored
late.

**`ConnectionProofs`**, over `ConnectionSpec`: either half of a connection keeps
its invariant while the other does not exist.

- The WebSocket (`WsTypeCorrect`, `OrderKept`, `ConnectionEnds`), for any set of
  tasks. Neither property is inductive: `_state` lags behind what the server
  was told while `accept` or `close` is awaited. `OrderInv` relates the two when no
  task awaits either, and says what is true meanwhile; `ClosedInv` says that
  `_state` is not "disconnected" unless the connection is over; `LifeInv` follows
  `_handle_websocket` and its scope, which may be closed in part.
- The exchange (`ExchangeInvariant`, `AnswerIsInOrder`, `AnswerIsIntact`,
  `RequestIsCounted`, `ClientIsJudged`, `BodyIsSeen`), for pipelines of any length
  and order, with any middleware any number of times, any requests and limits.
  All five properties speak of the two ends of a pipeline. `ExchangeInv` speaks
  of what happens between, at each position:
  - `Stands`, in two layers. `Linked` holds through every cut: each middleware
    that has been called and has not returned tells the status it was told, if it
    has told one, and keeps what tells it so (`Carries`). `Placed` holds while no
    `GZipMiddleware` was cut off before it set `_started` (`Untorn`), and says
    exactly how what it sent on follows from what it was sent (`Passes`, with a
    case for each that holds back, buffers, compresses, captures or adds).
    `RelayStep` shows this for one message and each middleware by itself,
    `RelayAllStep` for the messages one of them is sent, and `SendStep` for a
    whole pipeline; `RelayAllCarries` and `PassedFrom` do so for the first layer,
    and for sequences of which the last message is cut off.
  - `Asked`: what the application has sent so far, given where it is.
  - `Spoken`: what has been said by the outermost middleware that has
    returned: an answer in order unless it was `Recoded` or torn, complete and with all
    `Additions` if the application completed it, refused only for cause. This
    moves outwards one position with each return (`LeaveStep`, `SpokenOn`), where
    `gzip` flushes, `hooks` rebuild and `errors` answer for the others.
  - `Tallied`: what those that have returned have counted, and still holds of the
    answer as it is further out.
  - `Judged`: whom the scope says the client is, and that every gate passed so
    far has judged by it.
  - `ReaderOK`: what has been read, is held for replay and is still to come adds
    up to the body.

  A pipeline and a sequence of messages are passed by recursive functions, whose
  defining equations are lemmas (`DeliveredFacts`, `RelayedFacts`,
  `OutwardFacts`). The library's induction theorems cannot be instantiated, since
  they take an operator; `Induction` and `Descent` say the same of a set of
  numbers, from the well-foundedness of the naturals, and suffice here.

**`DispatchProofs`** (`Invariant`, `RoutingIsCorrect`, `PlanIsFollowed`,
`FastPathsAreSafe`, `SchemaIsTrue`, `BreaksAreReported`), for every set of
routers, every program, every graph of dependencies and every request. Since
answers are functions of the tables, `IInv` is about the tables:

- `TreeOK`: a handler is at the node its template leads to, every beginning of
  that template is a node, and a parameter that stands there is the one the node
  carries; what a registration that raises leaves behind keeps this. `TableOK`: the
  routes of the list answer all of their methods, and nothing else does but
  refused ones. `CacheOK`: a cached document is that of the present routes.
- `Planned`: the plan of a route is `BuildHandlerPlan` of its signature for what
  `planned` says, and a trivial route has neither dependencies nor options that
  the trivial path leaves out. Inclusion may keep
  both or make both again; the names a plan was made for are always among those
  of the present path.

From these, for each property:

- `RoutingIsCorrect`: `ResultOK` says of a node and the segments that are left
  that what is found there is a handler below the node whose rest fits, that no
  handler below it which fits is more specific, and that its parameters are the
  rest's, the last of a name winning. It is shown for one segment more at a time
  (`Onward`), with the cases of a text that is there, a text that leads nowhere
  and a parameter that does not convert; backtracking is right because a
  parameter is less specific than a text at the first segment where two
  templates differ in that. `find_allowed_methods` takes the same way for all
  branches, so that 405 names exactly the methods `lookup` answers.
- `PlanIsFollowed`, `FastPathsAreSafe`: by the source of one parameter. Both
  resolvers are compared for each source, given that the route is not stale or
  that it is trivial; the rest of an answer depends on the values alone.
- `SchemaIsTrue`: where a parameter is read and where it is listed by the same
  cases (`ListedOK`); for security, a scheme that runs at some depth is asked for
  at that depth (`SchemesAsked`), by induction on it.
- `BreaksAreReported`: a request in the words of the old document that the new
  signature refuses lacks a required parameter, which is then new, or has one of
  another type, at a slot both documents have; the comparison finds either.

Recursion in these four modules is written as recursive functions, whose defining
equations are lemmas (`DescendedFacts`, `SearchFacts`, `CallsToFacts`,
`AsksFacts` and others), and `UpTo` is the induction over their arguments.

Only model-checked: all liveness (`NeverStuck`, `NoStarvation`,
`OrphansReclaimed`, `NoLockOut`, `ResolveEnds`, `ShutdownEnds`, the liveness of
`InFlight`), which TLAPS does not treat. Every invariant and action property that
the runs check is stated by a theorem.

## 5. Beyond the runs

Noted while reading; each is a behaviour the modules have, or one they leave
out for the reason given.

Limiters

- A failure recorded in a half-open period resets `half_open_calls` whoever
  failed (`circuit_breaker.py:121`); after the next recovery a second probe may
  run beside the first. Likewise the late success of a request admitted before
  the circuit opened closes it (`:130`). `ProbesBounded` therefore speaks of the
  probes of one period.
- `half_open_max_calls=0` leaves a circuit half-open for good once it has
  opened; the script in Redis then still grants the probe that opens the period.
- The half-open circuit in Redis has no time to live: a probe whose process died
  blocks the path of every process.
- `TimeoutError` raised by a waiting call that was just handed a slot refuses it
  although the slot is free (`bulkhead.py:98`); the slot is passed on
  (`NoSlotLost`).
- Two attempts that find the hash full because of each other are both refused
  although a slot is free (`bulkhead_redis.py:66`).
- `RateLimitMiddleware` takes its burst as `int(requests_per_second)`, which is 0
  below one request per second: nothing is ever allowed. The fall-back has no
  cleanup.
- `target_rtt` of the adaptive limit is never used, since the minimum latency is
  finite when it would be; `initial_limit` may lie outside of the bounds until
  the first sample (`InFlightBounded` allows for it).

Requests and the container

- A cancelled request with a sync handler finalises its generators while the
  thread still runs (`app.py:724`); `ScopeOutlivesUse` speaks of scoped instances,
  not of these.
- A `TimeoutError` raised by a dependency or the handler is answered as if the
  request's own timeout had passed (`app.py:734`).
- A singleton made while one it needs is overridden keeps the fake afterwards.

Routing and documents

- `docs/guide/routing.md:38` has a converter `path` that does not exist: such a
  route raises `ValueError` when it is registered. The version of a
  `VersionRouter` goes in front of the prefix (`router.py:387`), not behind it as
  its docstring has it (`version_router.py:19`). `include_router` drops the `response_model_exclude_*` flags
  (`router.py:774`), does not rebuild plans that need a scope already, and tells
  no plugin.
- Nested inclusion under a prefix with a parameter keeps the names a plan was made
  for when that plan needs a scope: the parameter of the prefix is then not seen
  as one of the path (`Stale`).
- A parameter with a simple type and a default is documented as a query parameter
  also when its type is one the container provides, or its default a
  `Depends(...)`, and it is never read from the query (`SeenDifferently`).
- A mount at "/" matches only "/" and paths that begin with "//"; the first of
  two mounts wins; mounts answer before 405.
- A query parameter without marker and default is not documented, and its
  absence is a 500. A body with a default is documented as required, a pydantic
  body not as a body. A name of the path wins over a marker in the document only.
  Security that comes by `dependencies=[...]` is not shown, although
  `security/scopes.py` says so. `detect_breaking_changes` compares neither
  bodies nor whether a known parameter became required, takes no notice of a type
  that is not one of the simple ones, and compares only one of two parameters
  with the same name and place (`NotCompared`).

Messages

- The hooks middleware buffers the whole body, which `middleware/base.py:8`
  says it does not, and keeps one of several headers with the same name.
- `read_body` takes `http.disconnect` for the end of the body. `StreamingResponse`
  and the event source send the last body message also when their iterator
  raised (`streaming.py:77`), and gzip's `finalize` completes what was cut off:
  a truncated answer looks complete. `StaticFiles` sends nothing when the file
  disappears before its size is read.
- A HEAD request for JSON sends two content-length headers. The branch for
  `StreamingResponse` at `app.py:799` cannot be reached.
- `RequestIDMiddleware` together with the logging middleware gives two
  `x-request-id` headers when the client sent none. Changes to the session after
  the start message are lost. `Request.url` uses `scope["server"]`. The CSRF
  form is read without a limit, and `_verify_token` is not called.
- `HTTPSRedirectMiddleware` outside of `TrustedProxyMiddleware` redirects a
  client behind a TLS proxy for ever; `ClientJudged` speaks of gates inside.
- MessagePack negotiation is documented but not wired.
- A WebSocket permission that fails with anything but `HTTPException` does not
  close with 4003.

## 6. Not modelled

- `grpc/_mount.py`: the lifespan starts and stops each mount once, one after the
  other; in `AppLifecycle` it is something opened and closed.
- `flags/*`: a cached file whose races the next change repairs, and on which
  nothing in the framework depends.
- `security/*`, `validation/*`, `serialization/*`, `graphql/*`: conversions and
  checks of one request without state, mostly by other libraries; that they may
  refuse or fail is a case of `RouteExecution`, `ParamPlan` and `HttpExchange`.
- `openapi/codegen`, `openapi/linter.py`, `openapi/inspector.py`, `cli.py`,
  `doctor`, `_migrate`, `_scaffold`, `testing/client.py`, `config`: text from
  text, not part of a running server.
- Of the modelled parts: the `version=` of a single route, which has the effect of
  another path, the table of WebSocket routes, HEAD and
  `required_scopes` in `Dispatch`; schemas of bodies and responses in `OpenApi`;
  ranges of files and how an etag is made in `HttpExchange`; per-route middleware in `RouteExecution`.

What is not proved is listed under "only model-checked" in section 4.
