# micra in TLA+

A verification development for [micra](../src), a Go library that owns the
bootstrap and the lifecycle of a service: an `App` initialises, starts and
stops registered *components* (servers, pools, clients), turns signals into an
ordered shutdown, and joins what went wrong into one error. TLC checks the
modules on small instances; TLAPS proves some of their properties for every
instance. Line numbers below and in the modules are those of the source.

## 1. The system

### Components, their state and their operations

| Part | Code | State | Operations | What makes it correct |
|---|---|---|---|---|
| lifecycle engine | `core/internal/lifecycle/lifecycle.go` | `running`, `startResults` (a channel with a slot per component), `shutdownDone`, `startWG`, `triggerErr` under a mutex, `stopErrs` | `Run`: Init in order, Start all, wait, Stop in reverse, wait for the Starts | reverse Stops one at a time, of every component whose Start did not fail; nothing that hangs or fails while stopping is silent; the cause reported is a genuine and the first one; it always returns once asked to |
| component contract | `core/component.go`, `core/errors.go` | - | the state model promised to a `Component` | the engine keeps it |
| App, registration | `core/app.go` | `components`, `names`, `started` under `mu` | `Register`, `markStarted`, `buildItems` | what is accepted is what is driven, once, under distinct names |
| App, running | `core/app.go` | `runCtx`, the synthetic component of `RunOnce` with its `fnErr` | `Run`, `RunOnce`, `withoutCanceled` | a clean shutdown is nil, a failure is not; `fn`'s error is returned; a signal ends it |
| signal trap | `core/internal/signals/signals.go` | a channel of capacity 1, a goroutine | `Trap`, `stop` | cancels on a signal, is always released |
| httpserver | `components/httpserver/server.go` | listener, `http.Server`, `errCh` | `Init`, `Start`, `Stop` | Start outlives Serve; a nil Stop leaves no request |
| grpcserver | `components/grpcserver/server.go` | listener, `grpc.Server`, health service, `srvErr` | `Init`, `Start`, `Stop` | the same, and the readiness probe is told first |
| health probe | `components/grpcserver/healthprobe.go` | - | `HealthProbe` | never says ready of a server that is stopping |
| interceptors | `components/grpcserver/internal/interceptors/` | a call's context | request id, recovery, RPC log | no panic leaves the chain, lines carry the call's own id, every unary call is told of, with the code its client was answered |
| detached tasks | `core/detach.go` | a goroutine, a captured logger, a context with a deadline | `Detach` | a task's panic is recovered and told, its lines name its call, it is over ten seconds after it began |
| pgxpool, rediscache client, grpcclient | `components/pgxpool/pool.go`, `components/rediscache/client.go`, `components/grpcclient/client.go` | a pool or a connection | `Init`, `Start`, `Stop` | nothing left open by a nil Stop or a failed Init; Stop is bounded; nobody above finds it closed |
| invalidation | `components/rediscache/invalidation.go` | a Redis subscription, a goroutine | `Publish`, `Subscribe` | messages reach the handler once and in order, none after Subscribe is missed but those go-redis loses, the goroutine ends |
| cache | `components/rediscache/cache.go` | none (Redis's) | `Get`, `Set`, `Delete` | a prefix that nobody else continues behind a colon is a map of its own; a handler of an invalidation does not read back what was invalidated |
| otelredis | `adapters/otelredis/` | a span and metrics per call | hooks for commands and pipelines | telemetry tells what became of each command |
| otelinit | `adapters/otelinit/` | a `sync.Once`, the first error | `Setup`, the shutdown function | every caller of shutdown gets its answer when all providers are down |
| otelpgx | `adapters/otelpgx/` | a span per statement | `Query`, `QueryRow`, `Exec`, `SendBatch`, of a pool or a transaction | Postgres executes the caller's SQL, the comment of a traced statement reads back as what was put in, the span tells what became of the statement |
| loggerslog, options, examples 01 and 02 | `adapters/loggerslog/`, `*/options.go`, `examples/` | none | - | see section 7 |

### How they interact

`App.Run` derives `runCtx` from the caller's context, installs the trap on it
and hands the components to `lifecycle.Run` as functions. The engine calls each
`Init` from its own goroutine, each `Start` in a goroutine of its own under one
context, and each `Stop` in a goroutine of its own under a fresh context with a
deadline. Start results come back over one buffered channel to a *drain*
goroutine. The first Start error, or the end of `runCtx` (a signal, the caller,
`fn` returning in a `RunOnce`), is the trigger that cancels the Starts' context
and brings the Stops. Components do not call one another through micra: they
are ordered by registration, and a later one uses an earlier one (a server's
handlers use a pool, and so do the tasks they detach, which nobody waits for).
Instances of a service meet in Redis: their caches share its keys, and an
invalidation one publishes is handled in the goroutine of each subscriber. The
telemetry adapters look up OpenTelemetry's globals on each call, which `Setup`
installs and the shutdown function takes out of service at any moment.

### What is hard in it

* Four kinds of goroutine share the trigger, the result channel and two
  deadlines in one `Run`; a Start may return, and a Stop may be called, at any
  of their steps, a Stop even before the Start it belongs to.
* Every wait of the shutdown has a deadline, and the late answer still comes:
  to a goroutine that no longer listens, or beside the next component's Stop.
* Cancellation is both the ordinary end and an error: what is dropped on the
  way out must be only what micra caused.
* The servers' Stop and Start race with `Serve` and with open connections.
* A component promises to be torn down when its Stop returns nil; the ones
  below count on it, and detached tasks run on beside it.
* The connection to Redis breaks, answers are lost, messages are dropped: the
  invalidation comes late or never, and must not come before its delete.
* Values that come from a client (a route in the baggage, a key beside another
  cache's prefix) are put into strings that others take apart.

## 2. Modules

| Module | Models | State and actions in terms of the code |
|---|---|---|
| `Lifecycle` | `lifecycle.Run` | `pc` and `next` are the caller's goroutine (its phase and loop index); `start[i]`, `stop[i]` the goroutines of each component; `drain`, `held` the drain goroutine; `startResults`, `shutdownDone`, `trigger`, `cancelled` the variables they share. One action per step between two synchronisations: `LaunchStart`, `Receive`, `RecordStartErr`, `Capture`, `LaunchStop`, `StopFinished` or `StopExpired`, `AllExited` or `DrainExpired`, ... |
| `LifecycleContract` | the promises of `core/component.go` | per component: registered, initialized, running, stopping, stopped or abandoned; no goroutines or channels |
| `LifecycleProofs` | - | theorems about `Lifecycle`, the refinement among them |
| `App` | `App.Run`, `App.RunOnce`, `withoutCanceled`, `signals.Trap` | extends `Lifecycle`, whose `parentErr` becomes `runCtx.Err()`; `once` says which of the two it is; the last component of a `RunOnce` is `__runonce_fn__` |
| `AppProofs` | - | theorems about `App`, over those about `Lifecycle` |
| `Registry`, `RegistryProofs` | `Register`, `markStarted`, `buildItems` | each body holds `App.mu` and is one step; `Run` takes it twice |
| `HttpServer` | `httpserver.Server` | `starter`, `serving`, `stopper` are three goroutines; `net/http` external |
| `PoolClose` | `pgxpool.Pool`, `rediscache.Client`, `grpcclient.Client` | `kind` says which: a pgx pool's Close waits for its users, the other two end what they are at, and grpc's has neither a ping at Init nor a goroutine at Stop |
| `Service` | the composition of the last two under the engine's order, with detached tasks | `HttpServer` extended, `Pool == INSTANCE PoolClose` with requests and tasks for users and one context for both Starts; `task[t]` is the goroutine `Detach` makes |
| `ServiceProofs` | - | theorems about `Service` and the two it is composed of |
| `GrpcServer`, `GrpcServerProofs` | `grpcserver.Server`, `HealthProbe` | as `HttpServer`, with the goroutine that calls `GracefulStop`; grpc external |
| `Interceptors` | the chain `Init` builds and its layers; `Detach`'s logger and recovery | a call goes in and out through the layers in order; calls interleave, each with a task that may outlive it |
| `InterceptorsProofs` | - | theorems about `Interceptors` |
| `RedisHook` | `otelredis` hook | one call, single or pipelined: `fate` is what really happened, the rest is what the hook sees and emits |
| `Invalidation` | `Publisher.Publish`, `Subscriber.Subscribe` | the channel, the wire, go-redis's buffer and its reconnection, the goroutine; Redis and go-redis external |
| `Cache` | `Cache.Get`, `Set`, `Delete` | `store` is what Redis holds under each storage key, `reply` whose the last call was and what it returned; a call is one Redis command and one step |
| `CacheContract` | what `cache.go` promises | a map for each prefix that keeps apart from the others, no storage keys |
| `Coherence` | the demo of `examples/03-redis-cache/main.go` and its siblings | extends `Invalidation` and `Cache`; `demo` is the demo's goroutine, siblings write and publish beside it |
| `CoherenceProofs` | - | theorems about `Coherence` and the caches in it |
| `OtelInit` | `otelinit.Setup` and the function it returns | `once` is the `sync.Once`, `answers` what each turn of its loop came to, `caller` the goroutines that call shutdown |
| `OtelPgx` | `otelpgx.Pool`, `Tx`, `encode` | extends `OtelInit`; `call` is the statement at hand with its SQL and its span; strings are sequences of numbers, bytes and the words behind them |
| `TelemetryProofs` | - | theorems about `OtelInit`, `OtelPgx` and `RedisHook` |

Which extends or instantiates which: `App` extends `Lifecycle`, which maps to
`LifecycleContract`; `Service` extends `HttpServer` and instantiates
`PoolClose`; `Coherence` extends `Invalidation` and `Cache`, which maps to
`CacheContract`; `OtelPgx` extends `OtelInit`; `GrpcServer`, `Interceptors`,
`RedisHook` and `Registry` stand alone.

`MC*` modules only give constants their values. Definitions marked `[slip]`
stand beside the definition they vary: they are plausible mistakes, not part of
any specification, and each shows that a property notices.

`PROJECT.json` maps every definition that models code to its lines. External
code (net/http, grpc, go-redis, Redis, pgx, the OpenTelemetry SDK) is modelled from how micra uses it.

### Abstractions

Errors are values of a small set, the wrapping `fmt.Errorf` gives them is a
record of where they arose; a message, a key or a request id is a model value.
Time is not measured: a deadline may pass at any moment while somebody waits
for it, which allows every order of a timeout and a late answer. A panic in a
component's function is one more error (`safeCall`). Options, logging (but for
the lines of calls and of their tasks) and formatting are left out. Where a
string is taken apart again it is a sequence of characters: the storage keys of
`Cache`, the comment of `OtelPgx`. The latter's characters are numbers, 0 to 255
for the bytes and five more for words that are not spelt out: the names of the
fields and a traceparent, which are of letters, digits and dashes, and the
caller's SQL. `url.QueryEscape` is modelled for each byte. What a handler returns
is one of four: nil, an error with a status, the bare error of a context, any
other; `rpclog.go:47` and grpc make different codes of the third.

## 3. Runs

| Run | Instance | What it shows |
|---|---|---|
| `lifecycle` | 2 components, the second with Init, one error (41,296 states) | `StopOrder`, `DrainedOrReported`, `TriggerGenuine`, `SendNeverBlocks`, `StopReported`, `FirstTriggerWins`, `TypeOK`: whatever the components answer, whenever the caller cancels, whichever deadline passes. A failed Start or a cancellation ends `Run` though nobody answers (`RunEnds`), no Start goroutine is stuck (`NoGoroutineLeak`), and `Lifecycle` implements `LifecycleContract` (`KeepsContract`) |
| `lifecycle_entered` | 2 components | divergence 1 below |
| `app_safety` | 2 components, one plain error and one that wraps `context.Canceled`; `Run` and `RunOnce`, with and without trap | the filter on `context.Canceled` hides what micra causes (`CleanShutdownIsNil`) and neither a plain failure of the shutdown, nor a Start that failed by itself, nor a panic of `fn`, nor a Start that was given up on (`ShutdownFailuresKept`); `fn`'s error is returned (`FnErrorReturned`) |
| `app_live` | 2 components, one error | `AskedAppEnds`: a signal, `fn`'s return, or the end of `lifecycle.Run` for any reason ends the App; the trap never holds it |
| `app_stripped` | as `app_safety` | divergence 2 below |
| `registry` | 4 components, two with one name; 2 drivers | registrations racing with `Run` |
| `service` | 2 requests, 1 detached task, any of the three clients | `RefusedOnlyPastDeadline`: no request finds its pool closed unless the server's Stop gave up on it, no task before the server is stopped; `ServiceStops`: the shutdown is bounded though every request hangs and every task uses up its ten seconds; `StartOutlivesServe`, `NilStopMeansQuiet`, `PoolIsReleased` |
| `grpc` | 2 calls, 1 probe | no call outlives Stop, no late probe succeeds, Start and Stop return |
| `interceptors` | 2 calls with a task each, unary or stream, 1 client id, 4 kinds of answer and panics (3,001,556 states) | panics of calls and of tasks are contained and told, lines carry the call's id; a unary call has one `rpc.end` or the line of its panic, and `rpc.end` tells the client's code, but for the bare error of a context, which it calls Unknown (`EndTellsTheAnswer`) |
| `redis_hook` | batches of up to 3, two commands | `MetricsTellTheFate`, `SpanTellsTheFate`: durations, hits and spans tell each command's fate, for every mixture of errors go-redis can return |
| `coherence` | the demo, 2 messages, a buffer of 1, one write of a sibling, the prefixes `d`, `df`, `f`, `f:f` and none, the keys `k` and `f:k` (493,698 states) | messages are handled once and in order (`HandledInOrder`), none is missed but those go-redis loses (`NothingMissed`), a handler finds the invalidated value gone (`HandlerSeesTheDelete`), each of `d` and `df`, which the others keep out of, is a map of its own (`CachesKeepTheirContract`, a refinement of `CacheContract`), the demo ends and leaves no goroutine (`DemoEnds`); over answers that are lost, keys that lapse, malformed messages, a connection that breaks, a client that is closed |
| `telemetry` | 2 callers of shutdown, routes of up to 2 characters, no application or one (813,696 states) | `CommentIsRead`: for every route of the seven characters that mean something to a comment, a quote or the escaping, a byte that is no ASCII and the name of a field, with an application that looks like a field; `SpanTellsTheStatement`: whenever the globals come and go; `ShutdownTellsAll` |

### Why the bounds are enough

* Two components for the engine: one is stopped while the other waits, a Stop
  that was given up runs on beside the next one, one Start fails while the other
  is drained. What is safe for two is proved for any number (section 5): each of
  the invariants of this run, its action property and its refinement; the
  liveness waits for one component, the drain goroutine and main, who are
  complete at two.
* One error is enough for the engine, which only tells nil from non-nil; the
  App also tells errors that wrap `context.Canceled`, so its safety run
  has two.
* Two requests or calls: one that is in flight and one that begins late.
  Requests are not retried, so a third adds no order of these two kinds. One
  detached task: tasks neither wait for one another nor share anything but the
  pool, which the two requests share with it.
* A batch of 3 has a command before and after the one whose error is the
  aggregate.
* Two messages and a buffer of 1 fill the channel, drop, and go on. The
  prefixes `d` and `df` with the key `f:k` would make the same storage key if
  the colon were left out where a key has one, and `df` has a default ttl. `f`
  with `f:k` and `f:f` with `k` do make the same, and so do `f` with `k` and a
  Cache without prefix with `f:k`: these use the same Redis in the run, and the
  property claims nothing of them. Claimed of all five prefixes it fails
  (section 6, 12).
* Two characters make `*/`, a quote after an escape, an escape after an escape;
  the encoding has no memory beyond one character. `CommentReads` (section 5)
  has values of every length.
* Two callers of shutdown: one in `once.Do` and one that waits for it.
* The runs explore the state spaces whole; deadlock is checked in all of them,
  and the end of the program is an explicit stuttering action (`Finished`,
  `Over`, ...) with the condition that nothing is left to do. Symmetry is
  declared for the calls of `interceptors`, the callers of `telemetry` and the
  drivers of `registry`, whose properties are all invariants.

## 4. Fairness

* Weak fairness of the engine's own goroutines (`Main`, `Drain`, each
  component's `Plumbing`): the Go scheduler runs what can run, and every
  timer the engine sets fires, so a `select` on a deadline is never disabled
  for good. Nothing is assumed of a component's Init, Start or Stop, of `fn`,
  of the caller or of signals: each may stay away for ever.
* `App` adds the trap's goroutine and the synthetic Start outside of `fn`.
* The servers: the lifecycle calls Start and Stop, `Serve` ends once shut
  down, the deadline passes; nothing of requests. In `GrpcServer`,
  `StopReleasesStart` holds under `Spec`, which also has handlers return once
  their context is cancelled; `StubbornSpec`, the one proved about, does not.
* `PoolClose`, `Service`: Close's goroutine runs; a request may keep a
  connection for ever. A detached task's deadline passes and its `fn` gives up
  once its context is done, which is what `detach.go:22-23` asks of it; without
  that a task, which nobody waits for, would have no end.
* `Coherence`: the demo's goroutine and the subscriber's run, a command and
  `Subscribe` answer in the end, if with an error, five seconds pass, and
  `RunOnce` cancels after `fn` has returned. That `Subscribe` answers is an
  assumption about Redis: it waits in `Receive` (`invalidation.go:79`), which has
  no timeout but its context, and a Redis that takes the connection and says
  nothing would hold the demo until a cancellation. Nothing else is assumed of
  Redis or go-redis: messages, the confirmations of a renewed subscription and
  reconnections may never come.

## 5. What is proved

For every value of the constants, under the named assumptions of the modules
(`NAssumption`, `HasInitAssumption`, `ErrorsAssumption`: components are
numbered, errors are strings other than the markers the model uses;
`PrefixAssumption`: prefixes and keys are strings, any, the empty one and ones
with colons among them; `DemoAssumption`: the demo uses a prefix, a key and a message there is;
`BufferAssumption`, `BatchAssumption`: a buffer has a size, a pipeline holds a
command; `WrapsCanceledAssumption`: what wraps `context.Canceled` is an error;
`TaskAssumption`: tasks are not requests; `ValueAssumption`: applications and
routes are strings, of any bytes):

* `LifecycleProofs`. `TypeCorrect`, then `Inductive`: `IInv` is `TypeOK /\
  StartedInv /\ StopInv /\ TriggerInv /\ DrainInv /\ ChanInv`. `StopOrder` alone
  is not inductive: that the Stop at hand may be called depends on how far main
  has come, so `StopInv` ties `pc` and `next` to what is settled on each side of
  `next`. `StartedInv` says which Starts exist in each phase; `TriggerInv` that
  a cancelled engine has a trigger, and that an index in the channel or in the
  drain goroutine's hands belongs to a Start that has exited; `DrainInv` what
  main saw when it stopped waiting; `ChanInv` that the channel holds no index
  twice. From them `StopsInReverse`, `StopsReported`, `TriggersAreGenuine`,
  `StartsDrained`, and the action property `TriggerIsFinal`. `SendsNeverBlock`
  counts: the indices in the channel are distinct and none is that of the Start
  that is about to send, so by the pigeonhole principle (`FiniteSetTheorems`)
  there are fewer than `N`, which is the channel's capacity.
  The same invariant, with `InitInv` (what each Init has answered when main is at
  `next`), `EndInv` (Run returns after the drain goroutine) and `BlameInv` (a
  Start that runs has no result yet), carries the refinement: `ContractKept`
  says that `Lifecycle` implements `LifecycleContract`. The state of one
  component in the contract is a function of main's place, of its goroutines and
  of its results; `StateOf` and the lemmas before it say which it is, and
  `ContractStep` goes through the actions, each of which moves one component
  along the contract or none.
* `AppProofs`, over `LifecycleProofs`. `EngineStep`: a step of the App is a step
  of the engine or leaves it alone, so the engine's invariant and its contract
  (`AppKeepsContract`) hold under it. `AppInv` adds `FnInv` (`fn` runs in the
  last component, its error is stored before that component's Start returns) and
  `ResultInv` (the result lies between what the engine returned and that with
  `fn`'s error). From them `FnErrorsReturned`, of an error that `fn` returns (a
  panic of `fn` is a Start error of its component), `FailuresKept`, of failures
  that do not wrap `context.Canceled` (those that do are divergence 2), and
  `CleanShutdownsAreNil`. The last needs the engine's `TriggerInv` and
  `BlameInv`: in a shutdown nobody failed, whatever is blamed is a cancellation.
* `RegistryProofs`. `TableInv` (accepted is what is in the table, under distinct
  names) and `DriveInv` (whoever drives has closed the table and sees it whole)
  give `AcceptedIsDriven`, `NamesAreUnique`, `DriverIsUnique`.
* `ServiceProofs`. `ServerStep` and `PoolStep`: a step of the service is one of
  the server, of the pool, of both or of neither, so what a component keeps by
  itself (`ServeInv`, `QuietInv`; `CloseInv`) it keeps in the service. From them
  `StartsOutliveServe`, `NilStopsAreQuiet` and `PoolsAreReleased`.
  `RefusalsAreLate` needs both: `OrderInv` says that the pool is closed after the
  server's Stop returned, and that a request which holds a connection is one the
  server still counts; `TaskAssumption` keeps requests and tasks apart. All of them
  are about one server and one pool below it, stopped in that order, and any
  requests and tasks.
* `GrpcServerProofs`. `ServeInv`, `StopInv`, `ProbeInv` give
  `StartTellsServe`, `NoCallOutlivesStop`, `ProbesFailAfterStop`, without any
  assumption on the handlers.
* `InterceptorsProofs`, for any calls and any request ids. A step looks at one
  call's record, task and lines only, so the invariant, `Sound`, is a predicate
  on these three and `OneCall` says that the others keep theirs. Its parts:
  `PlaceInv` (the layer fits the chain), `ContextInv` (behind `seedLogger` there
  is a logger, behind `RequestID` the tag), `PanicInv` (outside of the recovering
  layer no answer is a panic, and only there one is Internal), `TaskInv` (a task
  has the logger its call had in the handler), `LineInv` (what the lines tell).
  `Told` and `Untold` say what a step may do to a call without making its lines
  wrong. That the process never ends by a panic is not inductive without
  `PanicInv`, nor are the lines' ids without `ContextInv`. `EndIsTheAnswer` says
  where the logged code is the client's and where it is not (section 6, 13). From them
  `NoPanicEscapes`, `LinesAreTheCalls`, `NoPanicIsHidden`, `EndIsTheAnswer`.
* `CoherenceProofs`, for any prefixes, keys, messages, buffer and siblings.
  `CoherenceInductive`: `DemoInv /\ QueueInv /\ OpenInv /\ BoundInv` is invariant. `DemoInv`
  says that the demo's value cannot come back once the delete was answered,
  since only the demo stores it; `QueueInv` that positions grow from what is
  handled through the loop's hands and the channel to the wire; `OpenInv` that
  the subscription is there while the context lives and the client is open, and
  that what the loop let go of was handled or malformed; `BoundInv` that
  positions and the buffer keep within their bounds. From them
  `HandlersSeeTheDelete`, `HandlesInOrder` and `MissesNothing`.
  `CachesImplementTheirContract` is the refinement of `CacheContract`, of the
  prefixes in `Own`: those that no other prefix, and no key of a Cache without
  one, continues behind a colon. Its core, `NamespacedIsInjective`, is that a
  storage key of such a prefix is nobody else's (`ColonSeparates`); then a lemma
  for each call says what a write under one storage key does to the maps. Nothing
  is assumed of prefixes and keys, and nothing is said of prefixes outside `Own`,
  whose storage keys do collide.
* `TelemetryProofs`, for any callers of shutdown, application names and
  routes. Of `OtelInit`,
  `ShutdownInv`: `LoopInv` (`once.Do` is over when every provider has had its
  turn), `FirstInv` (the closure's variable holds the first answer that is not
  nil, or all are nil) and `AnswerInv` (who has returned has that variable, and
  it is final). From it `ShutdownTells`. Of `OtelPgx`, `CallInv` (the statement
  at hand has the tracer its pool had, and an open span while it is out) and
  `SpanInv`; the latter needs `DownStays`, that a provider which has shut down
  does not come back. From them `SpansTell`.
  `CommentReads` is in four parts. First, `FlattenSeq` and the reading of
  escapes, both recursive functions, exist, are unique, and have a value for one
  more character that follows from the one before. Then `EscapedReads`: whatever
  the value, `escaped` leaves letters, digits, `-._~` and percent signs of it, none
  of which ends a quote, a comment or, for want of `=`, a field's name, and
  `Unescape` gives the value back, byte by byte. Third, `EncodedReads`: the calls of `add` keep a
  shape (`Body`: each name at most once, each with a quoted, escaped value behind
  it), from which the comment ends where `encode` ended it, and each field reads
  as the value that went in. Last, `CommentInv`: the statement on its way
  carries what `encode` makes of its fields. `CommentReads` asks for the comment
  of traced statements only; one without a valid span context may have it or not
  (section 6, 10). The inductions over the length of a
  string are by `SetInduction`: a set of numbers with 0 and, of each number, the
  next, has no least number missing.
  Of `RedisHook`, for pipelines of any length: `ReplyInv` says what go-redis may
  have left, `Told` (each command its error) or `Untold` (none, and nothing was
  sent), from which `ErrorTells` and `SpanErrorTells` conclude that the errors
  the hook derives tell the fates; `RecordInv` that the metrics are those of the
  commands the loop is past. From them `MetricsTell` and `SpanTells`. That
  `SelectInSeq` finds an error where there is one rests on the least element of
  a set of numbers (`MinIn`, by `WFMin` of `WellFoundedInduction`).

The type invariants are theorems, too, of every module: `TypeCorrect` of
`LifecycleProofs` and `InterceptorsProofs`, `AppTypeCorrect`,
`SubscriptionTypeCorrect`, `OtelTypeCorrect` and `HookTypeCorrect`; those of the
registry, the servers and the pools are the first conjuncts of their inductive
invariants. TLC has checked each inductive invariant before its proof.

Every safety invariant and action property that a passing run checks is the
property of a theorem. Only model-checked:

* All liveness (`RunEnds`, `NoGoroutineLeak`, `AskedAppEnds`, `ServiceStops`,
  `StopReleasesStart`, `DemoEnds`): it needs fairness and ENABLED, which these
  proofs do not reach.

Two branches of the engine were found to be unreachable once the start phase is
over: the `continue` for a component that is not running (`lifecycle.go:149`),
as all are marked before the wait, and `Run`'s nil result
(`lifecycle.go:193`), as nothing is stopped without a trigger.

## 6. Where the repository says otherwise

Checked by a run that must fail:

1. `lifecycle_entered`. `running[i]` is set before the goroutine of Start
   exists (`lifecycle.go:75`), so a component can be stopped before its Start
   has been entered; `lifecycle.go:66` and `component.go:44` say only those
   that entered are stopped.
2. `app_stripped`. `withoutCanceled` drops whatever `errors.Is` finds a
   `context.Canceled` in (`app.go:231`); `app.go:133-136` says errors that
   consist of nothing else.

Seen while modelling, with no run yet. The properties that pass do not decide
them: `StopReported` demands a Stop only of a component whose Start did not fail,
`CommentIsRead` a comment only of a traced statement, `EndTellsTheAnswer` an
`rpc.end` only of a unary call that did not panic and grpc's code only of what is
not the bare error of a context, `CachesKeepTheirContract` a map only for a
prefix in `Own`:

3. The component whose Start failed is stopped with the others
   (`lifecycle.go:151`); `lifecycle_test.go:152` says it is not.
4. The synthetic Stop of `RunOnce` returns at once (`app.go:199`), so a signal
   lets components be stopped under a running `fn`, against
   `component.go:37-39`.
5. An HTTP Stop that comes before `Serve` returns nil with the listener open
   until `Serve` closes it (`httpserver/server.go:103`, `component.go:37`).
6. A handler that ignores its context keeps the gRPC Stop beyond its deadline
   (`grpcserver/server.go:185`; `:159` says it is bounded).
7. A unary call whose handler panics logs no `rpc.end` (`rpclog.go:45`;
   `rpclog.go:23` says always).
8. The subscriber's handler may be called after the cancellation
   (`invalidation.go:87`; `:71` says until).
9. `otelinit` never reads the sampler and the resource its options store, while
   `setup.go:19-20` says `Setup` applies the sampler.
10. Without a tracer provider `otelpgx` still emits a comment when
   `WithApplication` was given or the baggage has a route (`options.go:77-84`);
   `pool.go:7-12` says there is none.
11. The synthetic Start of `RunOnce` returns nil whatever `fn` returned
   (`app.go:188-197`); the comment above it, `app.go:167-171`, says it returns
   what `fn` returned, and that a non-nil error fails fast.
12. The prefix `a:b` with the key `c` and the prefix `a` with the key `b:c` make
   one storage key, and so do a prefix `a` with the key `c` and a Cache without a
   prefix with the key `a:c` (`cache.go:51-56`); `cache.go:20` calls a prefix a
   key namespace, without a word on colons.
13. For the bare error of a context `rpc.end` says `Unknown`
   (`rpclog.go:47`, `status.Code`) while grpc answers the client `Canceled` or
   `DeadlineExceeded`.

## 7. What is not modelled, and why

* `loggerslog`: an adapter without state that turns one logging call into
  another. Levels and `With` in `core` are the same.
* Options: configuration that is fixed before anything runs; the models take
  what they decide (a deadline exists, a ttl has a default, a span has a
  provider) as given. The instruments `otelredis` makes are the SDK's.
* Examples 01 and 02, which wire components together and add no behaviour.
* In the interceptors redaction, truncation and the attributes of spans; a panic
  inside `RequestID`, which is outside of the recovery; interceptors and stats
  handlers that `WithGRPCServerOptions` passes to grpc (`server.go:113`): they run
  outside of the chain, so what `PanicsAreContained` says does not reach them.
* Of go-redis its retries, and a command that is applied after its answer was
  given up, which could undo a delete behind an invalidation. Nor does a sibling
  of `Coherence` read the demo's value from a database and store it late, as a
  service with a stale copy could.
* The flushing of a provider: its `Shutdown` is one step, and a span that ends
  in the middle of it counts as kept.
* Of pgx rows, batches' results and arguments.
* Handlers that keep working on a hijacked HTTP connection, which `Shutdown`
  does not count.

## 8. Plan

Done, in this order: the engine and its contract; App and trap; registration;
servers; the three clients and their composition with the HTTP server;
interceptors; detached tasks in both; telemetry of Redis; invalidation with
reconnections; caches, their contract and the coherence of both; the set-up
of telemetry and that of Postgres; the proofs of section 5.

Next, the model:

1. `Service` with `GrpcServer` in place of `HttpServer`, and with an `App`
   above it instead of the bare context.
2. The divergences 3 to 13, in place of runs the proofs have made redundant.

Then the theorems about what those two compose.
