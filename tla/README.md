# Verification of service-forge

TLA+ models of the parts of service-forge that carry its own logic, checked by
TLC on small instances. Most of their safety properties are also proved by TLAPS,
for every value of the constants. Paths are relative to the repository.

## The system

service-forge is a Go framework for gRPC services and for an HTTP gateway in
front of them. `core/app` runs a list of modules; adapters implement ports
(cache, event bus, registry, store, tracing); `transport/grpcserver` serves RPCs
and registers itself; `transport/gateway` maps HTTP and WebSocket requests to
gRPC calls, per route with a connection pool, a balancer, retries and a circuit
breaker, behind a chain of plugins. `templates/generator.go` writes projects:
a main, a gateway and services with an in-memory repository.

| Component | State it keeps | Operations | Hard part | Correct when |
| --- | --- | --- | --- | --- |
| circuit breaker (`gateway/circuitbreaker.go`) | phase, generation, counts, expiry, under a mutex | beforeRequest, afterRequest, state | outcomes that arrive after the generation they belong to; lazy time-driven transitions; probe budget | counts cover exactly the calls of the generation; probes within budget; never stuck |
| balancers (`gateway/balancer.go`) | atomic counters | pick, release | least_conn reads its counters without a lock | counters exact, index in range |
| unary proxy, retry (`gateway/proxy.go`, `retry.go`) | none of its own; shares breaker, balancer, dialer | Invoke, invokeWithRetry, invokeOnce, dial | several attempts, one outcome; deadline against backoff; panics | one breaker outcome per request; each connection given back; each request answered |
| dialer (`grpcclient/client.go`) | map of connections | DialService, DialTarget | looks up and inserts in two critical sections | connections bounded |
| bidirectional stream (`gateway/proxy_stream.go`) | context, socket, `encodingC`, errgroup | InvokeStream, proxyBidi | two goroutines that block on different things and must end each other | both end; encoding mirrored; errors not mistaken for normal ends |
| server-sent events (`gateway/proxy_stream.go`) | stream, context, release callback | InvokeServerStream, its body writer | seven exits; the handler returns before the stream does; a client that leaves is noticed late | released once, and the stream ends |
| gateway (`gateway/gateway.go`) | fiber stack, routes, pools | registration, Init, Start, Stop | failures half-way; streams in flight at Stop | what was opened is closed |
| plugins, claims, errors (`gateway/plugin*`, `claimforward.go`, `core/errors`) | registry, skip lists | Build, mount, skip, forward, convert | order and precedence; skip lists match patterns | the configured chain runs; only verified claims go upstream; codes survive |
| configuration, catalog, application, health (`core/*`) | raw map, module list, runtime values | Load, Build, Init, Start, Stop, Run, Check | layers; failures of single modules; reverse order; reports during start | the configured modules run, everything is stopped, dependencies last |
| gRPC server (`transport/grpcserver`) | listener, health status, service id | Init, Start, Stop | discovery against listening; graceful against forced stop | discoverable implies listening; shutdown ends |
| memory cache (`adapters/memory/cache.go`) | items, locks | Set, Delete, Lock, Unlock, Allow | leases that run out; stale clock readings | lock excludes, limiter limits |
| event buses (`adapters/memory`, `adapters/rabbitmq`) | handlers; channel, queues | Publish, Subscribe, New, Close | snapshot against subscribing; redelivery; a shared channel | subscribers get their messages, nothing unhandled is acknowledged |
| generated services (`templates/generator.go`) | map of todos or items, counter | Create, Get, List, Update, Delete | read and write in two critical sections; pages; ids as strings | nothing deleted comes back; pages partition |

How they interact: a request goroutine runs through the gateway's chain of
plugins, then calls the breaker (`beforeRequest`), the balancer (`pick`) or the
dialer, the invoker, the release callback and the breaker again
(`afterRequest`); all request goroutines of a route share them. A stream holds
one connection of the pool. The server module calls the registrar that another
module published in the application's value map; the dialer resolves instances
through the same registry.

`PROJECT.json` lists every component with its status, every hazard with the
line where it bites, and the source lines of every definition.

## Modules

**BreakerContract** is what a breaker promises, without generations: a mode, the
set of calls whose outcome still counts, and the successes of the trial period.
Each change of mode, and each end of a window, forgets the calls in flight.

**CircuitBreaker** is the code. `breaker` is the struct; the methods that
require the lock are functions of it (`currentState`, `onSuccess`, `onFailure`,
`setState`, `toNewGeneration`, `readyToTrip`), and `BeforeRequest`,
`AfterRequest` and `State` are the operations. The expiry is only compared with
the clock, so the model keeps the time left, which `Tick` decreases. The ratio
is a fraction of integers instead of a float64. `Contract` instantiates
BreakerContract with the calls that hold a token of the current generation.

**Balancer** models the three balancers. `ScanFirst`, `ScanStep` and `ScanClaim`
are the atomic operations of a least_conn pick, with those of other pickers in
between. The round-robin counter wraps at `CounterRange`. `quiet` is a history
variable: the scans that no claim or release has disturbed so far.

**Dialer** models the connections kept for routes without a pool and the registry
they are resolved with. The lookup and the insertion of `DialTarget` are two
steps. A route with a target of its own, or a dialer without a resolver, dials without
asking the registry (`direct`). Instances come and go.

**UnaryProxy** composes breaker, balancer and dialer, by INSTANCE, with the request
goroutines of a route. `Invoke`, `PickConn`, `Dial`, `EndAttempt`, `Backoff` and
`Return` follow `Invoke`, `pickConn`, `invokeOnce` and `invokeWithRetry`;
`NextTurn` is the end of one turn of the retry loop; `Panic` is an invoker that
panics under the recovery plugin, which runs deferred calls only; `Expire` is the
request's deadline. Errors are framework codes or gRPC statuses, classified as
the code does.

**BidiStream** models a WebSocket bridged to a gRPC stream. Each pump has a
program counter; leaving a pump (cancel, `ws.Close`) and the errgroup's taking
note of its error are two steps, because the other pump may run in between. The
WebSocket client and the gRPC upstream are the environment: they may send, read, end,
fail or leave at any moment, and they need not read: `SendMsg` and `WriteMessage`
block while the far side stays and its buffer is full (`SendBlocked`, `WriteBlocked`).
A frame is its type, `"text"` or `"binary"`.

**Errors** holds the framework codes, the two maps with the operations that change
them, and both conversions; **GatewayPlugins** the typed settings, the factories of the built-in plugins, `Build`, what each handler
does with a request (`verdict`) and the forwarding of claims. Both are pure
operators. A name as typed is the name with a spelling, a YAML value its type and
its content, so that defaulting, normalisation and type errors are there and
strings are not.

**ServerStream** models a server-streaming RPC relayed as Server-Sent Events, from
the pick to the end of the body writer, with a client that may leave, or stay without
reading, and an upstream that may send, end, fail or be silent.

**Gateway** is the module itself: `Register`, `MountGlobalPlugins`, `MountRoute` (one
per turn of the loop, with each of its failures), `MountCustomRoutes`, `Start`,
`Stop`, `Drained`, `CloseConn`. `registered` holds what a project registers before Init:
invokers, codecs, plugins, and codes in the gateway's `httpMap` and in the `grpcMap` of the
services, which are other processes. A Mount fails only in a plugin of the project: the one
built-in plugin that has a Mount returns nil. What Init leaves behind is fiber's stack, a sequence
of entries; `exchange` computes which handlers a request runs through and what
serves it, from the places on the stack that the request visits. Requests to a stream route that the chain lets through become
ServerStreams over the gateway's pool.

**Config** and **Catalog** are pure: `Load` merges documents, which are functions from
paths to leaves, the four files of a generated main one over the other (`merged`);
`Build` turns a component list into modules, from the table `DefaultCatalog` over the `Registered` pairs of component and provider. Catalog also
records what the runtime sees of each adapter: the values it sets, the calls that may
fail, whether Health asks a server.

**Lifecycle** composes them: `Main` is the generated main, which ends with an error if
the merged files are unreadable or their `components` is no list; `Application.Run`
takes the modules through Init, Start and Stop, the gRPC server listens and registers, RPCs
arrive and end, and a health report may be asked for at any moment. The timeouts
may fire at any moment. A stopped grpc.Server closes the listeners that `Serve` has taken
over; Stop may run before the goroutine that calls `Serve`, which then closes the listener
itself.

**MemoryCache** models one key of the in-memory cache: value, lock and rate
limiter. `Allow` reads the clock in one step and updates the counter in a later
one, up to `MaxDelay` time units apart. `lease` is what a client knows of its own
ttl; the history variable `recent[a]` counts the calls granted in the last `a` time
units.

**MemoryEventBus** and **RabbitMQ** are the two buses and **EventBus** the bus of a
process whose configuration names one of them. In memory, `Publish` copies the
topic's list of handlers and calls them one by one. With RabbitMQ, the broker, the buffer
of the client library, and the loss of channel or connection are the environment;
a subscriber's goroutine takes a delivery, runs the handler, and acknowledges or
requeues. The client library may still hand over some buffered deliveries after the
channel has closed.

**TodoService** is the service that the generator writes, with todos or with items.
Each repository method is one step; an update reads in one and writes in another.
Ids are sequences of digits (`formatInt`), compared as Go compares strings; `sorted`
puts each where the ids before it end. Page arithmetic is
int32; an offset that overflows panics (`up`).

The `MC*` modules add symmetry sets and instances; each `.cfg` names its bounds.
Definitions marked *Fault* are deliberately wrong versions of the definition that
follows them: with one in place of the original a named property must fail, which
shows that the property can fail (`mutants` in `PROJECT.json`).

## Runs

| Run | Checks | Shows |
| --- | --- | --- |
| breaker | CallsAccounted, ProbeLimit, AlwaysBalanced, ImplementsContract, NeverStuck | three callers, five generations, calls that outlive windows and timeouts: late outcomes never count, probes stay in budget, the contract is implemented, each open or half-open generation ends |
| balancer | TypeOK, InflightExact, QuietScanIsRight | four pickers, three connections, each balancer and a misspelt setting |
| proxy | OneOutcomePerRequest, ConnectionsReturned, OnlyServerFailuresCount | two goroutines, two attempts, deadline, each balancer, with and without breaker, with and without panics |
| proxy_dial | DialsBounded, EveryRequestAnswered | a route that dials on demand, its own target or through a registry that changes |
| bidi | EncodingMirrored, PumpsUnblockEachOther, NilMeansNormalEnd, PeerLeavingEndsStream, ServerEndClosesWebSocket | two frames and two messages each way, a client and an upstream that may stop reading |
| gateway | NothingLeaked, FullChain, EndpointsExempt, ClaimsVerified, StatusSurvives, LeavingEndsStream, StopEndsStreams | eight configurations, three of which Init cannot mount, three ways of registering, one of them with codes of the project and changed codes of the framework; each request of a small set against the mounted stack; two streams against clients that leave or do not read, and Stop |
| lifecycle | UpIsAnnounced, OkMeansStarted, LastFileDecides, DiscoverableIsListening, DependenciesOutliveServer, CleanShutdownStopsAll, ShutdownCompletes | each combination of thirteen contents of four configuration files, six component lists, two handlers, a health report at any time |
| cache | LockExcludes, LimitHolds | three clients, limit 2 in 3 time units, clock readings late by 1 |
| eventbus | ReachesAll, NothingLost, PoisonDoesNotStarve | either bus, two subscribers, three messages of two topics, one message on which handlers always fail |
| todo | DeletedStaysDeleted, PagesPartition, UndisturbedUpdateKeepsTitle | two updates in progress among all other calls, todos and items, for any id up to the next one |

Each module defines its type invariant `TypeOK`; it is a property of the balancer run
only, where it says something of the code: the index that a pick computes, from a
counter that wraps, is one of the pool. `CHECK_DEADLOCK FALSE` is set where the system ends: streams, processes, a service that panicked.

Two runs show where the code and a sentence of the repository part (`findings`
in `PROJECT.json` quotes the sentences):

| Run | The sentence | What happens |
| --- | --- | --- |
| proxy_panic | a half-open breaker rejects when its probes are in flight | afterRequest is not deferred: a probe that panicked blocks the breaker for good |
| todo_order | List returns todos newest first | ids are compared as strings: "10" comes between "2" and "1" |

Other things were met while modelling and have no run of their own:

- Breaker: a closed breaker looks at its ratio on failures only, so a window over
  the threshold may stay closed until the next failure; `half_open_max_calls`
  bounds the trial calls of a whole half-open period and not only the concurrent
  ones; a status without a framework code (OUT_OF_RANGE) becomes INTERNAL and
  counts as a failure of the service; streams never consult the breaker, although
  the comment on `InvokeStream` says it guards their establishment.
- Balancer: two concurrent least_conn picks, or a retry after its own release, may
  choose a connection that a global view would not.
- Bidirectional stream: the comment on `proxyBidi` says that a pump which finishes unblocks
  the other, which holds for select, RecvMsg and ReadMessage (`PumpsUnblockEachOther`);
  `SendMsg` to an upstream that stays and has stopped reading is unblocked by nobody, and
  meanwhile a peer that leaves goes unnoticed and the pooled connection stays taken.
  A normal end may be reported as the other pump's error; the
  end of the gRPC stream closes the WebSocket only once the client has sent a
  frame; `SendMsg`'s io.EOF may hide the status of a failed stream. The properties of
  the bidi run say what holds nevertheless.
- Gateway: a skip list applies to every request its pattern matches, other routes'
  included; a WebSocket route is mounted for GET whatever its method is, and its
  skip list is not (both are exceptions that `FullChain` names); metrics and access log see the status before the error handler
  does; connections that the dialer keeps are not closed by Stop, and an Init that
  fails leaves the connections dialed before open; a client that stays without reading
  holds the body writer of its stream in Flush, also beyond Stop.
- Errors: a code of the project's own has no case in `FromGRPCError`, so the HTTP status
  registered for it is never the gateway's answer to a service's error; it arrives as the
  framework code with the same gRPC code, or as INTERNAL.
- Cache: a lock with a ttl of zero or less excludes nobody, since its deadline is the zero
  time; Unlock does not ask whose lock it deletes.
- Runtime: a module that fails to start leaves the ones before it started and
  unstopped; `app.env` is "development" whatever environment was chosen, unless a file
  sets it; the server's Health stays nil after Stop, so an "ok" report says nothing about a
  service that stops; Consul's Deregister ignores the shutdown context and is called before
  the select with the timers, so an agent that does not answer holds Stop; when Stop outruns
  the goroutine that calls Serve, Run returns with the listener still open; two providers of one component
  leave a mixture of runtime values.
- RabbitMQ: Health looks at the connection while an error closes the channel that
  everything shares; a cancelled subscriber stays a consumer at the broker.

### Bounds

`MaxGeneration` and `MaxRequests` cap the breaker's counters: five generations
contain a trip, a trial period that fails, one that succeeds and a window
after it, with calls that outlive several of them. A pool of two or three
connections and one more picker than connections makes pickers collide.
`CounterRange` is 8 and no multiple of the three connections, so the round-robin
counter wraps in the middle of a round. Two attempts are enough for a
retry that succeeds and one that does not. `MaxDials` exceeds the number of
goroutines by one, so that DialsBounded could fail. A window of one message makes
`SendMsg` block, and `PeerWindow`, one frame, makes `WriteMessage` block. `MaxDelay` is smaller than `Window`, as a wait for a mutex is;
`Limit < ByteRange` stands for limits up to 255. `MaxMsgs` is one message per
stream: each writer blocks before, between and after it. The configurations of the
gateway hold each built-in plugin, overlapping patterns, one path with a public
and a protected method, a preflight request, pools of none, one and two, and a failure at
each kind of step of Init. The registered codes are one with a gRPC code that no framework
code has, one that shares its gRPC code with a framework code, one nobody registers, and
framework codes with another HTTP status, another gRPC code, and OK. The configuration files of the lifecycle set, empty, neighbour and
break the two settings it reads; the component lists hold two registrars, the same
module twice, one that is disabled and one unknown. `MaxReports` is one report,
which may span the whole life of the process. `MaxFails` bounds the failures on
messages other than the poisonous one. Ids are in base 3 in the todo run, so that
the third id is the first with two digits, and int32 is scaled down to
`IntHalf` = 8, so that offsets overflow.

### Fairness

Liveness assumes weak fairness of the goroutines, of time, and of what the code
relies on from outside: in the unary proxy an attempt ends (its timeout bounds it when one is
configured, otherwise the upstream must answer); requests keep arriving (a half-open
breaker is only left by a trial call); event handlers return. Of the gateway, handlers and
body writers run and Stop goes on once called: its context expires. Of the application,
the steps of Stop run and the timers fire.

Nothing is assumed of clients or upstreams of streams: they need not send, read, end or
leave, nor of RPC handlers. Where code waits for one of them without a limit, fairness does
not cover the wait, and the property names it as the one exception: `SendBlocked` in
PeerLeavingEndsStream, `WriteBlocked` in ServerEndClosesWebSocket, `Unread` in
StopEndsStreams, and in ShutdownCompletes `CallsOutside`, a Deregister at a registry
outside the process or a module's own Stop that does not return.

## Proofs

Constants are assumed to have the types that the ASSUMEs state and nothing
else: any finite set of callers, any integers as configuration (non-positive
values are replaced by defaults in the code).

*CircuitBreakerProofs.* The invariant `AlwaysBalanced` is inductive: no token is
newer than the breaker's generation, requests = holders of a current token +
successes + failures, an open breaker has no requests, and a half-open one has
no failures, at most the budget of requests and fewer successes than the
budget. The first part is what makes a transition safe: when the generation is
bumped nobody can hold the new one, so the counts of the new generation start
balanced at zero. `CallsAccounted`, `ProbeLimit` and `TypeOK` follow from it, and
`BreakerImplementsContract` shows that each step of the breaker, a lazy
transition followed by an admission or an outcome included, is a step of
BreakerContract or a stutter. Lemmas first show what each method does to a
balanced breaker, then each action is proved from them.

*BalancerProofs.* `InflightExact` and `QuietScanIsRight` become inductive with
`ScansAreUnderway`: a goroutine still in the loop of a least_conn pick holds
nothing, so its claim adds one holder and its counter one unit; and the best
connection of its scan is one already read, so a later counter that replaces it
is strictly smaller than all before it. Two lemmas on finite sets say what taking
and giving back a connection does to the number of its holders. The theorems hold
for every finite set of goroutines, pool size and counter range.

*UnaryProxyProofs.* The invariant `ProxyInv` is put together from those of the parts. The
modules CircuitBreakerProofs and BalancerProofs are instantiated with the request
goroutines as callers and pickers, and their step lemmas are used as they stand: the
composition takes only steps of the parts. To these it adds how the parts hang together:
a goroutine has a token exactly while it has a request (`TokenPerRequest`) and a
connection exactly while it is in the invoker (`PoolInv`). From the first, a retry cannot
report twice; from the second, no way out of an attempt keeps a connection. The breaker's
balance is claimed only where invokers do not panic, because a panic loses a token; the
balancer's is claimed with panics too, because its release is deferred. `DialInv` counts,
per target, the connections opened and the goroutines between the two critical sections of
DialTarget: together they are at most the goroutines, because whoever finds a kept
connection never dials that target. `OnlyServerFailuresCount` is an action property.

*BidiStreamProofs.* `PumpsUnblockEachOther` follows from what each way of leaving a pump has
done before (`LeavingTells`): a client pump that leaves has cancelled the context, or SendMsg
has told it that the RPC is over; a server pump has closed the socket. `EncodingMirrored` needs to know where the type of the first frame is
(`FirstFrameDecides`: in the channel, then with the server pump, which neither receives nor
writes without it). `NilMeansNormalEnd` needs three more facts: what each error says about
the outside is true (`ErrorsExplained`), while both pumps run only the client pump cancels
the context (`CancelledByClient`), and the errgroup's error is that of a pump
(`ResultFromPump`).

*EventBusProofs.* In memory, the handlers called so far are the prefix of the copy before
`next` (`LoopInv`). With RabbitMQ, a goroutine holds a message exactly while its handler
runs, nothing is buffered before the queue is consumed, and nothing is routed before the
module is ready; so taking, acknowledging and requeueing move a message from one place that
`NothingLost` names to another.

*LifecycleProofs.* `LifeInv` describes the process: main puts the service and then the
server at the end of the list (`Built`), each loop of Run has its modules one state ahead of
those it has not reached (`Phases`), the registrar is known once a module that sets it has
been initialised (`RegistrarKnown`), the server is where Run has taken it
(`ServerFollowsRun`), Stop and GracefulStop take it off the network in order (`ServerStops`),
and a report of "ok" with the server's checker behind it has seen a listener
(`ReportKnows`). `MostSpecificFileDecides` is about one step, main's: merging a
file gives a setting what the file says if it says anything about it, or else leaves it
(`MergeDecides`); four times that, and the latest file that says anything has decided
(`MergedIsSetting`). `LifecycleAssumption` states that the enabled entries of each component
list are a sequence of components: it holds by the definition of SelectSeq, which the provers
do not know, and TLC evaluates it for the lists of the run.

*StoreProofs*, of the cache. Locker and limiter have an invariant each. A client within its ttl
knows the lock's deadline (`HolderKnows`), so no second one gets in before it. The limiter's
entry outlives the calls that it counts (`EntryCounts`): it has at least the rest of the span
`Window - MaxDelay` to live after each, so all calls granted within one span are in one
counter. `LimiterLimits` has the hypothesis `Limit < ByteRange`: beyond it the counter wraps
and the limit does not hold, which is one of the listed hazards.

*StoreProofs*, of the generated service. `TodoInv` says that the repository holds the ids given
out and not deleted (`KeptIDs`), that the copies of updates in progress are todos
(`KeptTodos`), and that the copy of an update which nobody has disturbed still has the title
of its todo, or the new one (`QuietCopies`). `PagesArePartition` needs more than an invariant.
Ids written in a base are different for different numbers, so comparing them as text is a
strict total order; the rank of an id, the number of ids before it, therefore gives each
match a place of its own and `sorted` exists; and each place is on exactly one page. The
theorem has the hypothesis that the offset of the last page fits in an int32,
`(MaxSeq - 1) * maxPageSize < IntHalf`: beyond it a page panics, another listed hazard.

*GatewayProofs.* `GatewayInv` says that the balancers' counters are the numbers of requests
that hold each connection (`Counted`), that a request holds none before the pick and after its
end and leaves no live context (`HoldsWhileRunning`), and that, unless Init has failed, every
connection dialed belongs to a mounted route (`DialedIsPooled`), which is where Stop looks
for them. The set of connections is existentially quantified: nothing depends on what
routes look like. `ClaimsVerified` and `StatusSurvives` are proved of the operators, for
whatever chain and entry `exchange` finds and whatever was registered: a claim's text exists
only behind the jwt plugin, and the switch of FromGRPCError is the inverse of the gRPC codes
that the framework's codes have by default (`SwitchInvertsMap`).

`EndpointsStayOpen` and `RequestsRunTheChain` are about the stack that Init leaves behind.
`MountInv` describes it: first endpoints without handlers, then one entry per handler of the
global chain, then what is mounted later, among it the configured routes with the handlers
that `Build` made of their own lists (`StackIs`); the mounted routes are those of the
configuration with their defaults (`RoutesAre`); the skip lists are those of the routes that
have one (`SkipsAre`). From it: a request visits the endpoints
before any handler, which is `EndpointsExempt`; and those it visits before the route that
serves it are the whole global chain, from which the skip lists that match take names away,
which is `FullChain`. What Build, FlattenSeq and `Keep` do to lists of any length is proved by
induction over sequences. The library's induction theorems take an operator as a
parameter, which the provers cannot instantiate, so `SeqInduction` takes a set of sequences
instead, and rests on the least element of a set of numbers (`LeastOf`). `GatewayAssumption` says
that the lists in a configuration are sequences and that routes have the fields of
`GatewayRouteConfig`.

In each proof a lemma per action shows that it keeps the invariant, and a few lemmas about
counting the elements of a set, prefixes of a sequence or a changed record serve many
of them. Each invariant was checked by TLC on the instance of its run, but for the existential
quantifiers of `GatewayInv`.

Model-checked only: liveness (NeverStuck, EveryRequestAnswered, PeerLeavingEndsStream,
ServerEndClosesWebSocket, LeavingEndsStream, StopEndsStreams, PoisonDoesNotStarve,
ShutdownCompletes), because TLAPS does not handle fairness or ENABLED. Every other property of
a passing run is the subject of a theorem.

## Not modelled

Serialization, request binding and message pools, logging, metrics and tracing;
the state inside Fiber's limiter and the Prometheus registry; the operations of
the adapters to Consul, Redis and Postgres and of the no-op ones, which forward
each call to a client library or do nothing; expansion of environment variables
in configuration files; the CLI and the text templates as such. The behaviour of
`grpc-go`, Fiber and fasthttp, the WebSocket library, `errgroup` and the AMQP
client is modelled from how the code uses them.

## Plan

1. Proofs: the type invariants of the composed modules; that a server-sent-event stream
   implements the balancer's view of a pick and a release.
2. Models: request binding (precedence of body, query and path); several instances of a
   service behind one registry, with their Lifecycles composed.
